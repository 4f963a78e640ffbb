---------------------------- MODULE OciCacheProofs ----------------------------
(***************************************************************************)
(* Theorems about OciCache: whatever tags, the agent's file and the cache  *)
(* go through while images are prepared, entries and machines are of one   *)
(* image, and a creation fails only for a reason; for any number of        *)
(* creators, images, agents and mishaps.                                   *)
(***************************************************************************)
EXTENDS OciCache, TLAPS

\* The conjuncts of TypeOK.
WorldOK ==
    /\ tag \in [Reference -> Digest] /\ agent \in Agent
    /\ cache \in [Key -> Entry \cup {None}]
    /\ machines \subseteq Machine
    /\ session = None \/ session \in [machine : Machine, env : Digest]
    /\ published \subseteq [root : Digest, base : Digest]
    /\ excused \subseteq Creator /\ mixed \subseteq Key /\ damaged \subseteq Key
CreatorOK ==
    /\ pc \in [Creator -> {"idle"} \cup Locked \cup Unlocked]
    /\ job \in [Creator -> [reference : Reference \cup {None},
                            digest : Digest \cup {None}, key : Key \cup {None}]]
    /\ outcome \in [Creator -> {"none", "ok", "err", "killed"}]
HolderOK ==
    /\ holder \in [Key -> Creator \cup {None}]
    /\ \A k \in Key :
        holder[k] # None => pc[holder[k]] \in Locked /\ job[holder[k]].key = k
TemporaryOK ==
    /\ temporary \in [Creator -> Entry \cup {None}]
    /\ \A c \in Creator : temporary[c] # None => pc[c] \in Building \ {"pull"}

\* What a creator knows of its job when it is at a step.
JobSound ==
    \A c \in Creator :
        /\ pc[c] # "idle" => job[c].reference \in Reference /\ outcome[c] = "none"
        /\ pc[c] \notin {"idle", "resolve"} => job[c].digest \in Digest
        /\ pc[c] \notin {"idle", "resolve", "identify"} =>
             job[c].key \in Key /\ job[c].key[1] = job[c].digest

\* An entry's image, which no damage changes, and its metadata, which agree with
\* each other also when they are another entry's.
EntrySound(k) ==
    /\ cache[k].layout = k[1] /\ cache[k].rootfs = k[1]
    /\ cache[k].env = cache[k].digest /\ cache[k].key[1] = cache[k].digest
    /\ k \notin damaged =>
         /\ cache[k].disk /\ cache[k].meta
         /\ cache[k].digest = k[1] /\ cache[k].key = k
         /\ k \notin mixed => cache[k].agent = k[2]

CacheSound == \A k \in Key : cache[k] # None => EntrySound(k)

\* The agent and the tag are what the creator has seen, or somebody changed them.
AgentSeen ==
    \A c \in Creator :
        pc[c] \in Keyed => job[c].key[2] = agent \/ job[c].key \in mixed

TagSeen ==
    \A c \in Creator :
        /\ pc[c] \in {"identify", "look", "lock", "relook", "pull"}
        /\ job[c].reference \in LocalReference
        => tag[job[c].reference] = job[c].digest \/ c \in excused

\* The entry that a creator has built so far.
BuildSound ==
    \A c \in Creator :
        /\ pc[c] \in {"verify", "provision", "install"} =>
             /\ temporary[c] \in Entry
             /\ temporary[c].digest = job[c].digest /\ temporary[c].key = job[c].key
             /\ temporary[c].layout = job[c].digest \/ (pc[c] = "verify" /\ c \in excused)
        /\ pc[c] \in {"provision", "install"} => temporary[c].env = job[c].digest
        /\ pc[c] = "install" =>
             /\ temporary[c].rootfs = job[c].digest
             /\ temporary[c].disk /\ temporary[c].meta
             /\ temporary[c].agent = job[c].key[2] \/ job[c].key \in mixed
        /\ pc[c] = "discard" => c \in excused

\* Who builds an entry has its lock, and nobody else has made the entry.
LockSound ==
    \A c \in Creator :
        /\ pc[c] \in Locked => holder[job[c].key] = c
        /\ pc[c] \in Building \ {"discard"} => cache[job[c].key] = None

\* What a creator has found or made stays until it is done with it.
FoundSound ==
    \A c \in Creator :
        pc[c] \in {"sync", "record", "commit"} =>
            /\ cache[job[c].key] \in Entry
            /\ cache[job[c].key].digest = job[c].digest
            /\ cache[job[c].key].key = job[c].key
            /\ cache[job[c].key].rootfs = job[c].digest

\* A machine keeps its image, which is that of its key.
MachineSound ==
    /\ MachinesKeepTheirImage
    /\ \A m \in machines : m.key[1] = m.digest

\* The inductive invariant.
IInv ==
    /\ WorldOK /\ CreatorOK /\ HolderOK /\ TemporaryOK /\ JobSound /\ CacheSound
    /\ AgentSeen /\ TagSeen /\ BuildSound /\ LockSound /\ FoundSound
    /\ MachineSound /\ FailuresHaveReasons

\* A creator begins with a reference and nothing else.
LEMMA BeginHolds == ASSUME IInv, NEW c \in Creator, Begin(c) PROVE IInv'
  <1>1. WorldOK'
    BY DEF IInv, WorldOK, Begin, world
  <1>2. CreatorOK'
    BY DEF IInv, CreatorOK, Unlocked, Begin, Goto
  <1>3. HolderOK'
    BY DEF IInv, Locked, Building, HolderOK, Begin, Goto
  <1>4. TemporaryOK'
    BY DEF IInv, Building, TemporaryOK, Begin, Goto
  <1>5. JobSound'
    BY DEF IInv, CreatorOK, JobSound, Begin, Goto
  <1>6. CacheSound'
    BY DEF IInv, CacheSound, EntrySound, Begin
  <1>7. AgentSeen'
    BY DEF IInv, AgentSeen, Keyed, Begin, Goto, world
  <1>8. TagSeen'
    BY DEF IInv, TagSeen, Begin, Goto, world
  <1>9. BuildSound'
    BY DEF IInv, BuildSound, Begin, Goto
  <1>10. LockSound'
    BY DEF IInv, Locked, Building, LockSound, Begin, Goto
  <1>11. FoundSound'
    BY DEF IInv, FoundSound, Begin, Goto
  <1>12. MachineSound'
    BY DEF IInv, MachineSound, MachinesKeepTheirImage, Begin, world
  <1>13. FailuresHaveReasons'
    BY DEF IInv, CreatorOK, FailuresHaveReasons, Begin
  <1> QED BY <1>1, <1>2, <1>3, <1>4, <1>5, <1>6, <1>7, <1>8, <1>9, <1>10, <1>11,
            <1>12, <1>13 DEF IInv

\* skopeo inspect: what the tag points to is what the job is about.
LEMMA ResolveHolds == ASSUME IInv, NEW c \in Creator, Resolve(c) PROVE IInv'
  <1>1. WorldOK'
    BY DEF IInv, WorldOK, Resolve, world, history
  <1>2. CreatorOK'
    BY DEF IInv, JobSound, WorldOK, Machine, CreatorOK, Unlocked, Resolve, Goto
  <1>3. HolderOK'
    BY DEF IInv, Locked, Building, HolderOK, Resolve, Goto
  <1>4. TemporaryOK'
    BY DEF IInv, Building, TemporaryOK, Resolve, Goto
  <1>5. JobSound'
    BY DEF IInv, CreatorOK, WorldOK, JobSound, Resolve, Goto
  <1>6. CacheSound'
    BY DEF IInv, CacheSound, EntrySound, Resolve, history
  <1>7. AgentSeen'
    BY DEF IInv, AgentSeen, Keyed, Resolve, Goto, world, history
  <1>8. TagSeen'
    BY DEF IInv, CreatorOK, TagSeen, Resolve, Goto, world, history
  <1>9. BuildSound'
    BY DEF IInv, BuildSound, Resolve, Goto, history
  <1>10. LockSound'
    BY DEF IInv, Locked, Building, LockSound, Resolve, Goto
  <1>11. FoundSound'
    BY DEF IInv, FoundSound, Resolve, Goto
  <1>12. MachineSound'
    BY DEF IInv, MachineSound, MachinesKeepTheirImage, Resolve, world
  <1>13. FailuresHaveReasons'
    BY DEF IInv, FailuresHaveReasons, Resolve, history
  <1> QED BY <1>1, <1>2, <1>3, <1>4, <1>5, <1>6, <1>7, <1>8, <1>9, <1>10, <1>11,
            <1>12, <1>13 DEF IInv

\* The key is of the digest and of the agent that was hashed.
LEMMA IdentifyHolds == ASSUME IInv, NEW c \in Creator, Identify(c) PROVE IInv'
  <1>1. WorldOK'
    BY DEF IInv, WorldOK, Identify, world, history
  <1>2. CreatorOK'
    <2>1. <<job[c].digest, agent>> \in Key
      BY DEF IInv, JobSound, Key, WorldOK, Identify
    <2> QED BY <2>1 DEF IInv, CreatorOK, Unlocked, Identify, CacheKey, Goto, world
  <1>3. HolderOK'
    BY DEF IInv, Locked, Building, HolderOK, Identify, Goto
  <1>4. TemporaryOK'
    BY DEF IInv, Building, TemporaryOK, Identify, Goto
  <1>5. JobSound'
    BY DEF IInv, CreatorOK, Key, WorldOK, JobSound, Identify, CacheKey, Goto
  <1>6. CacheSound'
    BY DEF IInv, CacheSound, EntrySound, Identify, history
  <1>7. AgentSeen'
    BY DEF IInv, CreatorOK, AgentSeen, Identify, CacheKey, Goto, world, history
  <1>8. TagSeen'
    BY DEF IInv, TagSeen, Identify, Goto, world, history
  <1>9. BuildSound'
    BY DEF IInv, BuildSound, Identify, Goto, history
  <1>10. LockSound'
    BY DEF IInv, Locked, Building, LockSound, Identify, Goto
  <1>11. FoundSound'
    BY DEF IInv, FoundSound, Identify, Goto
  <1>12. MachineSound'
    BY DEF IInv, MachineSound, MachinesKeepTheirImage, Identify, world
  <1>13. FailuresHaveReasons'
    BY DEF IInv, JobSound, FailuresHaveReasons, Identify, history
  <1> QED BY <1>1, <1>2, <1>3, <1>4, <1>5, <1>6, <1>7, <1>8, <1>9, <1>10, <1>11,
            <1>12, <1>13 DEF IInv

\* valid_cache without the lock: an entry of the job's identity, or none.
LEMMA LookHolds == ASSUME IInv, NEW c \in Creator, Look(c) PROVE IInv'
  <1>1. WorldOK'
    BY DEF IInv, WorldOK, Look, world, history
  <1>2. CreatorOK'
    BY DEF IInv, CreatorOK, Unlocked, Look, Goto
  <1>3. HolderOK'
    BY DEF IInv, Locked, Building, HolderOK, Look, Goto
  <1>4. TemporaryOK'
    BY DEF IInv, Building, TemporaryOK, Look, Goto
  <1>5. JobSound'
    BY DEF IInv, JobSound, Look, Goto
  <1>6. CacheSound'
    BY DEF IInv, CacheSound, EntrySound, Look, history
  <1>7. AgentSeen'
    BY DEF IInv, AgentSeen, Keyed, Look, Goto, world, history
  <1>8. TagSeen'
    BY DEF IInv, TagSeen, Look, Goto, world, history
  <1>9. BuildSound'
    BY DEF IInv, BuildSound, Look, Goto, history
  <1>10. LockSound'
    BY DEF IInv, Locked, Building, LockSound, Look, Goto
  <1>11. FoundSound'
    BY DEF IInv, JobSound, WorldOK, CacheSound, EntrySound, FoundSound, Look, Goto,
           Hit, Usable
  <1>12. MachineSound'
    BY DEF IInv, MachineSound, MachinesKeepTheirImage, Look, world
  <1>13. FailuresHaveReasons'
    BY DEF IInv, FailuresHaveReasons, Look, history
  <1> QED BY <1>1, <1>2, <1>3, <1>4, <1>5, <1>6, <1>7, <1>8, <1>9, <1>10, <1>11,
            <1>12, <1>13 DEF IInv

\* The lock was free, so nobody else is building this entry.
LEMMA AcquireHolds == ASSUME IInv, NEW c \in Creator, Acquire(c) PROVE IInv'
  <1>1. WorldOK'
    BY DEF IInv, WorldOK, Acquire, world, history
  <1>2. CreatorOK'
    BY DEF IInv, CreatorOK, Locked, Acquire, Goto
  <1>3. HolderOK'
    <2>1. pc[c] = "lock" /\ job[c].key \in Key
      BY DEF IInv, JobSound, Acquire
    <2>2. holder' \in [Key -> Creator \cup {None}]
      BY <2>1 DEF IInv, HolderOK, Acquire
    <2>3. \A k \in Key :
           holder'[k] # None => pc'[holder'[k]] \in Locked /\ job'[holder'[k]].key = k
      BY <2>1, NoneAssumption DEF IInv, HolderOK, Locked, CreatorOK, Acquire, Goto
    <2> QED BY <2>2, <2>3 DEF HolderOK
  <1>4. TemporaryOK'
    BY DEF IInv, Building, TemporaryOK, Acquire, Goto
  <1>5. JobSound'
    BY DEF IInv, JobSound, Acquire, Goto
  <1>6. CacheSound'
    BY DEF IInv, CacheSound, EntrySound, Acquire, history
  <1>7. AgentSeen'
    BY DEF IInv, AgentSeen, Keyed, Acquire, Goto, world, history
  <1>8. TagSeen'
    BY DEF IInv, TagSeen, Acquire, Goto, world, history
  <1>9. BuildSound'
    BY DEF IInv, BuildSound, Acquire, Goto, history
  <1>10. LockSound'
    BY NoneAssumption DEF IInv, Building, JobSound, HolderOK, LockSound, Acquire, Goto
  <1>11. FoundSound'
    BY DEF IInv, FoundSound, Acquire, Goto
  <1>12. MachineSound'
    BY DEF IInv, MachineSound, MachinesKeepTheirImage, Acquire, world
  <1>13. FailuresHaveReasons'
    BY DEF IInv, FailuresHaveReasons, Acquire, history
  <1> QED BY <1>1, <1>2, <1>3, <1>4, <1>5, <1>6, <1>7, <1>8, <1>9, <1>10, <1>11,
            <1>12, <1>13 DEF IInv

\* valid_cache under the lock: an entry that is there and not valid is damaged.
LEMMA RelookHolds == ASSUME IInv, NEW c \in Creator, Relook(c) PROVE IInv'
  <1>1. WorldOK'
    BY DEF IInv, WorldOK, Relook, world, history
  <1>2. CreatorOK'
    <2>1. pc' \in [Creator -> {"idle"} \cup Locked \cup Unlocked]
      BY DEF IInv, CreatorOK, Locked, Unlocked, Building, Relook, Goto, Ends
    <2>2. outcome' \in [Creator -> {"none", "ok", "err", "killed"}]
      BY DEF IInv, CreatorOK, Relook, Ends
    <2>3. UNCHANGED job
      BY DEF Relook
    <2> QED BY <2>1, <2>2, <2>3 DEF IInv, CreatorOK
  <1>3. HolderOK'
    BY DEF IInv, CreatorOK, Locked, Building, HolderOK, Relook, Goto, Release, Ends
  <1>4. TemporaryOK'
    BY DEF IInv, CreatorOK, Building, TemporaryOK, Relook, Goto, Ends
  <1>5. JobSound'
    BY DEF IInv, CreatorOK, JobSound, Relook, Goto, Ends
  <1>6. CacheSound'
    BY DEF IInv, CacheSound, EntrySound, Relook, history
  <1>7. AgentSeen'
    BY DEF IInv, CreatorOK, AgentSeen, Keyed, Relook, Goto, Ends, world, history
  <1>8. TagSeen'
    BY DEF IInv, CreatorOK, TagSeen, Relook, Goto, Ends, world, history
  <1>9. BuildSound'
    BY DEF IInv, CreatorOK, BuildSound, Relook, Goto, Ends, history
  <1>10. LockSound'
    BY DEF IInv, CreatorOK, Locked, Building, JobSound, LockSound, Relook, Goto,
           Release, Ends
  <1>11. FoundSound'
    BY DEF IInv, CreatorOK, JobSound, WorldOK, CacheSound, EntrySound, FoundSound,
           Relook, Hit, Goto, Ends, Usable
  <1>12. MachineSound'
    BY DEF IInv, MachineSound, MachinesKeepTheirImage, Relook, world
  <1>13. FailuresHaveReasons'
    BY NoneAssumption DEF IInv, CreatorOK, JobSound, CacheSound, EntrySound,
                          FailuresHaveReasons, Relook, Hit, Ends, history, Usable
  <1> QED BY <1>1, <1>2, <1>3, <1>4, <1>5, <1>6, <1>7, <1>8, <1>9, <1>10, <1>11,
            <1>12, <1>13 DEF IInv

\* A copy by tag is of another image only when the tag has moved.
LEMMA PullHolds == ASSUME IInv, NEW c \in Creator, Pull(c) PROVE IInv'
  <1>1. WorldOK'
    BY DEF IInv, WorldOK, Pull, world, history
  <1>2. CreatorOK'
    BY DEF IInv, CreatorOK, Locked, Building, Pull, Goto
  <1>3. HolderOK'
    BY DEF IInv, Locked, Building, HolderOK, Pull, Goto
  <1>4. TemporaryOK'
    BY DEF IInv, CreatorOK, Building, JobSound, WorldOK, Entry, TemporaryOK, Pull,
           Goto
  <1>5. JobSound'
    BY DEF IInv, JobSound, Pull, Goto
  <1>6. CacheSound'
    BY DEF IInv, CacheSound, EntrySound, Pull, history
  <1>7. AgentSeen'
    BY DEF IInv, AgentSeen, Keyed, Pull, Goto, world, history
  <1>8. TagSeen'
    BY DEF IInv, TagSeen, Pull, Goto, world, history
  <1>9. BuildSound'
    BY DEF IInv, JobSound, TemporaryOK, Entry, TagSeen, WorldOK, BuildSound, Pull,
           Goto, history
  <1>10. LockSound'
    BY DEF IInv, CreatorOK, Locked, Unlocked, LockSound, Pull, Goto
  <1>11. FoundSound'
    BY DEF IInv, FoundSound, Pull, Goto
  <1>12. MachineSound'
    BY DEF IInv, MachineSound, MachinesKeepTheirImage, Pull, world
  <1>13. FailuresHaveReasons'
    BY DEF IInv, FailuresHaveReasons, Pull, history
  <1> QED BY <1>1, <1>2, <1>3, <1>4, <1>5, <1>6, <1>7, <1>8, <1>9, <1>10, <1>11,
            <1>12, <1>13 DEF IInv

\* The copy is of the image asked for from here on.
LEMMA VerifyHolds == ASSUME IInv, NEW c \in Creator, Verify(c) PROVE IInv'
  <1>1. WorldOK'
    BY DEF IInv, WorldOK, Verify, world, history
  <1>2. CreatorOK'
    BY DEF IInv, CreatorOK, Locked, Building, Verify, Goto
  <1>3. HolderOK'
    BY DEF IInv, CreatorOK, Locked, Building, HolderOK, Verify, Goto
  <1>4. TemporaryOK'
    <2>1. temporary[c] \in Entry /\ pc[c] = "verify"
      BY DEF IInv, BuildSound, Verify
    <2>2. [temporary[c] EXCEPT !.env = temporary[c].layout] \in Entry
      BY <2>1 DEF Entry
    <2>3. temporary' \in [Creator -> Entry \cup {None}]
      BY <2>1, <2>2 DEF IInv, TemporaryOK, Verify
    <2>4. \A d \in Creator : temporary'[d] # None => pc'[d] \in Building \ {"pull"}
      BY <2>1 DEF IInv, TemporaryOK, Building, CreatorOK, Verify, Goto
    <2> QED BY <2>3, <2>4 DEF TemporaryOK
  <1>5. JobSound'
    BY DEF IInv, CreatorOK, JobSound, Verify, Goto
  <1>6. CacheSound'
    BY DEF IInv, CacheSound, EntrySound, Verify, history
  <1>7. AgentSeen'
    BY DEF IInv, CreatorOK, AgentSeen, Keyed, Verify, Goto, world, history
  <1>8. TagSeen'
    BY DEF IInv, CreatorOK, TagSeen, Verify, Goto, world, history
  <1>9. BuildSound'
    <2>1. /\ temporary[c] \in Entry /\ pc[c] = "verify" /\ job[c].digest \in Digest
          /\ temporary[c].digest = job[c].digest /\ temporary[c].key = job[c].key
          /\ temporary[c].layout = job[c].digest \/ c \in excused
      BY DEF IInv, BuildSound, JobSound, Verify
    <2>2. /\ UNCHANGED <<job, excused, mixed>>
          /\ \A d \in Creator \ {c} : temporary'[d] = temporary[d] /\ pc'[d] = pc[d]
      BY DEF IInv, TemporaryOK, CreatorOK, Verify, Goto, history
    <2>3. CASE temporary[c].layout # job[c].digest
      <3>1. pc'[c] = "discard" /\ c \in excused
        BY <2>1, <2>3 DEF IInv, CreatorOK, Verify, Goto
      <3> QED BY <2>2, <3>1 DEF IInv, BuildSound
    <2>4. CASE temporary[c].layout = job[c].digest
      <3>1. temporary'[c] = [temporary[c] EXCEPT !.env = job[c].digest]
        BY <2>1, <2>4 DEF IInv, TemporaryOK, Verify
      <3>2. /\ temporary'[c] \in Entry
            /\ temporary'[c].digest = job[c].digest /\ temporary'[c].key = job[c].key
            /\ temporary'[c].layout = job[c].digest /\ temporary'[c].env = job[c].digest
        BY <2>1, <2>4, <3>1 DEF Entry
      <3>3. pc'[c] = "provision"
        BY <2>1, <2>4 DEF IInv, CreatorOK, Verify, Goto
      <3> QED BY <2>2, <3>2, <3>3 DEF IInv, BuildSound
    <2> QED BY <2>3, <2>4
  <1>10. LockSound'
    BY DEF IInv, CreatorOK, Locked, Unlocked, LockSound, Verify, Goto
  <1>11. FoundSound'
    BY DEF IInv, CreatorOK, FoundSound, Verify, Goto
  <1>12. MachineSound'
    BY DEF IInv, MachineSound, MachinesKeepTheirImage, Verify, world
  <1>13. FailuresHaveReasons'
    BY DEF IInv, FailuresHaveReasons, Verify, history
  <1> QED BY <1>1, <1>2, <1>3, <1>4, <1>5, <1>6, <1>7, <1>8, <1>9, <1>10, <1>11,
            <1>12, <1>13 DEF IInv

\* The agent copied is the one hashed, unless its file was replaced.
LEMMA ProvisionHolds == ASSUME IInv, NEW c \in Creator, Provision(c) PROVE IInv'
  <1>1. WorldOK'
    BY DEF IInv, WorldOK, Provision, world, history
  <1>2. CreatorOK'
    BY DEF IInv, CreatorOK, Locked, Building, Provision, Goto
  <1>3. HolderOK'
    BY DEF IInv, Locked, Building, HolderOK, Provision, Goto
  <1>4. TemporaryOK'
    <2>1. temporary[c] \in Entry /\ pc[c] = "provision" /\ agent \in Agent
      BY DEF IInv, BuildSound, WorldOK, Provision
    <2>2. [temporary[c] EXCEPT !.rootfs = temporary[c].layout, !.agent = agent,
                               !.disk = TRUE, !.meta = TRUE] \in Entry
      BY <2>1 DEF Entry
    <2>3. temporary' \in [Creator -> Entry \cup {None}]
      BY <2>1, <2>2 DEF IInv, TemporaryOK, Provision
    <2>4. \A d \in Creator : temporary'[d] # None => pc'[d] \in Building \ {"pull"}
      BY <2>1 DEF IInv, TemporaryOK, Building, Provision, Goto
    <2> QED BY <2>3, <2>4 DEF TemporaryOK
  <1>5. JobSound'
    BY DEF IInv, JobSound, Provision, Goto
  <1>6. CacheSound'
    BY DEF IInv, CacheSound, EntrySound, Provision, history
  <1>7. AgentSeen'
    BY DEF IInv, AgentSeen, Keyed, Provision, Goto, world, history
  <1>8. TagSeen'
    BY DEF IInv, TagSeen, Provision, Goto, world, history
  <1>9. BuildSound'
    <2>1. /\ temporary[c] \in Entry /\ pc[c] = "provision"
          /\ temporary[c].layout = job[c].digest /\ temporary[c].env = job[c].digest
          /\ temporary[c].digest = job[c].digest /\ temporary[c].key = job[c].key
      BY DEF IInv, BuildSound, Provision
    <2>2. agent \in Agent /\ (job[c].key[2] = agent \/ job[c].key \in mixed)
      BY <2>1 DEF IInv, AgentSeen, Keyed, WorldOK
    <2>3. /\ temporary'[c] \in Entry /\ pc'[c] = "install"
          /\ temporary'[c].digest = job[c].digest /\ temporary'[c].key = job[c].key
          /\ temporary'[c].layout = job[c].digest /\ temporary'[c].env = job[c].digest
          /\ temporary'[c].rootfs = job[c].digest
          /\ temporary'[c].disk /\ temporary'[c].meta /\ temporary'[c].agent = agent
      BY <2>1, <2>2 DEF IInv, TemporaryOK, Entry, CreatorOK, Provision, Goto
    <2>4. \A d \in Creator \ {c} : temporary'[d] = temporary[d] /\ pc'[d] = pc[d]
      BY DEF IInv, TemporaryOK, Provision, Goto
    <2>5. UNCHANGED <<job, excused, mixed>>
      BY DEF Provision, history
    <2> QED BY <2>1, <2>2, <2>3, <2>4, <2>5 DEF IInv, BuildSound
  <1>10. LockSound'
    BY DEF IInv, CreatorOK, Locked, Unlocked, LockSound, Provision, Goto
  <1>11. FoundSound'
    BY DEF IInv, FoundSound, Provision, Goto
  <1>12. MachineSound'
    BY DEF IInv, MachineSound, MachinesKeepTheirImage, Provision, world
  <1>13. FailuresHaveReasons'
    BY DEF IInv, FailuresHaveReasons, Provision, history
  <1> QED BY <1>1, <1>2, <1>3, <1>4, <1>5, <1>6, <1>7, <1>8, <1>9, <1>10, <1>11,
            <1>12, <1>13 DEF IInv

\* Only the holder of the lock makes the entry, which is whole.
LEMMA InstallHolds == ASSUME IInv, NEW c \in Creator, Install(c) PROVE IInv'
  <1>1. WorldOK'
    BY DEF IInv, TemporaryOK, WorldOK, Install, world, history
  <1>2. CreatorOK'
    <2>1. pc' \in [Creator -> {"idle"} \cup Locked \cup Unlocked]
      BY DEF IInv, CreatorOK, Locked, Install, Goto, Ends
    <2>2. outcome' \in [Creator -> {"none", "ok", "err", "killed"}]
      BY DEF IInv, CreatorOK, Install, Ends
    <2>3. UNCHANGED job
      BY DEF Install
    <2> QED BY <2>1, <2>2, <2>3 DEF IInv, CreatorOK
  <1>3. HolderOK'
    BY DEF IInv, CreatorOK, Locked, HolderOK, Install, Goto, Ends, Release
  <1>4. TemporaryOK'
    BY DEF IInv, CreatorOK, TemporaryOK, Install, Goto, Ends
  <1>5. JobSound'
    BY DEF IInv, CreatorOK, JobSound, Install, Goto, Ends
  <1>6. CacheSound'
    <2>1. job[c].key \in Key /\ job[c].key[1] = job[c].digest
      BY DEF IInv, JobSound, Install
    <2>2. /\ temporary[c] \in Entry
          /\ temporary[c].digest = job[c].digest /\ temporary[c].key = job[c].key
          /\ temporary[c].layout = job[c].digest /\ temporary[c].env = job[c].digest
          /\ temporary[c].rootfs = job[c].digest /\ temporary[c].disk /\ temporary[c].meta
          /\ temporary[c].agent = job[c].key[2] \/ job[c].key \in mixed
      BY DEF IInv, BuildSound, Install
    <2>3. \A k \in Key : cache'[k] = cache[k] \/ (k = job[c].key /\ cache'[k] = temporary[c])
      BY <2>1 DEF IInv, WorldOK, Install
    <2>4. UNCHANGED <<damaged, mixed>>
      BY DEF Install, history
    <2>5. ASSUME NEW k \in Key, cache'[k] # None, cache'[k] = cache[k]
         PROVE  EntrySound(k)'
      BY <2>4, <2>5 DEF IInv, CacheSound, EntrySound
    <2>6. ASSUME NEW k \in Key, k = job[c].key, cache'[k] = temporary[c]
         PROVE  EntrySound(k)'
      BY <2>1, <2>2, <2>4, <2>6 DEF EntrySound
    <2> QED BY <2>3, <2>5, <2>6 DEF CacheSound
  <1>7. AgentSeen'
    BY DEF IInv, CreatorOK, AgentSeen, Keyed, Install, Goto, Ends, world, history
  <1>8. TagSeen'
    BY DEF IInv, CreatorOK, TagSeen, Install, Goto, Ends, world, history
  <1>9. BuildSound'
    BY DEF IInv, CreatorOK, BuildSound, Install, Goto, Ends, history
  <1>10. LockSound'
    BY DEF IInv, CreatorOK, Locked, Building, JobSound, WorldOK, LockSound, Install,
           Goto
  <1>11. FoundSound'
    <2>1. pc[c] = "install" /\ job[c].key \in Key /\ job[c].key[1] = job[c].digest
      BY DEF IInv, JobSound, Install
    <2>2. /\ temporary[c] \in Entry
          /\ temporary[c].digest = job[c].digest /\ temporary[c].key = job[c].key
          /\ temporary[c].rootfs = job[c].digest
      BY <2>1 DEF IInv, BuildSound
    <2>3. \A k \in Key : cache'[k] = cache[k] \/ (k = job[c].key /\ cache'[k] = temporary[c])
      BY <2>1 DEF IInv, WorldOK, Install
    <2>4. UNCHANGED job /\ \A d \in Creator \ {c} : pc'[d] = pc[d]
      BY DEF IInv, CreatorOK, Install, Goto, Ends
    <2>5. pc'[c] = "sync" => cache'[job[c].key] = temporary[c]
      BY <2>1 DEF IInv, CreatorOK, WorldOK, Install, Goto, Ends
    <2>6. pc'[c] \in {"sync", "idle"}
      BY DEF IInv, CreatorOK, Install, Goto, Ends
    <2>7. \A d \in Creator : pc[d] \in {"sync", "record", "commit"} =>
           job[d].key \in Key /\ job[d].key[1] = job[d].digest
      BY DEF IInv, JobSound
    <2> QED BY <2>1, <2>2, <2>3, <2>4, <2>5, <2>6, <2>7 DEF IInv, FoundSound
  <1>12. MachineSound'
    BY DEF IInv, MachineSound, MachinesKeepTheirImage, Install, world
  <1>13. FailuresHaveReasons'
    BY DEF IInv, CreatorOK, Locked, Unlocked, LockSound, FailuresHaveReasons, Install,
           history
  <1> QED BY <1>1, <1>2, <1>3, <1>4, <1>5, <1>6, <1>7, <1>8, <1>9, <1>10, <1>11,
            <1>12, <1>13 DEF IInv

\* The entry stays what it is while its directory is synced.
LEMMA SyncHolds == ASSUME IInv, NEW c \in Creator, Sync(c) PROVE IInv'
  <1>1. WorldOK'
    BY DEF IInv, WorldOK, Sync, world, history
  <1>2. CreatorOK'
    BY DEF IInv, CreatorOK, Unlocked, Sync, Goto
  <1>3. HolderOK'
    BY DEF IInv, HolderOK, Sync, Goto, Release
  <1>4. TemporaryOK'
    BY DEF IInv, Building, TemporaryOK, Sync, Goto
  <1>5. JobSound'
    BY DEF IInv, JobSound, Sync, Goto
  <1>6. CacheSound'
    BY DEF IInv, CacheSound, EntrySound, Sync, history
  <1>7. AgentSeen'
    BY DEF IInv, AgentSeen, Keyed, Sync, Goto, world, history
  <1>8. TagSeen'
    BY DEF IInv, TagSeen, Sync, Goto, world, history
  <1>9. BuildSound'
    BY DEF IInv, BuildSound, Sync, Goto, history
  <1>10. LockSound'
    BY DEF IInv, CreatorOK, Locked, Building, JobSound, LockSound, Sync, Goto, Release
  <1>11. FoundSound'
    BY DEF IInv, FoundSound, Sync, Goto
  <1>12. MachineSound'
    BY DEF IInv, MachineSound, MachinesKeepTheirImage, Sync, world
  <1>13. FailuresHaveReasons'
    BY DEF IInv, FailuresHaveReasons, Sync, history
  <1> QED BY <1>1, <1>2, <1>3, <1>4, <1>5, <1>6, <1>7, <1>8, <1>9, <1>10, <1>11,
            <1>12, <1>13 DEF IInv

\* What is discarded is a build that failed.
LEMMA DiscardHolds == ASSUME IInv, NEW c \in Creator, Discard(c) PROVE IInv'
  <1>1. WorldOK'
    BY DEF IInv, WorldOK, Discard, world, history
  <1>2. CreatorOK'
    BY DEF IInv, CreatorOK, Discard, Ends, Goto
  <1>3. HolderOK'
    BY DEF IInv, HolderOK, Discard, Release, Ends, Goto
  <1>4. TemporaryOK'
    BY DEF IInv, TemporaryOK, Discard, Ends, Goto
  <1>5. JobSound'
    BY DEF IInv, CreatorOK, JobSound, Discard, Ends, Goto
  <1>6. CacheSound'
    BY DEF IInv, CacheSound, EntrySound, Discard, history
  <1>7. AgentSeen'
    BY DEF IInv, AgentSeen, Keyed, Discard, Ends, world, history, Goto
  <1>8. TagSeen'
    BY DEF IInv, TagSeen, Discard, Ends, world, history, Goto
  <1>9. BuildSound'
    BY DEF IInv, BuildSound, Discard, Ends, history, Goto
  <1>10. LockSound'
    BY DEF IInv, CreatorOK, Locked, Building, JobSound, LockSound, Discard, Release,
           Ends, Goto
  <1>11. FoundSound'
    BY DEF IInv, FoundSound, Discard, Ends, Goto
  <1>12. MachineSound'
    BY DEF IInv, MachineSound, MachinesKeepTheirImage, Discard, world
  <1>13. FailuresHaveReasons'
    BY DEF IInv, BuildSound, FailuresHaveReasons, Discard, Ends, history
  <1> QED BY <1>1, <1>2, <1>3, <1>4, <1>5, <1>6, <1>7, <1>8, <1>9, <1>10, <1>11,
            <1>12, <1>13 DEF IInv

\* The metadata read are those of the job.
LEMMA RecordHolds == ASSUME IInv, NEW c \in Creator, Record(c) PROVE IInv'
  <1>1. WorldOK'
    BY DEF IInv, WorldOK, Record, world, history
  <1>2. CreatorOK'
    <2>1. /\ cache[job[c].key].digest = job[c].digest /\ cache[job[c].key].key = job[c].key
          /\ job[c].digest \in Digest /\ job[c].key \in Key
      BY DEF IInv, FoundSound, Entry, Record
    <2> QED BY <2>1 DEF IInv, CreatorOK, Unlocked, Building, Record, Goto, history
  <1>3. HolderOK'
    BY DEF IInv, CreatorOK, Locked, Building, HolderOK, Record, Goto
  <1>4. TemporaryOK'
    BY DEF IInv, Building, TemporaryOK, Record, Goto
  <1>5. JobSound'
    BY DEF IInv, CreatorOK, FoundSound, JobSound, Record, Goto
  <1>6. CacheSound'
    BY DEF IInv, CacheSound, EntrySound, Record, history
  <1>7. AgentSeen'
    BY DEF IInv, CreatorOK, AgentSeen, Keyed, Record, Goto, world, history
  <1>8. TagSeen'
    BY DEF IInv, CreatorOK, TagSeen, Record, Goto, world, history
  <1>9. BuildSound'
    BY DEF IInv, CreatorOK, BuildSound, Record, Goto, history
  <1>10. LockSound'
    BY DEF IInv, CreatorOK, Locked, Building, LockSound, Record, Goto
  <1>11. FoundSound'
    <2>1. cache[job[c].key].digest = job[c].digest /\ cache[job[c].key].key = job[c].key
      BY DEF IInv, FoundSound, Record
    <2>2. UNCHANGED <<job, cache>>
      BY <2>1 DEF IInv, CreatorOK, Record
    <2>3. pc[c] = "record" /\ \A d \in Creator \ {c} : pc'[d] = pc[d]
      BY DEF IInv, CreatorOK, Record, Goto
    <2> QED BY <2>2, <2>3 DEF IInv, FoundSound
  <1>12. MachineSound'
    BY DEF IInv, MachineSound, MachinesKeepTheirImage, Record, world
  <1>13. FailuresHaveReasons'
    BY DEF IInv, CreatorOK, FailuresHaveReasons, Record, history
  <1> QED BY <1>1, <1>2, <1>3, <1>4, <1>5, <1>6, <1>7, <1>8, <1>9, <1>10, <1>11,
            <1>12, <1>13 DEF IInv

\* The machine gets the image of its record.
LEMMA CommitHolds == ASSUME IInv, NEW c \in Creator, Commit(c) PROVE IInv'
  <1>1. WorldOK'
    BY DEF IInv, JobSound, FoundSound, WorldOK, Machine, Commit, history
  <1>2. CreatorOK'
    BY DEF IInv, CreatorOK, Commit, Ends, Goto
  <1>3. HolderOK'
    BY DEF IInv, Locked, Building, HolderOK, Commit, Ends, Goto
  <1>4. TemporaryOK'
    BY DEF IInv, Building, TemporaryOK, Commit, Ends, Goto
  <1>5. JobSound'
    BY DEF IInv, CreatorOK, JobSound, Commit, Ends, Goto
  <1>6. CacheSound'
    BY DEF IInv, CacheSound, EntrySound, Commit, history
  <1>7. AgentSeen'
    BY DEF IInv, AgentSeen, Keyed, Commit, Ends, history, Goto
  <1>8. TagSeen'
    BY DEF IInv, TagSeen, Commit, Ends, history, Goto
  <1>9. BuildSound'
    BY DEF IInv, BuildSound, Commit, Ends, history, Goto
  <1>10. LockSound'
    BY DEF IInv, Locked, Building, LockSound, Commit, Ends, Goto
  <1>11. FoundSound'
    BY DEF IInv, FoundSound, Commit, Ends, Goto
  <1>12. MachineSound'
    BY DEF IInv, JobSound, FoundSound, MachineSound, MachinesKeepTheirImage, Commit
  <1>13. FailuresHaveReasons'
    BY DEF IInv, FailuresHaveReasons, Commit, Ends, history
  <1> QED BY <1>1, <1>2, <1>3, <1>4, <1>5, <1>6, <1>7, <1>8, <1>9, <1>10, <1>11,
            <1>12, <1>13 DEF IInv

\* A failed step leaves no lock and no temporary entry but to Discard.
LEMMA FaultHolds == ASSUME IInv, NEW c \in Creator, Fault(c) PROVE IInv'
  <1>1. WorldOK'
    BY DEF IInv, WorldOK, Fault, world
  <1>2. CreatorOK'
    <2>1. pc' \in [Creator -> {"idle"} \cup Locked \cup Unlocked]
      BY DEF IInv, CreatorOK, Locked, Building, Fault, Goto, Ends
    <2>2. outcome' \in [Creator -> {"none", "ok", "err", "killed"}]
      BY DEF IInv, CreatorOK, Fault, Ends
    <2>3. UNCHANGED job
      BY DEF Fault
    <2> QED BY <2>1, <2>2, <2>3 DEF IInv, CreatorOK
  <1>3. HolderOK'
    BY DEF IInv, CreatorOK, Locked, Building, HolderOK, Fault, Goto, Ends, Release
  <1>4. TemporaryOK'
    BY DEF IInv, CreatorOK, Building, Entry, Machine, TemporaryOK, Fault, Goto, Ends,
           Release, world
  <1>5. JobSound'
    BY DEF IInv, CreatorOK, JobSound, Fault, Goto, Ends
  <1>6. CacheSound'
    BY DEF IInv, CacheSound, EntrySound, Fault
  <1>7. AgentSeen'
    BY DEF IInv, CreatorOK, AgentSeen, Keyed, Fault, Goto, Ends, world
  <1>8. TagSeen'
    BY DEF IInv, CreatorOK, TagSeen, Fault, Goto, Ends, world
  <1>9. BuildSound'
    BY DEF IInv, CreatorOK, TemporaryOK, BuildSound, Fault, Goto, Ends
  <1>10. LockSound'
    BY DEF IInv, CreatorOK, Locked, Building, JobSound, LockSound, Fault, Goto, Ends,
           Release
  <1>11. FoundSound'
    BY DEF IInv, CreatorOK, FoundSound, Fault, Goto, Ends
  <1>12. MachineSound'
    BY DEF IInv, MachineSound, MachinesKeepTheirImage, Fault, world
  <1>13. FailuresHaveReasons'
    BY DEF IInv, CreatorOK, FailuresHaveReasons, Fault, Ends
  <1> QED BY <1>1, <1>2, <1>3, <1>4, <1>5, <1>6, <1>7, <1>8, <1>9, <1>10, <1>11,
            <1>12, <1>13 DEF IInv

\* A killed creator leaves no lock.
LEMMA KillHolds == ASSUME IInv, NEW c \in Creator, Kill(c) PROVE IInv'
  <1>1. WorldOK'
    BY DEF IInv, WorldOK, Kill, world
  <1>2. CreatorOK'
    BY DEF IInv, CreatorOK, Kill, Ends, Goto
  <1>3. HolderOK'
    BY DEF IInv, HolderOK, Kill, Ends, Release, Goto
  <1>4. TemporaryOK'
    BY DEF IInv, TemporaryOK, Kill, Ends, Goto
  <1>5. JobSound'
    BY DEF IInv, CreatorOK, JobSound, Kill, Ends, Goto
  <1>6. CacheSound'
    BY DEF IInv, CacheSound, EntrySound, Kill
  <1>7. AgentSeen'
    BY DEF IInv, AgentSeen, Keyed, Kill, Ends, world, Goto
  <1>8. TagSeen'
    BY DEF IInv, TagSeen, Kill, Ends, world, Goto
  <1>9. BuildSound'
    BY DEF IInv, CreatorOK, BuildSound, Kill, Ends, Goto
  <1>10. LockSound'
    BY DEF IInv, CreatorOK, Locked, Building, JobSound, LockSound, Kill, Ends,
           Release, Goto
  <1>11. FoundSound'
    BY DEF IInv, FoundSound, Kill, Ends, Goto
  <1>12. MachineSound'
    BY DEF IInv, MachineSound, MachinesKeepTheirImage, Kill, world
  <1>13. FailuresHaveReasons'
    BY DEF IInv, FailuresHaveReasons, Kill, Ends
  <1> QED BY <1>1, <1>2, <1>3, <1>4, <1>5, <1>6, <1>7, <1>8, <1>9, <1>10, <1>11,
            <1>12, <1>13 DEF IInv

\* A start that machine_config_env lets through has its image's environment.
LEMMA StartHolds == ASSUME IInv, NEW m \in machines, Start(m) PROVE IInv'
  <1>1. WorldOK'
    <2>1. m \in Machine /\ m.key \in Key /\ cache[m.key] \in Entry
      BY DEF IInv, WorldOK, Machine, Start, BaseMetadata
    <2>2. cache[m.key].env = cache[m.key].digest /\ cache[m.key].digest \in Digest
      BY <2>1, NoneAssumption DEF IInv, CacheSound, Key, EntrySound, Start,
                                  BaseMetadata
    <2>3. session' \in [machine : Machine, env : Digest]
      BY <2>1, <2>2 DEF Start
    <2>4. UNCHANGED <<tag, agent, cache, machines, published, excused, mixed, damaged>>
      BY DEF Start, history
    <2> QED BY <2>3, <2>4 DEF IInv, WorldOK
  <1>2. CreatorOK'
    BY DEF IInv, CreatorOK, Start
  <1>3. HolderOK'
    BY DEF IInv, HolderOK, Start
  <1>4. TemporaryOK'
    BY DEF IInv, TemporaryOK, Start
  <1>5. JobSound'
    BY DEF IInv, JobSound, Start
  <1>6. CacheSound'
    BY DEF IInv, CacheSound, EntrySound, Start, history
  <1>7. AgentSeen'
    BY DEF IInv, AgentSeen, Start, history
  <1>8. TagSeen'
    BY DEF IInv, TagSeen, Start, history
  <1>9. BuildSound'
    BY DEF IInv, BuildSound, Start, history
  <1>10. LockSound'
    BY DEF IInv, LockSound, Start
  <1>11. FoundSound'
    BY DEF IInv, FoundSound, Start
  <1>12. MachineSound'
    <2>1. m.key \in Key /\ m.root = m.digest
      BY DEF IInv, WorldOK, Machine, MachineSound, MachinesKeepTheirImage
    <2>2. cache[m.key].env = m.root
      BY <2>1 DEF IInv, CacheSound, EntrySound, Start, BaseMetadata
    <2>3. session'.machine = m /\ session'.env = m.root
      BY <2>2 DEF Start
    <2>4. UNCHANGED <<machines, published>>
      BY DEF Start
    <2> QED BY <2>3, <2>4 DEF IInv, MachineSound, MachinesKeepTheirImage
  <1>13. FailuresHaveReasons'
    BY DEF IInv, FailuresHaveReasons, Start, history
  <1> QED BY <1>1, <1>2, <1>3, <1>4, <1>5, <1>6, <1>7, <1>8, <1>9, <1>10, <1>11,
            <1>12, <1>13 DEF IInv

\* A published image is a layer over the machine's own image; a tag moves.
LEMMA PublishHolds ==
    ASSUME IInv, NEW m \in machines, NEW r \in Reference, Publish(m, r) PROVE IInv'
  <1>1. WorldOK'
    BY NoneAssumption, DerivedAssumption DEF IInv, WorldOK, Entry, Machine, Publish,
                                             BaseMetadata, Retag
  <1>2. CreatorOK'
    BY DEF IInv, CreatorOK, Publish
  <1>3. HolderOK'
    BY DEF IInv, HolderOK, Publish
  <1>4. TemporaryOK'
    BY DEF IInv, TemporaryOK, Publish
  <1>5. JobSound'
    BY DEF IInv, JobSound, Publish
  <1>6. CacheSound'
    BY DEF IInv, CacheSound, EntrySound, Publish
  <1>7. AgentSeen'
    BY DEF IInv, AgentSeen, Publish
  <1>8. TagSeen'
    BY DEF IInv, TagSeen, Publish, Retag
  <1>9. BuildSound'
    BY DEF IInv, BuildSound, Publish, Retag
  <1>10. LockSound'
    BY DEF IInv, LockSound, Publish
  <1>11. FoundSound'
    BY DEF IInv, FoundSound, Publish
  <1>12. MachineSound'
    BY NoneAssumption, DerivedAssumption DEF IInv, CacheSound, EntrySound, WorldOK,
                                             Machine, MachineSound,
                                             MachinesKeepTheirImage, Publish,
                                             BaseMetadata
  <1>13. FailuresHaveReasons'
    BY DEF IInv, FailuresHaveReasons, Publish, Retag
  <1> QED BY <1>1, <1>2, <1>3, <1>4, <1>5, <1>6, <1>7, <1>8, <1>9, <1>10, <1>11,
            <1>12, <1>13 DEF IInv

\* A local tag that moves excuses the creators that use it.
LEMMA MoveTagHolds == ASSUME IInv, MoveTag PROVE IInv'
  <1>1. WorldOK'
    BY DEF IInv, WorldOK, MoveTag, Retag
  <1>2. CreatorOK'
    BY DEF IInv, CreatorOK, MoveTag
  <1>3. HolderOK'
    BY DEF IInv, HolderOK, MoveTag
  <1>4. TemporaryOK'
    BY DEF IInv, TemporaryOK, MoveTag
  <1>5. JobSound'
    BY DEF IInv, JobSound, MoveTag
  <1>6. CacheSound'
    BY DEF IInv, CacheSound, EntrySound, MoveTag
  <1>7. AgentSeen'
    BY DEF IInv, AgentSeen, MoveTag
  <1>8. TagSeen'
    BY DEF IInv, TagSeen, MoveTag, Retag
  <1>9. BuildSound'
    BY DEF IInv, BuildSound, MoveTag, Retag
  <1>10. LockSound'
    BY DEF IInv, LockSound, MoveTag
  <1>11. FoundSound'
    BY DEF IInv, FoundSound, MoveTag
  <1>12. MachineSound'
    BY DEF IInv, MachineSound, MachinesKeepTheirImage, MoveTag
  <1>13. FailuresHaveReasons'
    BY DEF IInv, FailuresHaveReasons, MoveTag, Retag
  <1> QED BY <1>1, <1>2, <1>3, <1>4, <1>5, <1>6, <1>7, <1>8, <1>9, <1>10, <1>11,
            <1>12, <1>13 DEF IInv

\* A new agent makes mixed the keys whose agent is yet to be copied.
LEMMA SwapAgentHolds == ASSUME IInv, SwapAgent PROVE IInv'
  <1>1. WorldOK'
    BY DEF IInv, JobSound, WorldOK, SwapAgent, Keyed
  <1>2. CreatorOK'
    BY DEF IInv, CreatorOK, SwapAgent
  <1>3. HolderOK'
    BY DEF IInv, HolderOK, SwapAgent
  <1>4. TemporaryOK'
    BY DEF IInv, TemporaryOK, SwapAgent
  <1>5. JobSound'
    BY DEF IInv, JobSound, SwapAgent
  <1>6. CacheSound'
    BY DEF IInv, CacheSound, EntrySound, SwapAgent
  <1>7. AgentSeen'
    BY DEF AgentSeen, SwapAgent
  <1>8. TagSeen'
    BY DEF IInv, TagSeen, SwapAgent
  <1>9. BuildSound'
    BY DEF IInv, BuildSound, SwapAgent
  <1>10. LockSound'
    BY DEF IInv, LockSound, SwapAgent
  <1>11. FoundSound'
    BY DEF IInv, FoundSound, SwapAgent
  <1>12. MachineSound'
    BY DEF IInv, MachineSound, MachinesKeepTheirImage, SwapAgent
  <1>13. FailuresHaveReasons'
    BY DEF IInv, FailuresHaveReasons, SwapAgent
  <1> QED BY <1>1, <1>2, <1>3, <1>4, <1>5, <1>6, <1>7, <1>8, <1>9, <1>10, <1>11,
            <1>12, <1>13 DEF IInv

\* Nobody runs; the entry damaged keeps its image.
LEMMA DamageHolds == ASSUME IInv, Damage PROVE IInv'
  <1>0. PICK k \in {k \in Key : cache[k] # None} :
          /\ \/ cache' = [cache EXCEPT ![k].disk = FALSE]
             \/ cache' = [cache EXCEPT ![k].meta = FALSE]
             \/ cache' = [cache EXCEPT ![k] = None]
             \/ \E other \in {other \in Key : cache[other] # None} :
                  cache' = [cache EXCEPT ![k].env = cache[other].env,
                                         ![k].digest = cache[other].digest,
                                         ![k].key = cache[other].key]
          /\ damaged' = damaged \cup {k}
    BY DEF Damage
  <1>1. WorldOK'
    <2>2. \A other \in Key : cache[other] # None => cache[other] \in Entry
      BY DEF IInv, WorldOK
    <2>3. [cache[k] EXCEPT !.disk = FALSE] \in Entry /\ [cache[k] EXCEPT !.meta = FALSE] \in Entry
      BY <1>0, <2>2 DEF Entry
    <2>4. \A other \in Key : cache[other] # None =>
            [cache[k] EXCEPT !.env = cache[other].env, !.digest = cache[other].digest,
                             !.key = cache[other].key] \in Entry
      BY <1>0, <2>2 DEF Entry
    <2>5. cache' \in [Key -> Entry \cup {None}]
      BY <1>0, <2>3, <2>4 DEF IInv, WorldOK
    <2>6. damaged' \subseteq Key /\ UNCHANGED <<world, excused, mixed>>
      BY <1>0 DEF IInv, WorldOK, Damage
    <2> QED BY <2>5, <2>6 DEF IInv, WorldOK, world
  <1>2. CreatorOK'
    BY DEF IInv, CreatorOK, Damage
  <1>3. HolderOK'
    BY DEF IInv, HolderOK, Damage
  <1>4. TemporaryOK'
    BY DEF IInv, TemporaryOK, Damage
  <1>5. JobSound'
    BY DEF JobSound, Damage
  <1>6. CacheSound'
    <2>2. cache \in [Key -> Entry \cup {None}] /\ UNCHANGED mixed
      BY DEF IInv, WorldOK, Damage
    <2>3. ASSUME NEW l \in Key \ {k}, cache'[l] # None PROVE EntrySound(l)'
      <3>1. cache'[l] = cache[l]
        BY <1>0, <2>2
      <3>2. l \in damaged <=> l \in damaged'
        BY <1>0
      <3> QED BY <2>2, <2>3, <3>1, <3>2 DEF IInv, CacheSound, EntrySound
    <2>4. ASSUME cache'[k] # None PROVE EntrySound(k)'
      <3>1. /\ cache'[k].layout = cache[k].layout /\ cache'[k].rootfs = cache[k].rootfs
            /\ cache'[k].env = cache'[k].digest /\ cache'[k].key[1] = cache'[k].digest
        <4>1. cache[k] \in Entry /\ \A o \in Key : cache[o] # None => cache[o] \in Entry
          BY <1>0, <2>2
        <4>2. \A o \in Key : cache[o] # None =>
                /\ cache[o].env = cache[o].digest /\ cache[o].key[1] = cache[o].digest
          BY DEF IInv, CacheSound, EntrySound
        <4>3. CASE cache' = [cache EXCEPT ![k].disk = FALSE]
          BY <1>0, <2>2, <4>1, <4>2, <4>3
        <4>4. CASE cache' = [cache EXCEPT ![k].meta = FALSE]
          BY <1>0, <2>2, <4>1, <4>2, <4>4
        <4>5. CASE cache' = [cache EXCEPT ![k] = None]
          BY <1>0, <2>2, <2>4, <4>5
        <4>6. ASSUME NEW other \in Key, cache[other] # None,
                     cache' = [cache EXCEPT ![k].env = cache[other].env,
                                            ![k].digest = cache[other].digest,
                                            ![k].key = cache[other].key]
              PROVE  /\ cache'[k].layout = cache[k].layout /\ cache'[k].rootfs = cache[k].rootfs
                     /\ cache'[k].env = cache'[k].digest /\ cache'[k].key[1] = cache'[k].digest
          BY <1>0, <2>2, <4>1, <4>2, <4>6 DEF Entry
        <4> QED BY <1>0, <4>3, <4>4, <4>5, <4>6
      <3> QED BY <1>0, <3>1 DEF IInv, CacheSound, EntrySound
    <2> QED BY <2>3, <2>4 DEF CacheSound
  <1>7. AgentSeen'
    BY DEF AgentSeen, Keyed, Damage
  <1>8. TagSeen'
    BY DEF TagSeen, Damage
  <1>9. BuildSound'
    BY DEF BuildSound, Damage
  <1>10. LockSound'
    BY DEF LockSound, Locked, Building, Damage
  <1>11. FoundSound'
    BY DEF FoundSound, Damage
  <1>12. MachineSound'
    BY DEF IInv, MachineSound, MachinesKeepTheirImage, Damage, world
  <1>13. FailuresHaveReasons'
    BY DEF IInv, FailuresHaveReasons, Damage
  <1> QED BY <1>1, <1>2, <1>3, <1>4, <1>5, <1>6, <1>7, <1>8, <1>9, <1>10, <1>11,
            <1>12, <1>13 DEF IInv

\* Nor does a stutter change anything.
LEMMA UnchangedHolds == ASSUME IInv, UNCHANGED vars PROVE IInv'
  <1>1. WorldOK'
    BY DEF IInv, WorldOK, vars
  <1>2. CreatorOK'
    BY DEF IInv, CreatorOK, vars
  <1>3. HolderOK'
    BY DEF IInv, HolderOK, vars
  <1>4. TemporaryOK'
    BY DEF IInv, TemporaryOK, vars
  <1>5. JobSound'
    BY DEF IInv, JobSound, vars
  <1>6. CacheSound'
    BY DEF IInv, CacheSound, EntrySound, vars
  <1>7. AgentSeen'
    BY DEF IInv, AgentSeen, vars
  <1>8. TagSeen'
    BY DEF IInv, TagSeen, vars
  <1>9. BuildSound'
    BY DEF IInv, BuildSound, vars
  <1>10. LockSound'
    BY DEF IInv, LockSound, vars
  <1>11. FoundSound'
    BY DEF IInv, FoundSound, vars
  <1>12. MachineSound'
    BY DEF IInv, MachineSound, MachinesKeepTheirImage, vars
  <1>13. FailuresHaveReasons'
    BY DEF IInv, FailuresHaveReasons, vars
  <1> QED BY <1>1, <1>2, <1>3, <1>4, <1>5, <1>6, <1>7, <1>8, <1>9, <1>10, <1>11,
            <1>12, <1>13 DEF IInv

\* The invariant at the start: no creator, lock, entry or machine.
LEMMA InitHolds == Init => IInv
  <1> SUFFICES ASSUME Init PROVE IInv
    OBVIOUS
  <1>1. WorldOK
    BY DEF Init, WorldOK
  <1>2. CreatorOK /\ JobSound
    BY DEF Init, CreatorOK, JobSound
  <1>3. HolderOK /\ TemporaryOK
    BY DEF Init, HolderOK, TemporaryOK
  <1>4. CacheSound
    BY DEF Init, CacheSound
  <1>5. AgentSeen /\ TagSeen /\ BuildSound /\ LockSound /\ FoundSound
    BY DEF Init, AgentSeen, Keyed, TagSeen, BuildSound, LockSound, Locked, Building, FoundSound
  <1>6. MachineSound
    BY DEF Init, MachineSound, MachinesKeepTheirImage
  <1>7. FailuresHaveReasons
    BY DEF Init, FailuresHaveReasons
  <1> QED BY <1>1, <1>2, <1>3, <1>4, <1>5, <1>6, <1>7 DEF IInv

\* Every step keeps the invariant.
LEMMA NextHolds == ASSUME IInv, [Next]_vars PROVE IInv'
  <1>1. ASSUME NEW c \in Creator, CreatorNext(c) PROVE IInv'
    BY <1>1, BeginHolds, ResolveHolds, IdentifyHolds, LookHolds, AcquireHolds,
       RelookHolds, PullHolds, VerifyHolds, ProvisionHolds, InstallHolds, SyncHolds,
       DiscardHolds, RecordHolds, CommitHolds, FaultHolds, KillHolds DEF CreatorNext
  <1>2. ASSUME NEW m \in machines, Start(m) PROVE IInv'
    BY <1>2, StartHolds
  <1>3. ASSUME NEW m \in machines, NEW r \in Reference, Publish(m, r) PROVE IInv'
    BY <1>3, PublishHolds
  <1>4. CASE MoveTag
    BY <1>4, MoveTagHolds
  <1>5. CASE SwapAgent
    BY <1>5, SwapAgentHolds
  <1>6. CASE Damage
    BY <1>6, DamageHolds
  <1>7. CASE UNCHANGED vars
    BY <1>7, UnchangedHolds
  <1> QED BY <1>1, <1>2, <1>3, <1>4, <1>5, <1>6, <1>7 DEF Next

\* IInv is an invariant: no step of a creator or of the world can break it.
THEOREM Invariance == Spec => []IInv
  BY InitHolds, NextHolds, PTL DEF Spec

\* Types; and a killed or ended creator of oci.rs leaves neither a lock nor a
\* temporary entry: whoever has one is between CacheLock::acquire and its drop.
THEOREM TypeCorrect == Spec => []TypeOK
  <1>1. IInv => TypeOK
    BY DEF IInv, TypeOK, WorldOK, CreatorOK, HolderOK, TemporaryOK
  <1> QED BY <1>1, Invariance, PTL

\* What build_cache leaves in images/<key> is complete and of the one image whose
\* digest is in the key, however tags, agents and other creators interfere; until
\* somebody damages it.  It has the agent in the key, unless that was replaced.
THEOREM EntriesOfOneImage == Spec => []EntriesAreOneImage
  <1>1. IInv => EntriesAreOneImage
    BY DEF IInv, CacheSound, EntrySound, EntriesAreOneImage
  <1> QED BY <1>1, Invariance, PTL

\* prepare_environment and build_cache fail for a reason, never because another
\* creator was faster.
THEOREM FailuresReasoned == Spec => []FailuresHaveReasons
  <1>1. IInv => FailuresHaveReasons
    BY DEF IInv
  <1> QED BY <1>1, Invariance, PTL

\* A machine keeps the image it was created from: at its creation, at every start
\* (machine_config_env) and when it is published.
THEOREM MachinesKept == Spec => []MachinesKeepTheirImage
  <1>1. IInv => MachinesKeepTheirImage
    BY DEF IInv, MachineSound
  <1> QED BY <1>1, Invariance, PTL

=============================================================================

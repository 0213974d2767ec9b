------------------------------ MODULE CDSCache ------------------------------
(***************************************************************************)
(* The node-side AppCDS cache (core/internal/runtime/cds_regen.go): every  *)
(* launch of an artifact with regeneration runs DecideCDSRegen in its own  *)
(* shim process against one shared directory of <key>.jsa archives and     *)
(* <key>.jsa.writer markers, without a lock. Each step is one system call, *)
(* or one stage of the JVM that is then started. Time is abstracted to     *)
(* ages: a marker turns stale (writer TTL), an archive old (eviction TTL). *)
(***************************************************************************)
EXTENDS Naturals, FiniteSets

CONSTANTS
    Launch,    \* pod slots: at most one launch of each is in flight
    CacheKey,  \* cache keys, one per (artifact, JDK build)
    KeyOf,     \* KeyOf[l]: the key of slot l's artifact and JDK
    Seed,      \* Seed[k]: the shipped archive, as the node's JDK sees it, or "none"
    MaxInFlight,  \* bound: launches and JVMs of the slots at one time
    MaxFailures  \* bound: processes killed and system calls failed

ASSUME CDSAssumption ==
    /\ KeyOf \in [Launch -> CacheKey] /\ Seed \in [CacheKey -> {"none", "good", "foreign"}]
    /\ MaxInFlight \in Nat /\ MaxFailures \in Nat

VARIABLES
    archive,   \* archive[k]: the file <k>.jsa
    aged,      \* aged[k]: its mtime is beyond the eviction TTL
    marker,    \* marker[k]: the file <k>.jsa.writer
    at, rest, victim,   \* of each launch: rest is the entries still to scan
    failures

files == <<archive, aged, marker>>
launch == <<at, rest, victim>>
cacheVars == <<files, launch, failures>>

\* "empty" has size 0; "partial" is being written, or was cut short; "foreign" is
\* complete but built by another JDK; "good" maps.
Archive == {"none", "empty", "partial", "foreign", "good"}
Marker == {"none", "fresh", "stale"}
LaunchStep == {"idle", "scan", "rmArchive", "rmMarker", "claim", "statMarker", "reclaim",
               "seed", "seedOpen", "seedCopy", "seedDone", "startWriter", "train", "dump"}

CacheInit ==
    /\ archive = [k \in CacheKey |-> "none"] /\ aged = [k \in CacheKey |-> FALSE]
    /\ marker = [k \in CacheKey |-> "none"]
    /\ at = [l \in Launch |-> "idle"] /\ rest = [l \in Launch |-> {}] /\ victim = KeyOf
    /\ failures = 0

Faulty == failures < MaxFailures /\ failures' = failures + 1
LaunchAt(l, s) == at[l] = s
LaunchGoto(l, s) == at' = [at EXCEPT ![l] = s]
Write(k, content) == archive' = [archive EXCEPT ![k] = content] /\ aged' = [aged EXCEPT ![k] = FALSE]

\* The bound on what is in flight at once.
Room == Cardinality({l \in Launch : at[l] # "idle"}) < MaxInFlight

\* The JDK identity, its feature gate and the cache directory come first: any
\* failure skips regeneration. A JVM that does not write to the cache is of no
\* more concern to it: such a launch is over, and its slot idle.
Begin_OwnKey(l) ==
    /\ Room /\ LaunchAt(l, "idle") /\ LaunchGoto(l, "scan") /\ rest' = [rest EXCEPT ![l] = CacheKey]
    /\ UNCHANGED <<files, victim, failures>>
Begin(l) ==
    /\ Room /\ LaunchAt(l, "idle") /\ LaunchGoto(l, "scan") /\ rest' = [rest EXCEPT ![l] = CacheKey \ {KeyOf[l]}]
    /\ UNCHANGED <<files, victim, failures>>

Skip(l) == Room /\ LaunchAt(l, "idle") /\ UNCHANGED cacheVars

\* evictStaleArchives: each other entry is examined, and an old one loses its
\* archive, then its marker.
Evictable_Young(k) == archive[k] # "none" /\ ~aged[k]
Evictable(k) == archive[k] # "none" /\ aged[k]

Scan(l, k) ==
    /\ LaunchAt(l, "scan") /\ k \in rest[l] /\ rest' = [rest EXCEPT ![l] = @ \ {k}]
    /\ IF Evictable(k) THEN LaunchGoto(l, "rmArchive") /\ victim' = [victim EXCEPT ![l] = k]
                       ELSE UNCHANGED <<at, victim>>
    /\ UNCHANGED <<files, failures>>

RemoveArchive(l) ==
    /\ LaunchAt(l, "rmArchive") /\ LaunchGoto(l, "rmMarker") /\ Write(victim[l], "none")
    /\ UNCHANGED <<marker, rest, victim, failures>>

RemoveMarker(l) ==
    /\ LaunchAt(l, "rmMarker") /\ LaunchGoto(l, "scan")
    /\ marker' = [marker EXCEPT ![victim[l]] = "none"]
    /\ victim' = [victim EXCEPT ![l] = KeyOf[l]]
    /\ UNCHANGED <<archive, aged, rest, failures>>

\* A non-empty archive is consumed, whatever its content.
Usable(k) == archive[k] \notin {"none", "empty"}

StatArchive(l) ==
    /\ LaunchAt(l, "scan") /\ rest[l] = {}
    /\ LaunchGoto(l, IF Usable(KeyOf[l]) THEN "idle" ELSE "claim")
    /\ UNCHANGED <<files, rest, victim, failures>>

Elect(l) == marker' = [marker EXCEPT ![KeyOf[l]] = "fresh"] /\ LaunchGoto(l, "seed")

\* claimWriter: the exclusive create, then the stat of the marker that was there,
\* then the reclaim by Chtimes. A marker that vanished in between is an error.
Claim(l) ==
    /\ LaunchAt(l, "claim")
    /\ IF marker[KeyOf[l]] = "none" THEN Elect(l) ELSE LaunchGoto(l, "statMarker") /\ UNCHANGED marker
    /\ UNCHANGED <<archive, aged, rest, victim, failures>>

StatMarker_NoReclaim(l) ==
    /\ LaunchAt(l, "statMarker") /\ LaunchGoto(l, "idle")
    /\ UNCHANGED <<files, rest, victim, failures>>
StatMarker(l) ==
    /\ LaunchAt(l, "statMarker")
    /\ LaunchGoto(l, IF marker[KeyOf[l]] = "stale" THEN "reclaim" ELSE "idle")
    /\ UNCHANGED <<files, rest, victim, failures>>

Reclaim(l) ==
    /\ LaunchAt(l, "reclaim")
    /\ IF marker[KeyOf[l]] = "none" THEN LaunchGoto(l, "idle") /\ UNCHANGED marker ELSE Elect(l)
    /\ UNCHANGED <<archive, aged, rest, victim, failures>>

\* seedArchive: a stat, then a truncating create and the copy. An error of the
\* copy is ignored and leaves what was written.
SeedStat(l) ==
    /\ LaunchAt(l, "seed")
    /\ LaunchGoto(l, IF Seed[KeyOf[l]] = "none" \/ archive[KeyOf[l]] # "none" THEN "startWriter" ELSE "seedOpen")
    /\ UNCHANGED <<files, rest, victim, failures>>

SeedCopy(l) ==
    /\ \/ LaunchAt(l, "seedOpen") /\ Write(KeyOf[l], "empty") /\ LaunchGoto(l, "seedCopy")
       \/ LaunchAt(l, "seedCopy") /\ Write(KeyOf[l], "partial") /\ LaunchGoto(l, "seedDone")
       \/ LaunchAt(l, "seedDone") /\ Write(KeyOf[l], Seed[KeyOf[l]]) /\ LaunchGoto(l, "startWriter")
    /\ UNCHANGED <<marker, rest, victim, failures>>

\* A system call fails: claimWriter defers, a seed copy stops where it is, a
\* removal is ignored.
CallFails(l) ==
    /\ Faulty
    /\ \/ at[l] \in {"claim", "statMarker", "reclaim"} /\ LaunchGoto(l, "idle") /\ UNCHANGED victim
       \/ at[l] \in {"seedOpen", "seedCopy", "seedDone"} /\ LaunchGoto(l, "startWriter") /\ UNCHANGED victim
       \/ LaunchAt(l, "rmArchive") /\ LaunchGoto(l, "rmMarker") /\ UNCHANGED victim
       \/ LaunchAt(l, "rmMarker") /\ LaunchGoto(l, "scan") /\ victim' = [victim EXCEPT ![l] = KeyOf[l]]
    /\ UNCHANGED <<files, rest>>

\* The JVM: with AutoCreateSharedArchive, an archive that does not map at start
\* is replaced at exit; every other launch leaves the cache alone.
JvmStart(l) ==
    /\ LaunchAt(l, "startWriter") /\ LaunchGoto(l, IF archive[KeyOf[l]] = "good" THEN "idle" ELSE "train")
    /\ UNCHANGED <<files, rest, victim, failures>>

JvmExit(l) ==
    /\ \/ LaunchAt(l, "train") /\ Write(KeyOf[l], "partial") /\ LaunchGoto(l, "dump")
       \/ LaunchAt(l, "dump") /\ Write(KeyOf[l], "good") /\ LaunchGoto(l, "idle")
    /\ UNCHANGED <<marker, rest, victim, failures>>

Kill(l) ==
    /\ Faulty /\ ~LaunchAt(l, "idle") /\ LaunchGoto(l, "idle")
    /\ rest' = [rest EXCEPT ![l] = {}] /\ victim' = [victim EXCEPT ![l] = KeyOf[l]]
    /\ UNCHANGED <<files>>

AgeMarker(k) ==
    /\ marker[k] = "fresh" /\ marker' = [marker EXCEPT ![k] = "stale"]
    /\ UNCHANGED <<archive, aged, launch, failures>>

AgeArchive(k) ==
    /\ archive[k] # "none" /\ ~aged[k] /\ aged' = [aged EXCEPT ![k] = TRUE]
    /\ UNCHANGED <<archive, marker, launch, failures>>

\* One launch, in the order of DecideCDSRegen, then its JVM.
DecideCDSRegen(l) ==
    \/ \E k \in CacheKey : Scan(l, k)
    \/ RemoveArchive(l) \/ RemoveMarker(l)
    \/ StatArchive(l) \/ Claim(l) \/ StatMarker(l) \/ Reclaim(l)
    \/ SeedStat(l) \/ SeedCopy(l) \/ JvmStart(l) \/ JvmExit(l)

CacheNext ==
    \/ \E l \in Launch : DecideCDSRegen(l) \/ Skip(l) \/ Kill(l) \/ CallFails(l) \/ Begin(l)
    \/ \E k \in CacheKey : AgeMarker(k) \/ AgeArchive(k)

CacheSpec == CacheInit /\ [][CacheNext]_cacheVars

\* Every launch runs to its JVM's exit, every application is launched again and
\* again, and time passes for markers and archives; nothing obliges a process to be killed.
FairCacheSpec ==
    /\ CacheSpec
    /\ \A l \in Launch : WF_launch(DecideCDSRegen(l)) /\ SF_launch(Begin(l))
    /\ \A k \in CacheKey : WF_marker(AgeMarker(k)) /\ WF_aged(AgeArchive(k))

-----------------------------------------------------------------------------
\* Type invariant; and a launch in the middle of an eviction is never removing
\* the entry it is about to use itself (keepKey).
CDSTypeOK ==
    /\ archive \in [CacheKey -> Archive] /\ aged \in [CacheKey -> BOOLEAN] /\ marker \in [CacheKey -> Marker]
    /\ at \in [Launch -> LaunchStep] /\ victim \in [Launch -> CacheKey] /\ rest \in [Launch -> SUBSET CacheKey]
    /\ failures \in 0..MaxFailures
    /\ \A l \in Launch : (at[l] \in {"rmArchive", "rmMarker"}) = (victim[l] # KeyOf[l])

\* A key without an archive gets one, although its elected writers die, because a
\* lapsed marker is reclaimed.
NoKeyAbandoned == \A k \in CacheKey : ~Usable(k) ~> Usable(k)

\* Whatever a crash, a failed call, two writers elected at once, or a writer whose
\* marker or archive was evicted under it leave behind, which every launch then
\* consumes, the key has a good archive again and again, as long as other artifacts
\* are launched on the node: what claimWriter and seedArchive get wrong is undone by
\* evictStaleArchives and the next election.
EvictionHeals ==
    \A k \in CacheKey :
        []<>(\E l \in Launch : KeyOf[l] # k /\ LaunchAt(l, "scan")) => []<>(archive[k] = "good")

\* The cached archive is usable by the node's JDK again and again: "the archive
\* self-heals on every central JDK patch".
SelfHeals == \A k \in CacheKey : []<>(archive[k] = "good")
=============================================================================

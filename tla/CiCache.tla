------------------------------- MODULE CiCache -------------------------------
(***************************************************************************)
(* The actions/cache store of the CI runner (src/src/job_deployment.rs).   *)
(* A use of the cache is one actions/cache step: it looks its key up,      *)
(* restores what it matched, and when the job went through saves its paths *)
(* under the key it missed.  The store is a directory of entries shared by *)
(* all jobs of a repository; no lock is taken, so the steps of two uses    *)
(* interleave file by file.                                                *)
(***************************************************************************)
EXTENDS Naturals, FiniteSets, FiniteSetsExt

CONSTANTS
    Uses,       \* cache steps of the jobs of one repository
    KeyOf,      \* use -> its key; keys are numbered in their sort order
    PrefixOf,   \* use -> the keys its restore-keys match
    NumKeys,
    Paths,      \* each entry has paths 1..Paths, of size 1 each
    Limit,      \* quota of the scope; 0 is no quota
    CacheLoads       \* the loads the store is put under, see Load

\* The uses there are, whether they overlap, and whether copying into the store
\* may fail (disk full, a symlink).
Load == [uses : SUBSET Uses, overlap : BOOLEAN, fails : BOOLEAN]

ASSUME CacheAssumption == NumKeys \in Nat \ {0} /\ Paths \in Nat \ {0} /\ Limit \in Nat
                          /\ KeyOf \in [Uses -> 1..NumKeys] /\ CacheLoads \subseteq Load

Keys == 1..NumKeys
NoKey == 0
NoEntry == [key |-> FALSE, paths |-> {}, made |-> 0]

VARIABLES
    entry,    \* the store: key -> its entry, made = 0 when there is none
    clock,    \* ticks at every save; a directory's modification time
    cachePc, matched, restored, next, victims, used,
        \* each use: its place, the key it matched, the paths it restored, the
        \* next path, and the quota scan: entries to evict and what is in use
    cacheLoad      \* never changes

cacheVars == <<entry, clock, cachePc, matched, restored, next, victims, used, cacheLoad>>

CacheInit ==
    /\ cacheLoad \in CacheLoads
    /\ entry = [k \in Keys |-> NoEntry]
    /\ clock = 0
    /\ cachePc = [u \in Uses |-> "idle"]
    /\ matched = [u \in Uses |-> NoKey]
    /\ restored = [u \in Uses |-> {}]
    /\ next = [u \in Uses |-> 1]
    /\ victims = [u \in Uses |-> {}]
    /\ used = [u \in Uses |-> {}]

Exists(k) == entry[k].made # 0
StoredKeys == {k \in Keys : Exists(k)}
StoredPaths == {x \in Keys \X (1..Paths) : x[2] \in entry[x[1]].paths}
Size(k) == Cardinality(entry[k].paths)
CacheGo(u, l) == cachePc' = [cachePc EXCEPT ![u] = l]

-----------------------------------------------------------------------------
(* Lookup and restore *)

\* The key's own entry, else the last of the matching keys; an entry whose key
\* file cannot be read ends the search.
find_actions_cache_entry(u) ==
    LET ms == {k \in StoredKeys : k \in PrefixOf[u]} IN
    IF Exists(KeyOf[u]) THEN KeyOf[u]
    ELSE IF ms = {} \/ \E k \in StoredKeys : ~entry[k].key THEN NoKey
    ELSE Max(ms)

\* With lookup-only the step reports what it matched, restores and saves nothing.
actions_cache_action(u) ==
    /\ u \in cacheLoad.uses /\ cachePc[u] = "idle"
    /\ cacheLoad.overlap \/ \A v \in Uses : cachePc[v] \in {"idle", "looked", "done", "erred"}
    /\ LET m == find_actions_cache_entry(u) IN
       /\ matched' = [matched EXCEPT ![u] = m]
       /\ \/ m = NoKey /\ CacheGo(u, "steps")
          \/ m # NoKey /\ CacheGo(u, "restore")
          \/ CacheGo(u, "looked")
    /\ UNCHANGED <<entry, clock, restored, next, victims, used, cacheLoad>>

\* Path by path; one that is not in the entry is passed over.
restore_actions_cache_paths(u) ==
    /\ cachePc[u] = "restore"
    /\ restored' = IF next[u] \in entry[matched[u]].paths
              THEN [restored EXCEPT ![u] = @ \union {next[u]}] ELSE restored
    /\ IF next[u] < Paths
       THEN next' = [next EXCEPT ![u] = @ + 1] /\ UNCHANGED cachePc
       ELSE next' = [next EXCEPT ![u] = 1] /\ CacheGo(u, "steps")
    /\ UNCHANGED <<entry, clock, matched, victims, used, cacheLoad>>

\* The rest of the job: it fails, or it comes to its save if the key missed.
job_steps(u) ==
    /\ cachePc[u] = "steps"
    /\ \/ CacheGo(u, "done")
       \/ matched[u] # KeyOf[u] /\ CacheGo(u, "save")
    /\ UNCHANGED <<entry, clock, matched, restored, next, victims, used, cacheLoad>>

-----------------------------------------------------------------------------
(* Save *)

\* An entry that exists is left alone; else the directory is made first.
save_actions_cache_paths(u) ==
    /\ cachePc[u] = "save"
    /\ IF Exists(KeyOf[u])
       THEN CacheGo(u, "done") /\ UNCHANGED <<entry, clock>>
       ELSE /\ clock' = clock + 1
            /\ entry' = [entry EXCEPT ![KeyOf[u]] = [key |-> FALSE, paths |-> {}, made |-> clock + 1]]
            /\ CacheGo(u, "key")
    /\ UNCHANGED <<matched, restored, next, victims, used, cacheLoad>>

\* The write fails when another job has evicted the directory by now.
write_key(u) ==
    /\ cachePc[u] = "key"
    /\ IF Exists(KeyOf[u])
       THEN entry' = [entry EXCEPT ![KeyOf[u]].key = TRUE] /\ CacheGo(u, "copy")
       ELSE UNCHANGED entry /\ CacheGo(u, "done")
    /\ UNCHANGED <<clock, matched, restored, next, victims, used, cacheLoad>>

\* Copies make the directories they need, so a copy into an evicted entry
\* brings it back without a key file.  After an error the save is given up and
\* the entry stays as it is.
copied(u, last) ==
    /\ entry' = [entry EXCEPT ![KeyOf[u]] =
                    [key |-> @.key, paths |-> @.paths \union {next[u]}, made |-> IF @.made = 0 THEN clock + 1 ELSE @.made]]
    /\ clock' = IF Exists(KeyOf[u]) THEN clock ELSE clock + 1
    /\ IF next[u] < last
       THEN next' = [next EXCEPT ![u] = @ + 1] /\ UNCHANGED cachePc
       ELSE UNCHANGED next /\ CacheGo(u, IF Limit = 0 THEN "done" ELSE "quota")
copy_cache_path(u) ==
    /\ cachePc[u] = "copy"
    /\ \/ copied(u, Paths)
       \/ cacheLoad.fails /\ CacheGo(u, "done") /\ UNCHANGED <<entry, clock, next>>
    /\ UNCHANGED <<matched, restored, victims, used, cacheLoad>>

-----------------------------------------------------------------------------
(* Quota *)

RemoveEntry(k) == entry' = [entry EXCEPT ![k] = NoEntry]

\* The other entries of the scope, with the times of their directories.
actions_cache_quota_entries(u) == {[key |-> k, made |-> entry[k].made] : k \in StoredKeys \ {KeyOf[u]}}
Oldest(es) == CHOOSE e \in es : \A f \in es : e.made <= f.made

\* What the scan finds in use: the others' and the saved entry's own.
scope_used_others(u) == {x \in StoredPaths : x[1] # KeyOf[u]}
scope_used(u) == StoredPaths

\* An entry over the quota by itself is removed again; else the scan is made.
apply_actions_cache_quota(u) ==
    /\ cachePc[u] = "quota"
    /\ IF ~Exists(KeyOf[u])
       THEN CacheGo(u, "done") /\ UNCHANGED <<entry, victims, used>>
       ELSE IF Size(KeyOf[u]) > Limit
       THEN RemoveEntry(KeyOf[u]) /\ CacheGo(u, "done") /\ UNCHANGED <<victims, used>>
       ELSE /\ victims' = [victims EXCEPT ![u] = actions_cache_quota_entries(u)]
            /\ used' = [used EXCEPT ![u] = scope_used(u)]
            /\ CacheGo(u, "evict")
            /\ UNCHANGED entry
    /\ UNCHANGED <<clock, matched, restored, next, cacheLoad>>

\* Evicts the oldest of the scan while the size it counts is over the quota, and
\* counts the size that the scan found; an entry that is gone by now ends it with
\* an error.
enforce_actions_cache_scope_quota(u) ==
    /\ cachePc[u] = "evict"
    /\ IF Cardinality(used[u]) <= Limit \/ victims[u] = {}
       THEN CacheGo(u, "done") /\ UNCHANGED <<entry, victims, used>>
       ELSE LET e == Oldest(victims[u]) IN
            IF Exists(e.key)
            THEN /\ RemoveEntry(e.key)
                 /\ used' = [used EXCEPT ![u] = @ \ ({e.key} \X (1..Paths))]
                 /\ victims' = [victims EXCEPT ![u] = @ \ {e}]
                 /\ UNCHANGED cachePc
            ELSE CacheGo(u, "erred") /\ UNCHANGED <<entry, victims, used>>
    /\ UNCHANGED <<clock, matched, restored, next, cacheLoad>>

CacheNext == \E u \in Uses :
    \/ actions_cache_action(u) \/ restore_actions_cache_paths(u) \/ job_steps(u)
    \/ save_actions_cache_paths(u) \/ write_key(u) \/ copy_cache_path(u)
    \/ apply_actions_cache_quota(u) \/ enforce_actions_cache_scope_quota(u)

CacheSpec == CacheInit /\ [][CacheNext]_cacheVars

-----------------------------------------------------------------------------
(* Properties *)

\* A job told cache-hit has every path of the entry, when the jobs that use the
\* cache take turns and copying works (save_actions_cache_paths).
HitIsComplete ==
    ~cacheLoad.overlap /\ ~cacheLoad.fails =>
        \A u \in Uses : (matched[u] = KeyOf[u] /\ cachePc[u] = "done") => restored[u] = 1..Paths

\* With a quota the store is within it whenever no job is saving, whichever
\* saves and evictions overlap (apply_actions_cache_quota), unless a save failed
\* while copying or an eviction ended because another job had evicted the same
\* entry: either may leave it over the quota until the next save.
QuotaHolds ==
    (/\ Limit # 0 /\ ~cacheLoad.fails
     /\ \A u \in Uses : cachePc[u] \notin {"key", "copy", "quota", "evict", "erred"})
        => Cardinality(StoredPaths) <= Limit
=============================================================================

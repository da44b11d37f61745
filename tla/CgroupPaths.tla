---------------------------- MODULE CgroupPaths ----------------------------
(***************************************************************************)
(* The agent's cgroup path cache for one container (container_cgroups_map, *)
(* a std RwLock<HashMap> shared by every thread) and the tasks that        *)
(* resolve the container's path through it, get_cgroup_path:               *)
(*   - read lock, lookup; a hit is returned;                               *)
(*   - on a miss the read guard is dropped and get_cgroup_path_docker      *)
(*     runs `docker inspect` and reads /proc/<pid>/cgroup, up to 5 times;  *)
(*   - a path found is inserted under the write lock (overwriting          *)
(*     whatever another thread inserted meanwhile) and returned.           *)
(* The resolving tasks: the perf monitor thread and the MRC estimator     *)
(* (Samplers), which use the path for perf and loop, and the report loop, *)
(* which resolves it in get_mem_usages_from_cgroup, reads memory.current  *)
(* (after an exists() check) and memory.stat, then resolves it again in    *)
(* get_blk_bandwidth and reads io.stat with expect().                      *)
(* The environment: the launch script starting the container after init   *)
(* has spawned it, and the container being recreated (docker rm and run): *)
(* its cgroup directory is then a new one and the old one is gone.         *)
(* A path is the number of the container incarnation whose cgroup it       *)
(* names; None is 0.                                                       *)
(***************************************************************************)
EXTENDS Naturals

CONSTANTS
  Samplers,   \* the monitor thread and the estimator task of the container
  Rep,        \* the report loop task
  MaxInc,     \* bound on the container's incarnations
  Preloaded   \* whether the init config may give cgroup_map for it

ASSUME CgroupAssumption ==
  /\ MaxInc \in Nat \ {0}
  /\ Preloaded \in BOOLEAN
  /\ Rep \notin Samplers

None == 0
Tasks == Samplers \cup {Rep}

VARIABLES
  inc,       \* the container's current incarnation (0: not started yet)
  cache,     \* container_cgroups_map's entry for the container, or None
  pc,        \* each task's place in get_cgroup_path or in its own step
  got,       \* the path each task's get_cgroup_path holds or returned
  rpStage,   \* which read of report_usage the report loop is at
  repAlive,  \* the report loop has not panicked
  memInc     \* the incarnation whose memory.current the report last read

vars == <<inc, cache, pc, got, rpStage, repAlive, memInc>>

(* The cgroup directory of path p exists.                                  *)
Live(p) == p # None /\ p = inc

-----------------------------------------------------------------------------
(* get_cgroup_path, first step: read lock and lookup; a hit is returned.   *)
Get(t) ==
  /\ pc[t] = "get"
  /\ IF cache # None
     THEN got' = [got EXCEPT ![t] = cache] /\ pc' = [pc EXCEPT ![t] = "use"]
     ELSE pc' = [pc EXCEPT ![t] = "lookup"] /\ UNCHANGED got
  /\ UNCHANGED <<inc, cache, rpStage, repAlive, memInc>>

(* get_cgroup_path_docker: while the container does not run, docker       *)
(* inspect prints no pid and /proc/<pid>/cgroup cannot be read, 5 times:  *)
(* None, and nothing is cached.  Once it runs, the attempt that reads the *)
(* cgroup file of the pid docker printed finds the current cgroup.        *)
Lookup(t) ==
  /\ pc[t] = "lookup"
  /\ got' = [got EXCEPT ![t] = inc]
  /\ pc' = [pc EXCEPT ![t] = IF inc = None THEN "use" ELSE "insert"]
  /\ UNCHANGED <<inc, cache, rpStage, repAlive, memInc>>

(* The path found is returned without being stored.                       *)
InsertDropped(t) ==
  /\ pc[t] = "insert"
  /\ pc' = [pc EXCEPT ![t] = "use"]
  /\ UNCHANGED <<inc, cache, got, rpStage, repAlive, memInc>>

(* cgroup_map.write().insert(name, path): the last writer wins.            *)
Insert(t) ==
  /\ pc[t] = "insert"
  /\ cache' = got[t]
  /\ pc' = [pc EXCEPT ![t] = "use"]
  /\ UNCHANGED <<inc, got, rpStage, repAlive, memInc>>

(* A sampler uses the path for one perf window or PEBS collection (a       *)
(* missing path or cgroup makes perf fail: zeros or no samples, skipped)   *)
(* and starts over.                                                        *)
SamplerUse(s) ==
  /\ pc[s] = "use"
  /\ pc' = [pc EXCEPT ![s] = "get"]
  /\ UNCHANGED <<inc, cache, got, rpStage, repAlive, memInc>>

-----------------------------------------------------------------------------
(* The report ends (the record is pushed and sent, the loop sleeps 1 s)   *)
(* and the next one starts with get_mem_usages_from_cgroup.               *)
EndReport ==
  /\ rpStage' = "mem" /\ pc' = [pc EXCEPT ![Rep] = "get"]

(* get_current_mem_usage with memory.current read without the exists()    *)
(* check.                                                                 *)
MemCheckUnchecked ==
  /\ repAlive /\ rpStage = "mem" /\ pc[Rep] = "use"
  /\ IF got[Rep] = None THEN EndReport ELSE rpStage' = "memread" /\ UNCHANGED pc
  /\ UNCHANGED <<inc, cache, got, repAlive, memInc>>

(* get_mem_usages_from_cgroup: no path, or no memory.current file: the    *)
(* app is skipped in this report.                                          *)
MemCheck ==
  /\ repAlive /\ rpStage = "mem" /\ pc[Rep] = "use"
  /\ IF Live(got[Rep]) THEN rpStage' = "memread" /\ UNCHANGED pc ELSE EndReport
  /\ UNCHANGED <<inc, cache, got, repAlive, memInc>>

(* fs::read_to_string(memory.current).expect(..): the directory removed   *)
(* since the exists() check panics the report loop.                       *)
MemRead ==
  /\ repAlive /\ rpStage = "memread"
  /\ IF Live(got[Rep])
     THEN rpStage' = "anon" /\ memInc' = got[Rep] /\ UNCHANGED repAlive
     ELSE repAlive' = FALSE /\ UNCHANGED <<rpStage, memInc>>
  /\ UNCHANGED <<inc, cache, pc, got>>

(* get_anon_mem_usage: memory.stat or memory.swap.current unreadable      *)
(* returns None and the app is skipped; else get_app_usage runs, and      *)
(* get_blk_bandwidth resolves the path again.                             *)
AnonRead ==
  /\ repAlive /\ rpStage = "anon"
  /\ IF Live(got[Rep])
     THEN rpStage' = "blk" /\ pc' = [pc EXCEPT ![Rep] = "get"]
     ELSE EndReport
  /\ UNCHANGED <<inc, cache, got, repAlive, memInc>>

(* get_blk_bandwidth: no path gives 0; otherwise io.stat is read with     *)
(* expect(), which panics the report loop when the directory is gone.     *)
BlkRead ==
  /\ repAlive /\ rpStage = "blk" /\ pc[Rep] = "use"
  /\ IF got[Rep] = None \/ Live(got[Rep])
     THEN EndReport /\ UNCHANGED repAlive
     ELSE repAlive' = FALSE /\ UNCHANGED <<rpStage, pc>>
  /\ UNCHANGED <<inc, cache, got, memInc>>

-----------------------------------------------------------------------------
(* The launch script spawned by init (launch_container) starts the        *)
(* container.                                                              *)
Start ==
  /\ inc = None
  /\ inc' = 1
  /\ UNCHANGED <<cache, pc, got, rpStage, repAlive, memInc>>

(* The container is removed and run again under the same name: a new      *)
(* container id, a new cgroup directory, the old one removed.             *)
Recreate ==
  /\ inc # None /\ inc < MaxInc
  /\ inc' = inc + 1
  /\ UNCHANGED <<cache, pc, got, rpStage, repAlive, memInc>>

(* init: the cgroup_map entry of the config, if any, names the cgroup the *)
(* container will have; the threads and the report loop start resolving.  *)
Init ==
  /\ inc = None
  /\ cache \in IF Preloaded THEN {None, 1} ELSE {None}
  /\ pc = [t \in Tasks |-> "get"]
  /\ got = [t \in Tasks |-> None]
  /\ rpStage = "mem" /\ repAlive = TRUE /\ memInc = None

Resolve(t) == Get(t) \/ Lookup(t) \/ Insert(t)

Next ==
  \/ \E t \in Samplers : Resolve(t) \/ SamplerUse(t)
  \/ repAlive /\ Resolve(Rep)
  \/ MemCheck \/ MemRead \/ AnonRead \/ BlkRead
  \/ Start \/ Recreate

(* The monitor thread and the estimator are OS threads and the report     *)
(* loop a blocking task: each runs whenever it can.  Nothing forces the    *)
(* container to start or to be recreated.                                 *)
Fairness ==
  /\ \A s \in Samplers : WF_vars(Resolve(s) \/ SamplerUse(s))
  /\ WF_vars((repAlive /\ Resolve(Rep)) \/ MemCheck \/ MemRead \/ AnonRead
             \/ BlkRead)

Spec == Init /\ [][Next]_vars /\ Fairness

-----------------------------------------------------------------------------
(* Spec "Container binding": the cgroup path is resolved lazily, retried  *)
(* until resolution succeeds, and cached: once the container runs, the     *)
(* cache eventually holds a path for it, whichever thread resolves it.    *)
PathEventuallyCached == inc # None ~> cache # None

(* The report loop's error paths: a container not started yet, a failed   *)
(* resolution and a preloaded path whose cgroup does not exist yet are    *)
(* all skipped; the loop can only panic once the container has been       *)
(* recreated and a cgroup directory the agent knew has disappeared.        *)
NoPanicWithoutRecreate == ~repAlive => inc >= 2

(* Spec "Shared resource policy": the cgroup map's writers are first-time *)
(* resolutions: once get_cgroup_path has cached a path for the container, *)
(* no later insert replaces it with another.                               *)
CacheWrittenOnce == [][cache # None => cache' = cache]_cache

(* Spec CgroupUnavailable: a path that cannot be read is skipped and       *)
(* retried on the next cycle: after the container gets a new cgroup, the  *)
(* report loop eventually reads its memory again (unless it is recreated   *)
(* once more, or the loop has died of a panic).                            *)
MemoryReadRecovers ==
  \A i \in 1..MaxInc : inc = i ~> (memInc = i \/ inc # i \/ ~repAlive)
=============================================================================

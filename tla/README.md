# TLA+ models of spirit's memory/bandwidth allocation core

This directory holds TLA+ models of the allocation core of this repository,
TLC configurations that model-check them on small instances, and TLAPS proofs
of the safety invariants of every component whose model the prover can reach:
- the enforcer's write bound and its lower bound on `memory.max`;
- the agents' shares of the coordinator's splits;
- the agent's lock discipline and its refinement of an abstract lock;
- the report loop's cgroup reads;
- the block-I/O rate;
- the coordinator's usage view. Every definition is translated from the Rust
sources under `src/`. `PROJECT.json` maps each definition to the lines it
models. It also lists the runs, the mutants that show each checked property can
fail, the findings and the hazards.

## 1. The system

| Part | Source | Role |
|---|---|---|
| Coordinator | `src/global-enforcer/src/main.rs`, `global_allocation.rs` | Rocket server. `POST /config` splits a global `AllocationMap` (app → (MB, Mbps)) per VM, stores it as `cur_config` and posts every per-VM map to its agent. `POST /usage` merges an agent's `UsageMap` into `usage_map` with `HashMap::extend`; `GET /status` returns a copy. All three run under one `tokio::sync::Mutex<GlobalAllocation>`. |
| Transport | `src/lib/src/commands.rs` | `send_config` / `send_usage` spawn `sh -c "curl ..."` and return without waiting: posts are unordered, and lost without notice when curl fails. |
| Local agent | `src/local-enforcer/src/main.rs`, `cache_client.rs` | One per VM. `POST /config` takes the `CacheClient` mutex and runs `update_config`, which holds the `cur_config` write lock while it enforces each app. A blocking task runs `report_usage` every second under the client mutex, pushes the record into the 100-entry `latest_usage` history and posts it to the coordinator. |
| Memory and bandwidth enforcers | `cache_client.rs:246-404` | Lower `memory.max`/`memory.high` by 10% steps (at most 5, 2 s apart), write the target, raise `memory.swap.max`; overwrite `io.max`. |
| Perf monitor and block-I/O accounting | `cache_client.rs:83-105`, `515-534`, `699-845` | One `std::thread` per container pushes one-second perf windows into a 16-entry `PerfStat` ring; `get_blk_bandwidth` turns the `io.stat` byte counter into a rate against a snapshot. |
| MRC estimator | `cache_client.rs:545-588`, `847-1819` | One `spawn_blocking` task per container: PEBS sampling, `cur_config` read lock and `latest_usage` lock, a gradient-descent fit, an MRC published into `PerfStat`. |
| Cgroup path cache | `cache_client.rs:156-231`, `430-540` | `container_cgroups_map`, a std `RwLock<HashMap>` shared by every thread: `get_cgroup_path` returns a cached path, or looks it up with `docker inspect` and `/proc/<pid>/cgroup` (unlocked, 5 attempts) and inserts it. `init` may preload it from the config; the launch script starts the container after `init` has spawned the threads. |
| Benchmark client, trace loader, request replay | `src/bench-mc-client`, `src/trace_loader`, `src/lib/src/{libcache_loader,process_requests}.rs` | Workload tooling outside the core. |

How they interact: an operator posts a config to the coordinator, which posts
per-VM configs to the agents, which write their containers' cgroup files.
Independently, every agent measures its containers, reports every second to the
coordinator, and fits an MRC from its own history and `cur_config`.

## 2. Modules

| Module | Models |
|---|---|
| `MemoryEnforcer` | One app's `set_memory_size_via_cgroup` then `update_swap_bandwidth` (the body of `update_config`'s loop) |
| `MemoryLimit` | The abstract `memory.max`: what `set_memory_size_via_cgroup` promises about the limit, with the loop, the sleeps, `memory.high` and swap left out |
| `MemoryEnforcerProofs` | TLAPS proofs about `MemoryEnforcer`, and of its refinement of `MemoryLimit` |
| `ConfigPropagation` | Coordinator `/config`, `split_global_allocation`, curl posts, the agent's `cur_config` merge |
| `AllocationDelivery` | The abstract propagation: what the agents are promised about the configs they receive, with the curl processes left out |
| `PropagationSums` | The propagation properties that add allocations up (the folds of `FiniteSetsExt`), kept apart so that `ConfigPropagation` reaches no recursive operator |
| `ConfigPropagationProofs` | TLAPS proofs of `HeldSharesAreSplits` and of the refinement of `AllocationDelivery` |
| `AgentTasksProofs` | TLAPS proof of `FitSeesCurrentAllocation` |
| `AgentTasks` | The agent's concurrency: `/config` handler, report loop, estimator tasks, shutdown, over tokio's FIFO mutexes and RwLock |
| `CgroupPaths` | `get_cgroup_path` for one container, used by the monitor thread, the estimator and the report loop's memory and `io.stat` reads, with the container started late and recreated |
| `CgroupPathsProofs` | TLAPS proof of `NoPanicWithoutRecreate` |
| `UsageSampler` | One container's perf monitor thread, `PerfStat::update`, and the per-app part of `report_usage` with `get_blk_bandwidth` |
| `UsageSamplerProofs` | TLAPS proof of `BwWithinDeviceRate` |
| `UsageView` | `report_usage`'s `UsageMap`, `send_usage`, the coordinator's `/usage` and `/status` |
| `MC*` | Model values and small constant sets for TLC |

**MemoryEnforcer.** The state is the files `memory.max`, `memory.high`,
`memory.swap.max`, `io.max` and `memory.current`, plus the locals of the running
call: `pc` (Idle/Loop/Bw), `target`, `iter`, `current_mem` kept exactly as
`curNum/curDen` (so `× 0.9` has no rounding), and `nWrites`. The string `"max"`
is the model value `Unlimited`; `ParseMb` maps it to 0 as `parse().unwrap_or(0)`
does. `Start` reads `memory.max` and branches at line 351 on `Shrinks(t)`
(the target below the parsed limit). `Step` is one loop
iteration, with its four outcomes:
- `memory.current` unreadable: break;
- usage at or below the target: break;
- shrink, then break under the target or write;
- usage above `current_mem`: sleep only.

`Exit` is the loop guard failing; `Finish` is the final write and the swap
ceiling; `Bandwidth` is `io.max`; `Env` moves `memory.current` up to the kernel
limit. A failed `fs::write` (`CanFail`) leaves its file unchanged, since the code
only logs it.

**MemoryLimit** is what the enforcer promises about `memory.max`. Its state is
the limit, the call's target (`goal`) and whether a shrink phase is running.
A call either writes a target that is not below the limit at once
(`SetAtOnce`), or starts a shrink phase (`BeginShrink`). In that phase the
limit is only lowered, never below the target (`Lower`), and the phase ends
with the write of the target (`Settle`). Any write may fail. `MemoryEnforcer`
maps onto it with `limit <- memMax`, `goal <- target` and
`shrinking <- (pc = "Loop")`.

**ConfigPropagation.** `coordCfg`, the history `accepted`, `sent`, the in-flight
set `net`, and each agent's `agentCfg`. `CoordConfig` is the whole handler
under the mutex. A VM without a `vm_ip_map` entry panics `unwrap()` after
`cur_config` was replaced, with posts already spawned to any subset of the
other VMs (HashMap order). `AgentConfig` inserts the received apps and keeps
the rest. Each pass of `update_config`'s loop inserts an app and then writes
its limits; when `ApplyPanics` holds, `update_swap_bandwidth`'s `expect` on
`io.max` (lines 270 and 278, reached with a stale cgroup path) may panic, and
the handler ends with only the apps visited so far inserted (`Applied`: any
non-empty subset, in HashMap order). Tokio's locks do not poison, so later
posts still reach the agent. `LosePost` is a failed curl.

**AgentTasks.** Each tokio lock is a holder (or writer/reader set) with a FIFO
queue of waiters, which is how tokio's `Mutex` and `RwLock` grant access (a
reader queued behind a writer waits). The lock orders:
- requests: client mutex, then the `cur_config` write lock;
- report loop: client mutex, then `latest_usage`;
- estimator: `cur_config` read lock, then `latest_usage`, dropping
  `latest_usage` before the fit and keeping the read lock to the end.

The history is a sequence of the app sets a record covers (an app whose memory
read failed is left out). The estimator's outcomes are the sets `PebsOutcome`,
`FitOutcome` and `ExponentOutcome`: every early return of
`collect_perf_pebs`, `compute_mrc_via_aet` and `compute_exponent`. The
floating-point values are abstracted away. `Shutdown` is Rocket's hook:
`stop := TRUE` and an abort that cannot stop a running blocking task. What
follows it is not modelled: `launch()` returns, `main` returns, and the
runtime drops the still-running blocking tasks (the estimators) after its
shutdown timeout, so the process exits although the estimator loops have no
exit of their own.

**CgroupPaths.** A path is the number of the container incarnation whose
cgroup it names (0 is `None`). `inc` is the current incarnation, `cache` the
map's entry. Each task is at `get`, `lookup`, `insert` or `use`, and `got`
holds the path it looked up. `Get` is the read-locked lookup, `Lookup` the
docker lookup, which finds nothing until the container runs, and `Insert`
the unconditional write. The report loop's stage
(`rpStage`) follows `get_mem_usages_from_cgroup` and `get_blk_bandwidth`:
- `MemCheck` is the `exists()` check on `memory.current`;
- `MemRead` is the `expect` read that follows it;
- `AnonRead` covers `memory.stat` and `memory.swap.current`;
- `BlkRead` is the `io.stat` read with `expect`.

A read of a directory that is gone panics the loop (`repAlive := FALSE`). The
environment is `Start`, which launches the container, and `Recreate`, which
runs `docker rm` and `run` under the same name.

**UsageSampler.** The ring and `avg_miss`, the container's true miss level
`act`, the `io.stat` counter, the ms clock and the `BlkUseStat` snapshot. The
environment's `Tick`, `Activity` and `Restart` (a `docker restart` recreates the
cgroup at the cached path with counters at zero). The u64 subtraction is taken
modulo `2^Width`. The build profile is not in the repository, so the underflow
either panics (debug) or wraps (release), nondeterministically.

**UsageView.** A report is its VM, its sequence number and the set of apps it
covers. `SendUsage` spawns the post; `Usage` is the `/usage` handler
(`MergeUsage`: `extend` replaces the VM's entry); `LoseUsage` is a failed curl;
`Status` is `GET /status` copying the map.

## 3. Runs

| Run (cfg) | Checks | Result |
|---|---|---|
| `MCMemoryEnforcer.cfg` | `WriteBound`, `LimitNeverBelowTarget`, `MemoryLimitRefined` | pass |
| `MCMemoryEnforcer_ShrinkIsGradual.cfg` | `ShrinkIsGradual` | violation |
| `MCConfigPropagation.cfg` | `SplitConservation`, `HeldSharesAreSplits`, `DeliveryRefined` | pass |
| `MCConfigPropagation_QuiescentAgreement.cfg` | `QuiescentAgreement` | violation |
| `MCAgentTasks.cfg` | `ConfigEventuallyApplied`, `FitSeesCurrentAllocation`, deadlock | pass |
| `MCUsageView_ViewNeverRegresses.cfg` | `ViewNeverRegresses` | violation |
| `MCUsageSampler.cfg` | `BwWithinDeviceRate` | pass |
| `MCUsageSampler_ReportLoopSurvives.cfg` | `ReportLoopSurvives` | violation |
| `MCCgroupPaths.cfg` | `NoPanicWithoutRecreate`, `PathEventuallyCached`, deadlock | pass |
| `MCCgroupPaths_MemoryReadRecovers.cfg` | `MemoryReadRecovers` | violation |
| `MCCgroupPaths_CacheWrittenOnce.cfg` | `CacheWrittenOnce` | violation |

What they show:
- **WriteBound** (spec 8(3)): with failing writes and a vanishing
  `memory.current`, a call writes `memory.max` at most `iter_max + 1` times.
- **LimitNeverBelowTarget** (spec 4.6), an action property: no write of
  `memory.max`, intermediate or final, is below the call's target. An
  intermediate ceiling is written only when the f64 `current_mem` is not
  below the integer target, so its truncation `as u64` is not below it either.
  The mutant `BelowTargetBeforeShrink` tests the ceiling before the 10%
  step, and TLC finds a 590 MB write for a 650 MB target.
- **MemoryLimitRefined** (spec 4.6 and 8(3)): `MemoryEnforcer` implements
  `MemoryLimit`. No truncated ceiling of the decrease loop raises
  `memory.max`, even after failed writes left it above the plan. The limit is
  brought down only inside the loop. The mutant `ShrinksBelowUsage` takes the
  decrease branch by comparing the target with `memory.current`, as spec 4.6
  words it. TLC's first trace is a container whose limit is `"max"` and whose
  cache uses 700 MB. For a 300 MB target it enters the decrease loop with
  `current_mem` 0. `MemoryLimit` allows a shrink phase only below a numeric
  limit. The same mutant also cuts a 1000 MB limit straight to the target when
  the cache is nearly idle.
- **DeliveryRefined**: config propagation implements `AllocationDelivery`.
  Each agent's map changes only when `update_config` inserts entries of the
  part of one accepted config meant for its VM: all of them, or, when its loop
  panics at `io.max`, a non-empty subset (`Partial <- ApplyPanics`). Each (VM, call) post ends at most
  once, in any order, or is lost. No post goes to a VM without a `vm_ip_map`
  entry. The mutant `ReplaceConfig` assigns the received map to `cur_config`
  instead of inserting it. TLC then finds an agent on V2 that forgets app B
  when a later post names only A.
- **ShrinkIsGradual**, violated. The code compares the target with the parsed
  limit, not with `memory.current`; an unlimited container (`"max"` parsed as 0)
  is cut to the target in one write.
- **SplitConservation**: every fan-out that completes posts `n·(x/n)` of each
  allocation on both axes, so at most `n-1` units are dropped. This contradicts
  the sentence of spec 4.9 that the first VM absorbs the residual (that sentence
  is the mutant `SplitAbsorbResidual`).
- **HeldSharesAreSplits**: every allocation an agent holds is for an app
  placed on its VM, and is `mem/n`, `bw/n` of that app in some accepted
  config. This holds whatever posts are lost, reordered or cut short by a
  `vm_ip_map` panic, and when `update_config` itself panics midway.
- **QuiescentAgreement**, violated with no lost post and no panic: two
  configs reach an agent in reverse order and it keeps the older share.
- **ConfigEventuallyApplied**: a started `/config` request always completes,
  although the report loop and the estimators keep taking the locks; TLC's
  deadlock check shows that no lock cycle stops the agent.
- **FitSeesCurrentAllocation**: no config is applied while an estimator works
  with the cache size it read (it keeps the read lock through the fit).
- **ViewNeverRegresses**, violated with no lost post and no failed read: an
  agent's two reports finish their curls in reverse order, and `/status` goes
  from the newer report back to the older one. Spec 7 says the next periodic
  report carries fresh data, but nothing orders the reports.
- **BwWithinDeviceRate**: every bandwidth measured over a window without a
  restart is within the device rate, including skipped reports and reports in
  the same millisecond.
- **ReportLoopSurvives**, violated: a restart resets `io.stat` below the
  snapshot and `read_bytes - prev_read_bytes` panics the report task in a debug
  build. In a release build it wraps instead, and the agent reports an
  impossible bandwidth.
- **NoPanicWithoutRecreate**: the report loop survives the container starting
  after the agent and a preloaded path whose cgroup does not exist yet. It can
  only panic once the container has been recreated.
- **PathEventuallyCached**: once the container runs, some thread caches a path
  for it.
- **MemoryReadRecovers**, violated. The cache is never invalidated, so after a
  recreation the report loop's `exists()` check fails forever. The app drops
  out of every later report, whereas spec `CgroupUnavailable` says it is
  retried on the next cycle.
- **CacheWrittenOnce**, violated. Two threads miss together, their lookups fall on either side
  of a recreation, and both insert: the fresh path is overwritten with the
  stale one (spec 6 says the writers are first-time resolutions). In a model
  that allows no recreation during a report, TLC found a 14-step trace
  from this race to a panic. The report loop inserts the fresh path,
  the monitor overwrites it with the stale one, and the report loop's second
  resolution reads `io.stat` from the removed directory.

These divergences are also visible in a step or two of the code. Their models
are kept, but they have no run:
- `GradualStep`: a failed write is only logged while `current_mem` keeps
  shrinking, so the next write lowers `memory.max` from 1000 to 810 MB at once
  (spec 4.6: 10% steps).
- `AvgTracksIdle`: all-zero perf windows are dropped like failures, so an idle
  container's `avg_miss` keeps its last busy mean (spec 4.2).
- `memory.swap.max` of `"max"` is lowered to 40 GiB (spec 8(4)), line 385.
- `est_coeff` is reset at every estimator iteration (line 564); spec 4.5 carries
  the previous coefficients. AgentTasks models the reset.

### Bounds

| Module | Bounds | Why they are enough |
|---|---|---|
| Enforcer | `iter_max = 5` (the code's); targets 300/650/1000 MB against a 1000 MB limit (650 is reached by the fifth 10% step); usage 0/700 MB and the cap; failing writes on | Reaches every loop exit and every error path. |
| Propagation | Two apps; three VMs, one without an IP; three configs | Two configs can be in flight while one is already applied. |
| AgentTasks | Two requests, two apps, history length 1 (for 100) | The estimator's "history full" and "too short" paths both occur. A longer history only delays them. |
| UsageSampler | Ring of 2 (for 16); misses {0, 2}; rate ≤ 3; clock ≤ 4; width 5 bits | An idle run can fill the ring; restarts, same-ms reports and wraps occur. |
| UsageView | Two VMs, two apps, two reports each | Two reports of one VM can be in flight together, which is all the reordering needs. |
| CgroupPaths | Two samplers (monitor, estimator) and the report loop; 3 incarnations (2 for the violation runs); a preloaded entry allowed | A stale path and a fresh one can be cached in turn, with the report loop between its two resolutions. |

Deadlock checking is off in the propagation runs only. Once the call bound is
used up and no post is in flight, both servers just wait for requests, which is
a real idle state. The UsageSampler run never stops: the monitor is always
enabled.

### Fairness

`AgentTasks` and `CgroupPaths` have liveness properties. In `AgentTasks` the fairness is weak fairness of each
request's lock and apply steps, of the report loop and of each estimator. This
is justified because tokio's worker threads run every ready task, and
`spawn_blocking` tasks are OS threads, so a task that can proceed does. The
environment (new requests, `Shutdown`) has no fairness. In `CgroupPaths`
each sampler thread and the report loop are weakly fair (OS threads and a
blocking task), and starting or recreating the container has no fairness.

## 4. Proofs (TLAPS)

`MemoryEnforcerProofs` proves these theorems for all constants that satisfy
`ConstAssumption` (numbers are naturals, `"max"` is not a number):
- **`TypeCorrect`**: `Spec => []TypeOK`, from the lemmas `ValueTypes`,
  `WriteSettingsType`, `SetSwapType` and `FinishType`.
- **`WriteBoundHolds`**: `Spec => []WriteBound`.
  - `WriteBound` is not inductive, because a loop step adds a write.
  - The strengthening `WritesPerIter` says that inside the loop
    `nWrites <= iter`, and that `nWrites <= iter_max + 1` always holds.
  - `IInv == TypeOK /\ WritesPerIter` was checked by TLC first.
  - `IInvInductive` proves it with one step per action.

`AgentTasksProofs` proves **`FitSeesCurrentAllocationHolds`**:
`Spec => []FitSeesCurrentAllocation`, for all request and app sets and every
history length, under `AgentAssumption`.
- The property alone is not inductive: a step of `update_config` bumps the
  configuration version, and nothing in the property says that no estimator
  is between its read and its fit at that moment.
- `IInv` adds:
  - a type part, which leaves the lock queues untyped;
  - `WriterIsApplying`: a request applying its config holds the write lock;
  - `ReaderIsEstimating`: an estimator from its read to the end of its fit
    holds the read lock;
  - `RwExclusion`: the lock never has a writer and readers together.
- TLC checked `IInv` on the `agent_tasks` model (235,699 states).
- `InitIInv` and `IInvInductive` prove it, with one step per action. The
  step of `ReqApply` uses the three lock facts to show that no estimator is
  in `waitL` or `fit`.
- The FIFO order of the queues plays no part. The property rests on the lock's
  exclusion alone, so it also holds for a reader-preferring lock.

`CgroupPathsProofs` proves **`NoPanicWithoutRecreateHolds`**:
`Spec => []NoPanicWithoutRecreate`, for every sampler set and incarnation
bound.
- The property is not inductive: it says nothing of the path the report loop
  holds when it reaches a read.
- `CPInv` adds:
  - a type part;
  - `StartedIfReading`: past the `exists()` check, the container runs;
  - `HoldsPathIfReading`: at the memory reads, the loop holds a path;
  - `FirstIncarnation`: before any recreation, every cached or held path is
    `None` or 1.
- Together these disable both panicking branches while `inc <= 1`.
- TLC checked `CPInv` on the `cgroup_paths` model (12,499 states).

`MemoryEnforcerProofs` also proves **`LimitNeverBelowTargetHolds`**:
`Spec => LimitNeverBelowTarget`. The action property follows from `TypeOK`
alone (`[]TypeOK` and `StepNeverBelowTarget`), with two lemmas:
- `FinishWritesTarget`: the final write writes the target or fails;
- `TruncatedCeilingNotBelow`: `~(n < t * d)` with `d > 0` gives
  `t <= n \div d`.

`MemoryEnforcerProofs` also proves **`RefinesMemoryLimit`**:
`Spec => MemoryLimitRefined`, for all constants under `ConstAssumption`.
- `RInv == TypeOK /\ ShrinkInv`, where `ShrinkInv` says that inside the loop
  `memory.max` is a number and the truncated ceiling `curNum \div curDen`
  lies between the target and `memory.max`. TLC checked `RInv` on the
  `enforcer` model (1,535,584 states) before it was proved.
- `RInvInductive` proves `RInv` inductive with one step per action. Its
  lemmas are:
  - `ShrinkStart`: entering the loop needs a numeric limit above the target;
  - `ShrinkStepDown`: `(9a) \div (10b) <= a \div b`, so `× 0.9` never
    raises the truncated ceiling;
  - `TruncatedCeilingNotBelow`.
- `StepRefines` maps each step onto `MemoryLimit`:
  - `Start` is `BeginShrink` or `SetAtOnce`;
  - a loop write is `Lower`;
  - the final write of `Step` or `Exit` is `Settle`;
  - `Bandwidth`, `Env` and the sleep-only iteration are stutters.
- The initial states map to `ML!Init`, and PTL combines the steps.

`UsageSamplerProofs` proves **`BwWithinDeviceRateHolds`**:
`Spec => []BwWithinDeviceRate` under `SamplerAssumption`, which requires
`MaxRate * MaxTime < 2^Width`: the u64 counter cannot wrap within the run's
clock.
- The property says nothing about the snapshot, so alone it is not inductive.
- `BlkInv` adds `SnapshotBound`: after a snapshot with no restart since, the
  counter is at or above it and has grown by at most `MaxRate` per clock unit.
- Three arithmetic lemmas finish it:
  - `WindowBelowModulus`: the growth is below `2^Width`;
  - `NoWrap`: the subtraction is its own residue;
  - `DivBound`: dividing by the elapsed time gives at most `MaxRate`.
- TLC checked `BlkInv` on the `sampler` model (43,740 states).

`ConfigPropagationProofs` proves **`HeldSharesAreSplitsHolds`**:
`Spec => []HeldSharesAreSplits` under `PropagationAssumption`.
- `PropInv` adds:
  - `PostIsSplit` for every sent post: its call names an accepted config,
    its VM hosts every app it carries, and each value is that app's share;
  - `net \subseteq sent`;
  - the types.
- The history `accepted` only grows at its end, so an old post keeps naming
  its config (`CoordConfigKeeps`).
- `PostsAreSplits` unfolds `split_global_allocation` for the posts of one
  call.
- `AgentConfigKeeps` splits on whether the agent's entry came from the
  post (an app `update_config` reached before any panic) or was kept.
- TLC checked `PropInv` on the `propagation` model (22,595 states).
- `ConfigPropagation` used to take `Range` from `Functions`, which extends
  the recursive `Folds`. It now writes the hosts of an app as the set of the
  entries of its placement vector, the same set.

`ConfigPropagationProofs` also proves **`RefinesAllocationDelivery`**:
`Spec => DeliveryRefined` under `PropagationAssumption`.
- The mapping is `current <- coordCfg`, `history <- accepted`,
  `held <- agentCfg`, `Split <- SplitGlobalAllocation`. `done` maps to
  `Ended`, the (VM, call) pairs of the posts sent and no longer in flight.
- `DelivInv` adds `PostIsPart` for every sent post: the post is a record of
  its VM, map and call, and the map is exactly the part
  `split_global_allocation` made for that VM from the config of its call.
  The VM also has a `vm_ip_map` entry. TLC checked `DelivInv` on the
  `propagation` model (22,595 states).
- `CoordPosts` covers both branches of the coordinator's loop, the panic
  included: the posts go to VMs of the split that have an address.
  `NewPostIsPart` shows each new post is a part.
- `OnePostPerPart` shows two sent posts with the same VM and call are equal.
  `InFlightPending` follows: a post in flight names a delivery that has not
  ended. `EndPost` shows that ending it adds exactly that pair.
- `DeliveryStep` maps `CoordConfig` to `Accept`, `AgentConfig` to `Apply`
  and `LosePost` to `Drop`. For `AgentConfig` it splits on whether the loop
  reached every app: then the inserted map is the whole part, and otherwise
  `ApplyPanics` holds and it is the part restricted to the apps reached.

Only model-checked:
- `GradualStep`'s arithmetic, which has no run (see above);
- `SplitConservation`. It adds allocations up over the posts of a call with
  `MapThenSumSet`. What such a sum
  computes for every set needs induction over the set, with an induction
  theorem the provers cannot instantiate, and the fold is a recursive operator.
  `HeldSharesAreSplitsHolds` proves the per-agent fact about the shares;
- the liveness of `AgentTasks` and `CgroupPaths` (`ConfigEventuallyApplied`,
  `PathEventuallyCached`) and the refinement's use in liveness;
- the properties of the violation runs.

Liveness and `ENABLED` stay with TLC.

## 5. Not modelled

- **The rest of agent start-up**: the config fields, the sleeps, the init
  script, and the creation of `BlkUseStat` and `PerfStat`. These are
  sequential set-up steps with no interleaving. `update_config`'s own use of
  the cgroup path is also left out.
- **The floating-point fit** and the MRC values: only the outcomes of each
  function are modelled.
- **Docker and perf subprocesses**: only their outcomes are modelled.
- **JSON formatting and logging.**
- **The benchmark and trace tooling.**

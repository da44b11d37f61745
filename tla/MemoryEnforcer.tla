--------------------------- MODULE MemoryEnforcer ---------------------------
(***************************************************************************)
(* One container's limit enforcement by the local agent: the body of the  *)
(* loop of CacheClient::update_config for one app, i.e.                    *)
(* set_memory_size_via_cgroup (gradual decrease of memory.max and          *)
(* memory.high, then the swap ceiling) followed by update_swap_bandwidth   *)
(* (the io.max rule).  The cgroup pseudo-files are state variables; the    *)
(* cache process inside the container is an environment that changes      *)
(* memory.current at any time, within the kernel-enforced limit.          *)
(*                                                                         *)
(* Memory values are in MB, as the code computes them.  A file holding the *)
(* string "max" (the cgroup v2 default: no limit) is the model value       *)
(* Unlimited.  The f64 `current_mem` of the code is kept exactly as the    *)
(* fraction curNum / curDen.                                               *)
(***************************************************************************)
EXTENDS Naturals

CONSTANTS
  Unlimited,      \* content "max" of memory.max / memory.swap.max / io.max
  Targets,        \* memory targets (MB) that configs may carry
  Bandwidths,     \* bandwidth targets (Mbps) that configs may carry
  InitLimits,     \* numeric memory.max / memory.high values at start (MB)
  InitSwaps,      \* numeric memory.swap.max values at start (MB)
  UsageLevels,    \* memory.current values (MB) the cache may move to
  MaxUsage,       \* the cache's whole footprint when nothing limits it (MB)
  IterMax,        \* iter_max, cache_client.rs:349 (5)
  PressureMb,     \* EVICTION_PRESSURE_MB, cache_client.rs:38 (256)
  SwapSizeMb,     \* swap_size_mb, cache_client.rs:379 (40 * 1024)
  MbpsToBytes,    \* MBPS_TO_BYTES_PER_SEC, cache_client.rs:22 (125000)
  CanFail         \* whether fs::write on a cgroup file may fail

ASSUME ConstAssumption ==
  /\ Unlimited \notin Nat
  /\ Targets \subseteq Nat /\ Bandwidths \subseteq Nat
  /\ InitLimits \subseteq Nat /\ InitSwaps \subseteq Nat
  /\ MaxUsage \in Nat /\ UsageLevels \subseteq 0..MaxUsage
  /\ IterMax \in Nat /\ PressureMb \in Nat /\ SwapSizeMb \in Nat
  /\ MbpsToBytes \in Nat
  /\ CanFail \in BOOLEAN

VARIABLES
  memMax,    \* memory.max
  memHigh,   \* memory.high
  swapMax,   \* memory.swap.max
  ioMax,     \* io.max rule, bytes/s for rbps and wbps
  usage,     \* memory.current, driven by the cache process
  pc,        \* "Idle", "Loop" (gradual decrease) or "Bw" (bandwidth next)
  target,    \* target_mem_mb of the running call
  bw,        \* mem_bw of the running call
  iter,      \* iter
  curNum,    \* current_mem = curNum / curDen
  curDen,
  nWrites    \* write_settings calls made by the running/last call

vars == <<memMax, memHigh, swapMax, ioMax, usage, pc, target, bw, iter,
          curNum, curDen, nWrites>>

LimitVal == Nat \cup {Unlimited}

MinOf(a, b) == IF a <= b THEN a ELSE b
MaxOf(a, b) == IF a >= b THEN a ELSE b

(* Reading a limit file and parsing it: "max" fails to parse and gives 0. *)
ParseMb(v) == IF v = Unlimited THEN 0 ELSE v

(* The most memory the container can hold under a limit.                  *)
Cap(v) == IF v = Unlimited THEN MaxUsage ELSE MinOf(v, MaxUsage)

(* memory.high written alongside memory.max = m.                          *)
HighOf(m) ==
  LET pressure == IF m > PressureMb THEN m - PressureMb ELSE 0
  IN  MaxOf(pressure, (m * 9) \div 10)

(* write_settings(m): memory.max then memory.high; each fs::write may fail *)
(* and is only logged.  Lowering memory.max makes the kernel reclaim.      *)
WriteSettings(m) ==
  /\ \/ memMax' = m /\ usage' = MinOf(usage, m)
     \/ CanFail /\ UNCHANGED <<memMax, usage>>
  /\ \/ memHigh' = HighOf(m)
     \/ CanFail /\ UNCHANGED memHigh

(* The swap ceiling: read, parse ("max" -> 0), raise to SwapSizeMb if     *)
(* smaller; a failed write returns early.                                  *)
SetSwap ==
  IF ParseMb(swapMax) < SwapSizeMb
  THEN \/ swapMax' = SwapSizeMb
       \/ CanFail /\ UNCHANGED swapMax
  ELSE UNCHANGED swapMax

(* After the loop: write the target directly, then the swap ceiling; k    *)
(* write_settings calls were made before.                                  *)
Finish(t, k) ==
  /\ WriteSettings(t)
  /\ nWrites' = k + 1
  /\ SetSwap
  /\ pc' = "Bw"

(* The decrease branch is taken when the target is below current_mem_mb, *)
(* the parsed memory.max.                                                  *)
ShrinksBelowUsage(t) == t < usage
Shrinks(t) == t < ParseMb(memMax)

(* Start of set_memory_size_via_cgroup: read memory.max; shrink gradually *)
(* if the target is below it, otherwise write the target at once.          *)
Start(t, b) ==
  /\ pc = "Idle"
  /\ target' = t /\ bw' = b
  /\ iter' = 0
  /\ IF Shrinks(t)
     THEN /\ pc' = "Loop"
          /\ curNum' = ParseMb(memMax) /\ curDen' = 1
          /\ nWrites' = 0
          /\ UNCHANGED <<memMax, memHigh, swapMax, usage>>
     ELSE /\ Finish(t, 0)
          /\ UNCHANGED <<curNum, curDen>>
  /\ UNCHANGED ioMax

(* The while condition of the decrease loop.                              *)
LoopGuardOffByOne == iter <= IterMax
LoopGuard == iter < IterMax

(* The next planned ceiling n / d (current_mem * 0.9) is under the target. *)
BelowTargetBeforeShrink(n, d) == curNum < target * curDen
BelowTarget(n, d) == n < target * d

(* One iteration of the decrease loop, ending in the 2 s sleep or a break. *)
Step ==
  LET n == 9 * curNum
      d == 10 * curDen
  IN
  /\ pc = "Loop"
  /\ LoopGuard
  /\ iter' = iter + 1
  /\ \/ /\ CanFail                              \* memory.current missing
        /\ Finish(target, nWrites)
        /\ UNCHANGED <<curNum, curDen>>
     \/ /\ usage <= target                      \* usage already below target
        /\ Finish(target, nWrites)
        /\ UNCHANGED <<curNum, curDen>>
     \/ /\ target < usage /\ usage <= curNum \div curDen
        /\ curNum' = n /\ curDen' = d
        /\ IF BelowTarget(n, d)
           THEN Finish(target, nWrites)         \* next step under target
           ELSE /\ WriteSettings(n \div d)
                /\ nWrites' = nWrites + 1
                /\ pc' = "Loop"
                /\ UNCHANGED swapMax
     \/ /\ target < usage /\ curNum \div curDen < usage  \* above the ceiling
        /\ UNCHANGED <<memMax, memHigh, swapMax, usage, pc, curNum, curDen,
                       nWrites>>
  /\ UNCHANGED <<ioMax, target, bw>>

(* The while condition fails after iter_max iterations.                   *)
Exit ==
  /\ pc = "Loop"
  /\ ~LoopGuard
  /\ Finish(target, nWrites)
  /\ UNCHANGED <<ioMax, target, bw, iter, curNum, curDen>>

(* update_swap_bandwidth: overwrite io.max with rbps = wbps = bw * 125000. *)
Bandwidth ==
  /\ pc = "Bw"
  /\ ioMax' = bw * MbpsToBytes
  /\ pc' = "Idle"
  /\ iter' = 0 /\ curNum' = 0 /\ curDen' = 1
  /\ UNCHANGED <<memMax, memHigh, swapMax, usage, target, bw, nWrites>>

(* The cache process allocates up to the limit or frees memory.           *)
Env ==
  /\ usage' \in {u \in UsageLevels \cup {Cap(memMax)} : u <= Cap(memMax)}
  /\ UNCHANGED <<memMax, memHigh, swapMax, ioMax, pc, target, bw, iter,
                 curNum, curDen, nWrites>>

Init ==
  /\ memMax \in InitLimits \cup {Unlimited}
  /\ memHigh \in InitLimits \cup {Unlimited}
  /\ swapMax \in InitSwaps \cup {Unlimited}
  /\ ioMax = Unlimited
  /\ usage \in {u \in UsageLevels \cup {Cap(memMax)} : u <= Cap(memMax)}
  /\ pc = "Idle"
  /\ target \in Targets /\ bw \in Bandwidths
  /\ iter = 0 /\ curNum = 0 /\ curDen = 1
  /\ nWrites = 0

Next ==
  \/ \E t \in Targets, b \in Bandwidths : Start(t, b)
  \/ Step
  \/ Exit
  \/ Bandwidth
  \/ Env

Spec == Init /\ [][Next]_vars

-----------------------------------------------------------------------------
(* Every variable holds a value of its kind.                              *)
TypeOK ==
  /\ memMax \in LimitVal /\ memHigh \in LimitVal /\ swapMax \in LimitVal
  /\ ioMax \in LimitVal
  /\ usage \in 0..MaxUsage
  /\ pc \in {"Idle", "Loop", "Bw"}
  /\ target \in Targets /\ bw \in Bandwidths
  /\ iter \in 0..IterMax
  /\ curNum \in Nat /\ curDen \in Nat \ {0}
  /\ nWrites \in Nat

(* Spec 8(3), first half: one call of set_memory_size_via_cgroup writes   *)
(* memory.max at most iter_max + 1 times, whatever the cache does with    *)
(* memory.current between the iterations of the decrease loop.            *)
WriteBound == nWrites <= IterMax + 1

(* Spec 4.6: when the next 10% step would fall below the target the loop *)
(* breaks to the final write, so no write of set_memory_size_via_cgroup, *)
(* the truncated intermediate ceilings `current_mem as u64` and the final *)
(* target alike, ever sets memory.max below the target of the call.      *)
LimitNeverBelowTarget == [][memMax' # memMax => target' <= memMax']_vars

(* Spec 4.6 and 8(3): set_memory_size_via_cgroup implements MemoryLimit: *)
(* a target at or above memory.max is written at once, and a limit above  *)
(* the target is brought down only in the decrease loop, whose writes     *)
(* only lower memory.max and never below the target, and which ends with  *)
(* the write of the target; failed writes leave memory.max as it was.     *)
ML == INSTANCE MemoryLimit WITH
        limit <- memMax, goal <- target, shrinking <- (pc = "Loop")

MemoryLimitRefined == ML!Spec

(* Spec 8(3), second half: each intermediate write of the decrease loop   *)
(* (a memory.max change that keeps the loop going) lowers memory.max, never *)
(* below the target, and by at most 10% of its value (up to the MB        *)
(* truncation of `current_mem as u64`).                                   *)
GradualStep ==
  [][(pc = "Loop" /\ pc' = "Loop" /\ memMax' # memMax) =>
        /\ target <= memMax'
        /\ memMax' <= memMax
        /\ 9 * memMax <= 10 * memMax' + 9]_vars

(* Spec 4.6: "Read memory.current. If target >= current: write once.  If  *)
(* target < current: loop ..." -- a call whose target is below the        *)
(* container's usage enters the gradual decrease loop.                    *)
ShrinkIsGradual ==
  [][(pc = "Idle" /\ pc' # "Idle" /\ target' < usage) => pc' = "Loop"]_vars

=============================================================================

---------------------------- MODULE UsageSampler ----------------------------
(***************************************************************************)
(* The measurements the local agent takes of one container and reports    *)
(* every second:                                                           *)
(*   - the perf monitor thread (init, cache_client.rs:521-534): one        *)
(*     `perf stat ... sleep 1` window per iteration, skipped when it reads  *)
(*     zero misses and zero references, else pushed into the PerfStat ring *)
(*     of PERF_HISTORY_LENGTH entries whose mean is avg_miss;              *)
(*   - the part of report_usage for the app: get_app_mem_usage may fail    *)
(*     (the app is skipped), else get_blk_bandwidth turns the io.stat      *)
(*     byte counter into a rate against the BlkUseStat snapshot, and       *)
(*     get_app_usage reads avg_miss under the perf_stat mutex.             *)
(* The environment: the cache's L3 misses per window, the device bytes     *)
(* counted in io.stat, the millisecond clock, and `docker restart`, which *)
(* recreates the cgroup at the same path with its counters at zero.        *)
(* Only rbytes is kept (wbytes is handled the same way and the larger     *)
(* rate is exported); rates are in counter units per clock unit, the      *)
(* x8 / 2^20 bits-to-Mbps conversion is left out.                          *)
(***************************************************************************)
EXTENDS Naturals, Sequences

CONSTANTS
  PerfLen,     \* PERF_HISTORY_LENGTH (16)
  MissLevels,  \* L3 misses a one-second perf window may count
  PerfFails,   \* whether a perf run may fail (reported as all zeros)
  MemFails,    \* whether the memory read of get_app_mem_usage may fail
  MaxRate,     \* most bytes the device transfers per clock unit
  MaxTime,     \* bound on the clock
  Width,       \* bit width of the u64 byte counters, scaled down
  Restarts     \* whether the container may be restarted

ASSUME SamplerAssumption ==
  /\ PerfLen \in Nat \ {0}
  /\ MissLevels \subseteq Nat /\ 0 \in MissLevels
  /\ PerfFails \in BOOLEAN /\ MemFails \in BOOLEAN /\ Restarts \in BOOLEAN
  /\ MaxRate \in Nat /\ MaxTime \in Nat /\ Width \in Nat
  /\ MaxRate * MaxTime < 2^Width

VARIABLES
  ring,        \* PerfStat.cache_misses
  avgMiss,     \* PerfStat.avg_miss
  act,         \* the container's true L3 misses per window
  idleRun,     \* consecutive monitor windows in which the container was idle
  ioBytes,     \* rbytes of the device line of io.stat
  now,         \* SystemTime in ms
  prevBytes,   \* BlkUseStat.prev_read_bytes
  prevTime,    \* BlkUseStat.prev_time
  reportedBw,  \* bw_mbps of the app's last AppUsage
  reportAlive, \* the report loop task has not panicked
  snapClean,   \* no restart since the BlkUseStat snapshot was taken
  bwClean      \* no restart within the window of the last reported rate

vars == <<ring, avgMiss, act, idleRun, ioBytes, now, prevBytes, prevTime,
          reportedBw, reportAlive, snapClean, bwClean>>

Modulus == 2^Width

(* Sum of the entries of a sequence of naturals.                          *)
SeqSum(s) ==
  LET f[i \in 0..Len(s)] == IF i = 0 THEN 0 ELSE f[i - 1] + s[i]
  IN  f[Len(s)]

MinNat(a, b) == IF a <= b THEN a ELSE b

-----------------------------------------------------------------------------
(* PerfStat::update: push_back, pop_front past PERF_HISTORY_LENGTH, then   *)
(* avg = sum / len in u64.                                                 *)
PushSample(m) ==
  LET r == IF Len(ring) + 1 > PerfLen THEN Tail(Append(ring, m))
                                      ELSE Append(ring, m)
  IN  /\ ring' = r
      /\ avgMiss' = SeqSum(r) \div Len(r)

(* What monitor_perf_via_cgroups returns for a window: the misses the     *)
(* container made, or all zeros when the cgroup path is unknown, perf     *)
(* cannot run, prints nothing, or one of the three counters fails to parse.*)
PerfWindow == IF PerfFails THEN {act, 0} ELSE {act}

(* One iteration of the monitor thread: a perf window that reads both    *)
(* counters as zero, because the container was idle or because perf or   *)
(* its parsing failed, is dropped (sleep 1 s, continue); any other        *)
(* window is pushed under the perf_stat mutex.                            *)
Monitor ==
  /\ \E m \in PerfWindow :
        IF m = 0 THEN UNCHANGED <<ring, avgMiss>> ELSE PushSample(m)
  /\ idleRun' = IF act = 0 THEN MinNat(idleRun + 1, PerfLen) ELSE 0
  /\ UNCHANGED <<act, ioBytes, now, prevBytes, prevTime, reportedBw,
                 reportAlive, snapClean, bwClean>>

(* The rate of get_blk_bandwidth from a counter value c read at time t:   *)
(* u64 subtraction from the snapshot, which wraps in a release build.     *)
Delta(c) == (c - prevBytes) % Modulus
Rate(c, t) == Delta(c) \div (t - prevTime)

(* The snapshot update with prev_read_bytes left unassigned.               *)
BlkUpdateKeepsBytes(c, t) ==
  /\ UNCHANGED prevBytes
  /\ prevTime' = t
  /\ UNCHANGED snapClean

(* get_blk_bandwidth's snapshot update.                                  *)
BlkUpdate(c, t) ==
  /\ prevBytes' = c
  /\ prevTime' = t
  /\ snapClean' = TRUE

(* Whether get_mem_usages_from_cgroup has an entry for the app: the       *)
(* cgroup path, memory.current and memory.stat must all be readable.       *)
MemRead == IF MemFails THEN {TRUE, FALSE} ELSE {TRUE}

(* get_blk_bandwidth: 0 with the state untouched when the time has not    *)
(* advanced; otherwise the rate since the snapshot, and the snapshot moves *)
(* on.  A counter below the snapshot makes `read_bytes - prev_read_bytes` *)
(* overflow: a debug build panics, ending the report task, a release      *)
(* build wraps.                                                           *)
BlkBandwidth ==
  \/ /\ now <= prevTime
     /\ reportedBw' = 0 /\ bwClean' = TRUE
     /\ UNCHANGED <<prevBytes, prevTime, reportAlive, snapClean>>
  \/ /\ now > prevTime
     /\ ioBytes < prevBytes
     /\ reportAlive' = FALSE
     /\ UNCHANGED <<prevBytes, prevTime, reportedBw, snapClean, bwClean>>
  \/ /\ now > prevTime
     /\ reportedBw' = Rate(ioBytes, now)
     /\ bwClean' = snapClean
     /\ BlkUpdate(ioBytes, now)
     /\ UNCHANGED reportAlive

(* report_usage for the app: without a memory reading the app is left out *)
(* of this report; otherwise get_app_usage measures its bandwidth (and     *)
(* reads avg_miss under the perf_stat mutex).                             *)
Report ==
  /\ reportAlive
  /\ \E ok \in MemRead :
     \/ /\ ~ok
        /\ UNCHANGED <<prevBytes, prevTime, reportedBw, reportAlive, snapClean,
                       bwClean>>
     \/ ok /\ BlkBandwidth
  /\ UNCHANGED <<ring, avgMiss, act, idleRun, ioBytes, now>>

-----------------------------------------------------------------------------
(* The clock advances one unit while the device moves up to MaxRate bytes. *)
Tick ==
  /\ now < MaxTime
  /\ now' = now + 1
  /\ \E d \in 0..MaxRate : ioBytes' = ioBytes + d
  /\ UNCHANGED <<ring, avgMiss, act, idleRun, prevBytes, prevTime,
                 reportedBw, reportAlive, snapClean, bwClean>>

(* The cache becomes busier or idle.                                      *)
Activity ==
  /\ act' \in MissLevels \ {act}
  /\ UNCHANGED <<ring, avgMiss, idleRun, ioBytes, now, prevBytes, prevTime,
                 reportedBw, reportAlive, snapClean, bwClean>>

(* docker restart: the cgroup is recreated at the same path, io.stat      *)
(* counts from zero again; the agent's cached path still points to it.    *)
Restart ==
  /\ Restarts /\ ioBytes # 0
  /\ ioBytes' = 0
  /\ snapClean' = FALSE
  /\ UNCHANGED <<ring, avgMiss, act, idleRun, now, prevBytes, prevTime,
                 reportedBw, reportAlive, bwClean>>

Init ==
  /\ ring = << >> /\ avgMiss = 0
  /\ act \in MissLevels /\ idleRun = 0
  /\ ioBytes = 0 /\ now = 0
  /\ prevBytes = 0 /\ prevTime = 0
  /\ reportedBw = 0 /\ reportAlive = TRUE
  /\ snapClean = TRUE /\ bwClean = TRUE

Next == Monitor \/ Report \/ Tick \/ Activity \/ Restart

Spec == Init /\ [][Next]_vars

-----------------------------------------------------------------------------
(* The bandwidth the agent reports for the app never exceeds what the     *)
(* device can transfer, as long as the container was not restarted within *)
(* the measured window: get_blk_bandwidth divides the bytes counted since *)
(* its last snapshot by the time since that snapshot, also when reports   *)
(* are skipped or come within the same millisecond.                       *)
BwWithinDeviceRate == bwClean => reportedBw <= MaxRate

(* Spec 4.2: avg_miss is the mean of the last PERF_HISTORY_LENGTH         *)
(* one-second windows, only failed samples being skipped: after that many *)
(* windows in which the container made no L3 miss, avg_miss is 0.         *)
AvgTracksIdle == idleRun = PerfLen => avgMiss = 0

(* Spec 7: the core never crashes due to transient measurement errors:    *)
(* the report loop keeps running whatever the container's counters do.    *)
ReportLoopSurvives == reportAlive
=============================================================================

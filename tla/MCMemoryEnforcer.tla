-------------------------- MODULE MCMemoryEnforcer --------------------------
(* Small instance of MemoryEnforcer: memory values in MB at the code's own *)
(* magnitudes, so the 10% steps and the 256 MB pressure margin both bite.  *)
EXTENDS MemoryEnforcer

MCTargets == {0, 300, 650, 1000}
MCInitLimits == {1000}
MCInitSwaps == {40960}
MCUsageLevels == {0, 250, 700}

(* Smaller sets for the run in which cgroup writes and reads may fail.   *)
MCFailTargets == {300, 650, 1000}
MCFailUsageLevels == {0, 700}
=============================================================================

----------------------------- MODULE MemoryLimit -----------------------------
(***************************************************************************)
(* What set_memory_size_via_cgroup (cache_client.rs:283) promises about a *)
(* container's memory.max, with the loop, the sleeps, memory.high and the *)
(* swap ceiling left out.  A call either sets a target at or above the    *)
(* limit at once, or, when the target is below a numeric limit, enters a  *)
(* shrink phase in which the limit only goes down and never below the     *)
(* target, and which ends by writing the target.  A cgroup write may fail *)
(* (CanFail) and then leaves the limit as it was.  MemoryEnforcer         *)
(* implements it.                                                          *)
(***************************************************************************)
EXTENDS Naturals

CONSTANTS
  Unlimited,   \* the content "max": no limit
  Targets,     \* the targets a call may carry (MB)
  InitLimits,  \* numeric memory.max values at start (MB)
  CanFail      \* whether a cgroup write may fail

VARIABLES
  limit,       \* memory.max
  goal,        \* target_mem_mb of the current or last call
  shrinking    \* a call is in its shrink phase

vars == <<limit, goal, shrinking>>

Init ==
  /\ limit \in InitLimits \cup {Unlimited}
  /\ goal \in Targets
  /\ shrinking = FALSE

(* One write of memory.max to m, which may fail.                          *)
Write(m) == limit' = m \/ (CanFail /\ UNCHANGED limit)

(* A call whose target is not below the limit ("max" reads as no number) *)
(* writes the target at once.                                             *)
SetAtOnce(t) ==
  /\ ~shrinking
  /\ (limit = Unlimited \/ limit <= t)
  /\ goal' = t
  /\ Write(t)
  /\ UNCHANGED shrinking

(* A call whose target is below a numeric limit starts shrinking.        *)
BeginShrink(t) ==
  /\ ~shrinking
  /\ limit \in Nat /\ t < limit
  /\ goal' = t /\ shrinking' = TRUE
  /\ UNCHANGED limit

(* An intermediate ceiling: down, and not below the target.              *)
Lower ==
  /\ shrinking
  /\ limit \in Nat
  /\ limit' \in goal..limit
  /\ UNCHANGED <<goal, shrinking>>

(* The shrink phase ends with the write of the target.                   *)
Settle ==
  /\ shrinking
  /\ Write(goal)
  /\ shrinking' = FALSE
  /\ UNCHANGED goal

Next ==
  \/ \E t \in Targets : SetAtOnce(t) \/ BeginShrink(t)
  \/ Lower
  \/ Settle

Spec == Init /\ [][Next]_vars
=============================================================================

-------------------------- MODULE PropagationSums --------------------------
(***************************************************************************)
(* The property of config propagation that adds up allocations over the  *)
(* posts of a call.  It uses the folds of FiniteSetsExt, so it is kept    *)
(* apart from ConfigPropagation, whose invariants are proved.             *)
(***************************************************************************)
EXTENDS ConfigPropagation, FiniteSetsExt

(* The posts call k spawned for app a, and the sum of axis i over them.   *)
PostsFor(k, a) == {m \in sent : m.call = k /\ a \in DOMAIN m.alloc}
PostedSum(k, a, i) == MapThenSumSet(LAMBDA m : m.alloc[a][i], PostsFor(k, a))

(* Spec 8(2): for every accepted config whose fan-out did not panic and   *)
(* every app placed on n VMs, the per-VM allocations the coordinator posts *)
(* add up to n * (x / n) on both the memory and the bandwidth axis, so at  *)
(* most n - 1 MB (Mbps) of the operator's allocation is never handed to   *)
(* any agent.                                                             *)
SplitConservation ==
  \A k \in 1..Len(accepted) :
   DOMAIN SplitGlobalAllocation(accepted[k]) \subseteq IpMapped =>
   \A a \in DOMAIN accepted[k] :
    LET n == Len(Placement[a]) IN
    \A i \in 1..2 :
      /\ PostedSum(k, a, i) = n * (accepted[k][a][i] \div n)
      /\ accepted[k][a][i] - PostedSum(k, a, i) \in 0..(n - 1)
=============================================================================

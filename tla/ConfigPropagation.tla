------------------------- MODULE ConfigPropagation -------------------------
(***************************************************************************)
(* How a global allocation reaches the local agents.  The coordinator's   *)
(* POST /config handler (global-enforcer main.rs `config`) takes the       *)
(* GlobalAllocation mutex, splits the new AllocationMap per VM             *)
(* (split_global_allocation), stores it as cur_config and hands every     *)
(* per-VM config to send_config, which spawns a `curl` child and returns  *)
(* without waiting for it.  The posts are therefore independent           *)
(* processes: they reach the agents in any order, and a failed curl is    *)
(* never retried.  An agent's POST /config handler (local-enforcer        *)
(* main.rs `config`) takes the CacheClient mutex and runs update_config,  *)
(* which inserts every received (mem, bw) pair into its cur_config; the   *)
(* cgroup writes it also makes are the subject of MemoryEnforcer.         *)
(*                                                                         *)
(* An allocation map is a function from a set of apps to <<mem, bw>>.     *)
(***************************************************************************)
EXTENDS Naturals, Sequences, FiniteSets

CONSTANTS
  Vms,        \* VmId values
  Apps,       \* AppId values
  Placement,  \* placement_map: AppId -> non-empty sequence of VmId
  IpMapped,   \* the VMs that have an entry in vm_ip_map
  Configs,    \* the global AllocationMaps an operator may post
  MaxCalls,   \* bound on the number of POST /config calls to the coordinator
  Lossy,      \* whether a spawned curl may fail (TransportError)
  ApplyPanics \* whether update_swap_bandwidth's io.max expect may panic

ASSUME PropagationAssumption ==
  /\ Placement \in [Apps -> Seq(Vms)]
  /\ \A a \in Apps : Len(Placement[a]) > 0
  /\ IpMapped \subseteq Vms
  /\ \A c \in Configs : DOMAIN c \subseteq Apps
                        /\ \A a \in DOMAIN c : c[a] \in Nat \X Nat
  /\ MaxCalls \in Nat
  /\ Lossy \in BOOLEAN
  /\ ApplyPanics \in BOOLEAN

VARIABLES
  coordCfg,   \* GlobalAllocation.cur_config.allocation_map
  accepted,   \* history: the configs the coordinator accepted, in order
  sent,       \* history: every post spawned so far
  net,        \* the posts whose curl has not finished yet
  agentCfg    \* agentCfg[v]: cur_config.allocation_map of the agent on v

vars == <<coordCfg, accepted, sent, net, agentCfg>>

EmptyMap == [a \in {} |-> <<0, 0>>]

(* The VMs an app is placed on, and the apps of a config placed on a VM.  *)
HostsOf(a) == {Placement[a][i] : i \in 1..Len(Placement[a])}
AppsOn(cfg, v) == {a \in DOMAIN cfg : v \in HostsOf(a)}
VmsOf(cfg) == UNION {HostsOf(a) : a \in DOMAIN cfg}

(* split_global_allocation with the residual given to the first VM listed *)
(* (the rule spec 4.9 describes, not the code's).                         *)
SplitAbsorbResidual(cfg) ==
  [v \in VmsOf(cfg) |->
     [a \in AppsOn(cfg, v) |->
        LET n == Len(Placement[a])
            first == v = Placement[a][1]
        IN  <<cfg[a][1] \div n + (IF first THEN cfg[a][1] % n ELSE 0),
              cfg[a][2] \div n + (IF first THEN cfg[a][2] % n ELSE 0)>>]]

(* split_global_allocation building each per-VM config from cfg.clone() *)
(* without clearing its allocation_map: every VM also receives the whole *)
(* allocation of the apps it does not host.                              *)
SplitFullCopy(cfg) ==
  [v \in VmsOf(cfg) |->
     [a \in DOMAIN cfg |->
        IF v \in HostsOf(a)
        THEN <<cfg[a][1] \div Len(Placement[a]), cfg[a][2] \div Len(Placement[a])>>
        ELSE cfg[a]]]

(* split_global_allocation: each app's mem and bw divided (u64 division)  *)
(* by the length of its placement vector; one per-VM map for every VM     *)
(* that hosts an app of the config, holding only those apps.              *)
SplitGlobalAllocation(cfg) ==
  [v \in VmsOf(cfg) |->
     [a \in AppsOn(cfg, v) |->
        <<cfg[a][1] \div Len(Placement[a]), cfg[a][2] \div Len(Placement[a])>>]]

(* Posts of call k of the per-VM maps `local` to the VMs of S.            *)
Posts(local, S, k) == {[to |-> v, alloc |-> local[v], call |-> k] : v \in S}

(* The coordinator's POST /config: split, store cur_config, then one      *)
(* send_config per VM.  vm_ip_map.get(..).unwrap() panics on a VM without *)
(* an IP; the loop visits the HashMap in an arbitrary order, so the posts *)
(* spawned before the panic go to any subset of the other VMs.            *)
CoordConfig(c) ==
  LET local == SplitGlobalAllocation(c)
      k == Len(accepted) + 1
  IN
  /\ Len(accepted) < MaxCalls
  /\ coordCfg' = c
  /\ accepted' = Append(accepted, c)
  /\ \/ /\ DOMAIN local \subseteq IpMapped
        /\ net' = net \cup Posts(local, DOMAIN local, k)
        /\ sent' = sent \cup Posts(local, DOMAIN local, k)
     \/ /\ ~(DOMAIN local \subseteq IpMapped)
        /\ \E S \in SUBSET (DOMAIN local \cap IpMapped) :
              /\ net' = net \cup Posts(local, S, k)
              /\ sent' = sent \cup Posts(local, S, k)
  /\ UNCHANGED agentCfg

(* update_config assigning the received map to cur_config instead of    *)
(* inserting it: the apps the post does not name are forgotten.           *)
ReplaceConfig(cur, alloc) == alloc

(* update_config's loop: allocation_map.insert for each received app, so  *)
(* the apps the post does not name keep their entries.                    *)
UpdateConfig(cur, alloc) ==
  [a \in DOMAIN alloc \cup DOMAIN cur |->
     IF a \in DOMAIN alloc THEN alloc[a] ELSE cur[a]]

(* The apps of a received map update_config has inserted when it ends.  *)
(* Each loop pass inserts an app, then writes its memory limit and its   *)
(* io.max; opening or writing io.max panics (expect at 270, 278) when the *)
(* cgroup path is stale, and the handler ends there with the write guard  *)
(* released and the apps visited so far, the panicking one included,      *)
(* inserted: in HashMap order, any non-empty subset.                      *)
Applied(alloc) ==
  {DOMAIN alloc} \cup
  (IF ApplyPanics THEN (SUBSET DOMAIN alloc) \ {{}} ELSE {})

(* The agent's POST /config: update_config on the received map, run to   *)
(* its end or to a panic in its loop.                                     *)
AgentConfig(m) ==
  /\ m \in net
  /\ net' = net \ {m}
  /\ \E S \in Applied(m.alloc) :
       agentCfg' = [agentCfg EXCEPT ![m.to] =
                      UpdateConfig(@, [a \in S |-> m.alloc[a]])]
  /\ UNCHANGED <<coordCfg, accepted, sent>>

(* A spawned curl fails (agent unreachable): logged nowhere, not retried. *)
LosePost(m) ==
  /\ Lossy
  /\ m \in net
  /\ net' = net \ {m}
  /\ UNCHANGED <<coordCfg, accepted, sent, agentCfg>>

Init ==
  /\ coordCfg = EmptyMap
  /\ accepted = << >>
  /\ sent = {} /\ net = {}
  /\ agentCfg = [v \in Vms |-> EmptyMap]

Next ==
  \/ \E c \in Configs : CoordConfig(c)
  \/ \E m \in net : AgentConfig(m) \/ LosePost(m)

Spec == Init /\ [][Next]_vars

-----------------------------------------------------------------------------
(* Every allocation an agent holds is for an app placed on its VM, and is *)
(* that app's share, mem / n and bw / n for a placement on n VMs, in some *)
(* config the coordinator accepted: posts lost, reordered or cut short by *)
(* a vm_ip_map panic never give an agent an app it does not host or an    *)
(* amount split_global_allocation did not compute.                        *)
HeldSharesAreSplits ==
  \A v \in Vms : \A a \in DOMAIN agentCfg[v] :
    /\ v \in HostsOf(a)
    /\ \E k \in 1..Len(accepted) :
         /\ a \in DOMAIN accepted[k]
         /\ agentCfg[v][a] = <<accepted[k][a][1] \div Len(Placement[a]),
                               accepted[k][a][2] \div Len(Placement[a])>>

(* Config propagation implements AllocationDelivery: an agent's map      *)
(* changes only by inserting, once, entries of the map                    *)
(* split_global_allocation made for its VM from one accepted config (all *)
(* of them, or those update_config reached before an io.max panic), in    *)
(* any order and with any post lost; only VMs with a vm_ip_map entry are  *)
(* sent anything.  The ended deliveries are the posts sent and no longer  *)
(* in flight.                                                              *)
AD == INSTANCE AllocationDelivery WITH
        current <- coordCfg, history <- accepted, held <- agentCfg,
        done <- {<<p.to, p.call>> : p \in sent \ net},
        Split <- SplitGlobalAllocation, Partial <- ApplyPanics

DeliveryRefined == AD!Spec

(* Config updates are "serialized through a mutex on the current          *)
(* AllocationMap" (spec 5): once no post is in flight, every agent holds, *)
(* for each app it hosts, its share of the coordinator's latest config.   *)
QuiescentAgreement ==
  net = {} =>
    \A v \in VmsOf(coordCfg) : \A a \in AppsOn(coordCfg, v) :
      /\ a \in DOMAIN agentCfg[v]
      /\ agentCfg[v][a] = SplitGlobalAllocation(coordCfg)[v][a]

=============================================================================

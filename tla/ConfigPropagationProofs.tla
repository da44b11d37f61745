---------------------- MODULE ConfigPropagationProofs ----------------------
(***************************************************************************)
(* Proof that every allocation an agent holds is its VM's share of an     *)
(* app in a config the coordinator accepted (HeldSharesAreSplits), for    *)
(* all VMs, apps, placements, configs and call bounds that satisfy        *)
(* PropagationAssumption, with lost, reordered and panicked posts.        *)
(*                                                                         *)
(* The argument: each post the coordinator spawns carries                 *)
(* split_global_allocation of the config of its call for the VM it goes   *)
(* to, and the history of accepted configs only grows at its end, so a   *)
(* post keeps naming its config; update_config inserts exactly the        *)
(* received pairs and keeps the others.                                    *)
(*                                                                         *)
(* Then the refinement of AllocationDelivery.  It rests on DelivInv:      *)
(* every sent post is the only post of its (VM, call) and carries exactly *)
(* the part split_global_allocation made for that VM from the config of   *)
(* its call, to a VM with a vm_ip_map entry.  A post in flight therefore  *)
(* names a delivery that has not ended, and ending it adds just that one. *)
(***************************************************************************)
EXTENDS ConfigPropagation, TLAPS

(* The share of app a in config c: u64 division by its placement length. *)
ShareOf(c, a) ==
  <<c[a][1] \div Len(Placement[a]), c[a][2] \div Len(Placement[a])>>

(* Post p carries, for each app it names, the share of the config of its *)
(* call, and the app is placed on the VM it goes to.                     *)
PostIsSplit(p) ==
  /\ p.call \in 1..Len(accepted)
  /\ p.to \in Vms
  /\ \A a \in DOMAIN p.alloc :
       /\ a \in DOMAIN accepted[p.call]
       /\ p.to \in HostsOf(a)
       /\ p.alloc[a] = ShareOf(accepted[p.call], a)

(* The types of the variables the property depends on.                   *)
PropType ==
  /\ accepted \in Seq(Configs)
  /\ DOMAIN agentCfg = Vms
  /\ agentCfg = [v \in Vms |-> agentCfg[v]]

(* The inductive strengthening of HeldSharesAreSplits, checked by TLC as *)
(* an invariant of the propagation model before it was proved.           *)
PropInv ==
  /\ PropType
  /\ net \subseteq sent
  /\ \A p \in sent : PostIsSplit(p)
  /\ HeldSharesAreSplits

-----------------------------------------------------------------------------
(* An app's hosts are VMs.                                                *)
LEMMA HostsAreVms ==
  ASSUME NEW a \in Apps PROVE HostsOf(a) \subseteq Vms
  BY PropagationAssumption DEF HostsOf

(* The posts of one call carry the split of its config.                  *)
LEMMA PostsAreSplits ==
  ASSUME NEW c \in Configs, NEW S \in SUBSET VmsOf(c), NEW k,
         NEW p \in Posts(SplitGlobalAllocation(c), S, k)
  PROVE  /\ p.call = k /\ p.to \in Vms
         /\ \A a \in DOMAIN p.alloc :
              /\ a \in DOMAIN c /\ p.to \in HostsOf(a)
              /\ p.alloc[a] = ShareOf(c, a)
<1>1. PICK v \in S : p = [to |-> v, alloc |-> SplitGlobalAllocation(c)[v],
                          call |-> k]
  BY DEF Posts
<1>2. p.alloc = [a \in AppsOn(c, v) |-> ShareOf(c, a)]
  BY <1>1 DEF SplitGlobalAllocation, ShareOf
<1>3. v \in Vms
  <2>1. PICK a \in DOMAIN c : v \in HostsOf(a)
    BY <1>1 DEF VmsOf
  <2>2. a \in Apps
    BY PropagationAssumption
  <2>3. QED
    BY <2>1, <2>2, HostsAreVms
<1>4. QED
  BY <1>1, <1>2, <1>3 DEF AppsOn

(* The initial state satisfies the inductive invariant.                  *)
LEMMA InitPropInv == Init => PropInv
  BY DEF Init, PropInv, PropType, HeldSharesAreSplits, EmptyMap

(* The coordinator's /config keeps the inductive invariant, whichever     *)
(* subset of the posts it spawns before a vm_ip_map panic.               *)
LEMMA CoordConfigKeeps ==
  ASSUME PropInv, NEW c \in Configs, CoordConfig(c) PROVE PropInv'
<1> DEFINE local == SplitGlobalAllocation(c)
           k == Len(accepted) + 1
<1>1. PICK S \in SUBSET VmsOf(c) :
        /\ net' = net \cup Posts(local, S, k)
        /\ sent' = sent \cup Posts(local, S, k)
  BY DEF CoordConfig, SplitGlobalAllocation
<1>2. /\ accepted' = Append(accepted, c) /\ accepted' \in Seq(Configs)
      /\ Len(accepted') = k /\ accepted'[k] = c
      /\ \A j \in 1..Len(accepted) : accepted'[j] = accepted[j]
  BY DEF CoordConfig, PropInv, PropType
<1>3. UNCHANGED agentCfg
  BY DEF CoordConfig
<1>4. ASSUME NEW p \in sent' PROVE PostIsSplit(p)'
  <2>1. CASE p \in sent
    BY <2>1, <1>2 DEF PropInv, PostIsSplit
  <2>2. CASE p \in Posts(local, S, k)
    <3>1. /\ p.call = k /\ p.to \in Vms
          /\ \A a \in DOMAIN p.alloc :
               /\ a \in DOMAIN c /\ p.to \in HostsOf(a)
               /\ p.alloc[a] = ShareOf(c, a)
      <4>1. PICK n : n = k
        OBVIOUS
      <4>2. p \in Posts(SplitGlobalAllocation(c), S, n)
        BY <2>2, <4>1 DEF local
      <4>3. /\ p.call = n /\ p.to \in Vms
            /\ \A a \in DOMAIN p.alloc :
                 /\ a \in DOMAIN c /\ p.to \in HostsOf(a)
                 /\ p.alloc[a] = ShareOf(c, a)
        BY <1>1, <4>2, PostsAreSplits
      <4>4. QED
        BY <4>1, <4>3
    <3>2. k \in 1..Len(accepted')
      BY <1>2 DEF PropInv, PropType
    <3>3. QED
      BY <1>2, <3>1, <3>2 DEF PostIsSplit
  <2>3. QED
    BY <1>1, <2>1, <2>2
<1>5. HeldSharesAreSplits'
  BY <1>2, <1>3 DEF PropInv, HeldSharesAreSplits
<1>6. QED
  BY <1>1, <1>2, <1>3, <1>4, <1>5 DEF PropInv, PropType

(* An agent's update_config keeps the inductive invariant: a received    *)
(* app it reaches gets the post's share, the others are kept.            *)
LEMMA AgentConfigKeeps ==
  ASSUME PropInv, NEW m \in net, AgentConfig(m) PROVE PropInv'
<1> DEFINE v == m.to
<1>1. PostIsSplit(m)
  BY DEF PropInv
<1>2. PICK S \in Applied(m.alloc) :
        agentCfg' = [agentCfg EXCEPT ![v] =
                       UpdateConfig(agentCfg[v], [a \in S |-> m.alloc[a]])]
  BY DEF AgentConfig
<1>3. S \subseteq DOMAIN m.alloc
  BY DEF Applied
<1> DEFINE new == [a \in S \cup DOMAIN agentCfg[v] |->
                     IF a \in S THEN m.alloc[a] ELSE agentCfg[v][a]]
<1>4. agentCfg' = [agentCfg EXCEPT ![v] = new]
  BY <1>2 DEF UpdateConfig
<1>5. UNCHANGED <<accepted, sent>> /\ net' = net \ {m}
  BY DEF AgentConfig
<1>6. v \in Vms
  BY <1>1 DEF PostIsSplit
<1>7. ASSUME NEW w \in Vms, NEW a \in DOMAIN agentCfg'[w]
      PROVE  /\ w \in HostsOf(a)
             /\ \E j \in 1..Len(accepted') :
                  /\ a \in DOMAIN accepted'[j]
                  /\ agentCfg'[w][a] = ShareOf(accepted'[j], a)
  <2>1. CASE w = v /\ a \in S
    BY <1>1, <1>3, <1>4, <1>5, <2>1 DEF PostIsSplit, PropInv, PropType
  <2>2. CASE ~(w = v /\ a \in S)
    <3>1. a \in DOMAIN agentCfg[w] /\ agentCfg'[w][a] = agentCfg[w][a]
      BY <1>4, <1>6, <2>2 DEF PropInv, PropType
    <3>2. QED
      BY <3>1, <1>5 DEF PropInv, HeldSharesAreSplits, ShareOf
  <2>3. QED
    BY <2>1, <2>2
<1>8. PropType'
  BY <1>4, <1>5, <1>6 DEF PropInv, PropType
<1>9. QED
  BY <1>5, <1>7, <1>8 DEF PropInv, HeldSharesAreSplits, ShareOf, PostIsSplit

(* Every step keeps the inductive invariant.                             *)
LEMMA PropInvInductive == PropInv /\ [Next]_vars => PropInv'
<1> SUFFICES ASSUME PropInv, [Next]_vars PROVE PropInv'
  OBVIOUS
<1>1. ASSUME NEW c \in Configs, CoordConfig(c) PROVE PropInv'
  BY <1>1, CoordConfigKeeps
<1>2. ASSUME NEW m \in net, AgentConfig(m) PROVE PropInv'
  BY <1>2, AgentConfigKeeps
<1>3. ASSUME NEW m \in net, LosePost(m) PROVE PropInv'
  BY <1>3 DEF LosePost, PropInv, PropType, PostIsSplit, HeldSharesAreSplits
<1>4. CASE UNCHANGED vars
  BY <1>4 DEF vars, PropInv, PropType, PostIsSplit, HeldSharesAreSplits
<1>5. QED
  BY <1>1, <1>2, <1>3, <1>4 DEF Next

(* split_global_allocation, send_config's posts and update_config's      *)
(* inserts give every agent, in every behaviour and for all placements   *)
(* and configs, only apps placed on its VM, each with the share of some  *)
(* accepted config.                                                      *)
THEOREM HeldSharesAreSplitsHolds == Spec => []HeldSharesAreSplits
<1>1. Init => PropInv
  BY InitPropInv
<1>2. PropInv /\ [Next]_vars => PropInv'
  BY PropInvInductive
<1>3. PropInv => HeldSharesAreSplits
  BY DEF PropInv
<1>4. QED
  BY <1>1, <1>2, <1>3, PTL DEF Spec
-----------------------------------------------------------------------------
(* The deliveries that ended: posts sent and no longer in flight.         *)
Ended == {<<p.to, p.call>> : p \in sent \ net}

(* Post p is the post of call p.call to p.to: it carries exactly the map *)
(* split_global_allocation made for p.to from the config of its call,    *)
(* and p.to has a vm_ip_map entry.                                        *)
PostIsPart(p) ==
  /\ p = [to |-> p.to, alloc |-> p.alloc, call |-> p.call]
  /\ p.call \in 1..Len(accepted)
  /\ p.to \in DOMAIN SplitGlobalAllocation(accepted[p.call]) \cap IpMapped
  /\ p.alloc = SplitGlobalAllocation(accepted[p.call])[p.to]

(* The invariant the refinement of AllocationDelivery rests on, checked  *)
(* by TLC as an invariant of the propagation model before it was proved. *)
DelivInv ==
  /\ accepted \in Seq(Configs)
  /\ net \subseteq sent
  /\ \A p \in sent : PostIsPart(p)

(* The coordinator's /config spawns the posts of its call to VMs of the  *)
(* split that have a vm_ip_map entry, in both of its branches.           *)
LEMMA CoordPosts ==
  ASSUME NEW c \in Configs, CoordConfig(c)
  PROVE  \E S \in SUBSET (DOMAIN SplitGlobalAllocation(c) \cap IpMapped) :
           /\ net' = net \cup Posts(SplitGlobalAllocation(c), S, Len(accepted) + 1)
           /\ sent' = sent \cup Posts(SplitGlobalAllocation(c), S, Len(accepted) + 1)
BY DEF CoordConfig

(* A new post of call k = Len(accepted) + 1 is the part of its VM.        *)
LEMMA NewPostIsPart ==
  ASSUME DelivInv, NEW c \in Configs, CoordConfig(c),
         NEW S \in SUBSET (DOMAIN SplitGlobalAllocation(c) \cap IpMapped),
         NEW p \in Posts(SplitGlobalAllocation(c), S, Len(accepted) + 1)
  PROVE  PostIsPart(p)'
<1>1. /\ accepted' = Append(accepted, c) /\ accepted' \in Seq(Configs)
      /\ Len(accepted') = Len(accepted) + 1
      /\ accepted'[Len(accepted) + 1] = c
  BY DEF CoordConfig, DelivInv
<1>2. PICK v \in S : p = [to |-> v, alloc |-> SplitGlobalAllocation(c)[v],
                          call |-> Len(accepted) + 1]
  BY DEF Posts
<1>3. QED
  BY <1>1, <1>2 DEF PostIsPart

(* The initial state satisfies DelivInv.                                  *)
LEMMA InitDelivInv == Init => DelivInv
  BY DEF Init, DelivInv

(* Every step keeps DelivInv.                                             *)
LEMMA DelivInvInductive == DelivInv /\ [Next]_vars => DelivInv'
<1> SUFFICES ASSUME DelivInv, [Next]_vars PROVE DelivInv'
  OBVIOUS
<1>1. ASSUME NEW c \in Configs, CoordConfig(c) PROVE DelivInv'
  <2>1. PICK S \in SUBSET (DOMAIN SplitGlobalAllocation(c) \cap IpMapped) :
          /\ net' = net \cup Posts(SplitGlobalAllocation(c), S, Len(accepted) + 1)
          /\ sent' = sent \cup Posts(SplitGlobalAllocation(c), S, Len(accepted) + 1)
    BY <1>1, CoordPosts
  <2>2. /\ accepted' = Append(accepted, c) /\ accepted' \in Seq(Configs)
        /\ \A j \in 1..Len(accepted) : accepted'[j] = accepted[j]
    BY <1>1 DEF CoordConfig, DelivInv
  <2>3. ASSUME NEW p \in sent PROVE PostIsPart(p)'
    BY <2>2 DEF DelivInv, PostIsPart
  <2>4. ASSUME NEW p \in Posts(SplitGlobalAllocation(c), S, Len(accepted) + 1)
        PROVE  PostIsPart(p)'
    BY <1>1, <2>4, NewPostIsPart
  <2>5. QED
    BY <2>1, <2>2, <2>3, <2>4 DEF DelivInv
<1>2. ASSUME NEW m \in net, AgentConfig(m) PROVE DelivInv'
  BY <1>2 DEF AgentConfig, DelivInv, PostIsPart
<1>3. ASSUME NEW m \in net, LosePost(m) PROVE DelivInv'
  BY <1>3 DEF LosePost, DelivInv, PostIsPart
<1>4. CASE UNCHANGED vars
  BY <1>4 DEF vars, DelivInv, PostIsPart
<1>5. QED
  BY <1>1, <1>2, <1>3, <1>4 DEF Next

(* Two sent posts with the same VM and call are the same post.            *)
LEMMA OnePostPerPart ==
  ASSUME DelivInv, NEW p \in sent, NEW q \in sent,
         p.to = q.to, p.call = q.call
  PROVE  p = q
<1>1. PostIsPart(p) /\ PostIsPart(q)
  BY DEF DelivInv
<1>2. p.alloc = q.alloc
  BY <1>1 DEF PostIsPart
<1>3. QED
  BY <1>1, <1>2 DEF PostIsPart

(* A post in flight names a delivery that has not ended.                  *)
LEMMA InFlightPending ==
  ASSUME DelivInv, NEW m \in net
  PROVE  /\ m.to \in Vms /\ m.call \in 1..Len(accepted)
         /\ AD!Pending(m.to, m.call)
         /\ m.alloc = SplitGlobalAllocation(accepted[m.call])[m.to]
<1>1. m \in sent /\ PostIsPart(m)
  BY DEF DelivInv
<1>2. <<m.to, m.call>> \notin Ended
  <2> SUFFICES ASSUME NEW p \in sent \ net, <<p.to, p.call>> = <<m.to, m.call>>
               PROVE  FALSE
    BY DEF Ended
  <2>1. p = m
    BY <1>1, OnePostPerPart
  <2>2. QED
    BY <2>1
<1>3. QED
  BY <1>1, <1>2, PropagationAssumption DEF PostIsPart, AD!Pending, Ended

(* A post that ends turns its delivery from pending to ended.             *)
LEMMA EndPost ==
  ASSUME DelivInv, NEW m \in net, net' = net \ {m}, sent' = sent
  PROVE  Ended' = Ended \cup {<<m.to, m.call>>}
<1>1. sent' \ net' = (sent \ net) \cup {m}
  BY DEF DelivInv
<1>2. QED
  BY <1>1 DEF Ended

(* Every step of the propagation is an AllocationDelivery step or leaves *)
(* its variables as they were.                                            *)
LEMMA DeliveryStep == DelivInv /\ [Next]_vars => [AD!Next]_AD!vars
<1> SUFFICES ASSUME DelivInv, [Next]_vars PROVE [AD!Next]_AD!vars
  OBVIOUS
<1>1. ASSUME NEW c \in Configs, CoordConfig(c) PROVE AD!Accept(c)
  <2>1. PICK S \in SUBSET (DOMAIN SplitGlobalAllocation(c) \cap IpMapped) :
          /\ net' = net \cup Posts(SplitGlobalAllocation(c), S, Len(accepted) + 1)
          /\ sent' = sent \cup Posts(SplitGlobalAllocation(c), S, Len(accepted) + 1)
    BY <1>1, CoordPosts
  <2>2. \A p \in Posts(SplitGlobalAllocation(c), S, Len(accepted) + 1) :
          p \notin sent
    BY DEF Posts, DelivInv, PostIsPart
  <2>3. sent' \ net' = sent \ net
    BY <2>1, <2>2
  <2>4. Ended' = Ended
    BY <2>3 DEF Ended
  <2>5. QED
    BY <1>1, <2>4 DEF CoordConfig, AD!Accept, Ended
<1>2. ASSUME NEW m \in net, AgentConfig(m) PROVE AD!Apply(m.to, m.call)
  <2> DEFINE part == SplitGlobalAllocation(accepted[m.call])[m.to]
  <2>1. AD!Pending(m.to, m.call) /\ m.alloc = part
    BY InFlightPending
  <2>2. Ended' = Ended \cup {<<m.to, m.call>>}
    BY <1>2, EndPost DEF AgentConfig
  <2>3. PICK S \in Applied(m.alloc) :
          agentCfg' = [agentCfg EXCEPT ![m.to] =
                         UpdateConfig(agentCfg[m.to], [a \in S |-> m.alloc[a]])]
    BY <1>2 DEF AgentConfig
  <2>4. UNCHANGED <<coordCfg, accepted>>
    BY <1>2 DEF AgentConfig
  <2>5. CASE S = DOMAIN part
    <3>1. agentCfg' = [agentCfg EXCEPT ![m.to] = AD!Insert(@, part)]
      BY <2>1, <2>3, <2>5 DEF UpdateConfig, AD!Insert
    <3>2. part \in AD!Parts(part)
      BY DEF AD!Parts
    <3>3. QED
      BY <2>1, <2>2, <2>4, <3>1, <3>2 DEF AD!Apply, Ended
  <2>6. CASE S # DOMAIN part
    <3>1. ApplyPanics /\ S \in (SUBSET DOMAIN part) \ {{}}
      BY <2>1, <2>3, <2>6 DEF Applied
    <3>2. [a \in S |-> part[a]] \in AD!Parts(part)
      BY <3>1 DEF AD!Parts
    <3>3. agentCfg' = [agentCfg EXCEPT ![m.to] =
                         AD!Insert(@, [a \in S |-> part[a]])]
      BY <2>1, <2>3 DEF UpdateConfig, AD!Insert
    <3>4. QED
      BY <2>1, <2>2, <2>4, <3>2, <3>3 DEF AD!Apply, Ended
  <2>7. QED
    BY <2>5, <2>6
<1>3. ASSUME NEW m \in net, LosePost(m) PROVE AD!Drop(m.to, m.call)
  <2>1. AD!Pending(m.to, m.call)
    BY InFlightPending
  <2>2. Ended' = Ended \cup {<<m.to, m.call>>}
    BY <1>3, EndPost DEF LosePost
  <2>3. QED
    BY <1>3, <2>1, <2>2 DEF LosePost, AD!Drop, Ended
<1>4. CASE UNCHANGED vars
  BY <1>4 DEF vars, AD!vars
<1>5. QED
  <2>1. ASSUME NEW m \in net PROVE m.to \in Vms /\ m.call \in 1..Len(accepted)
    BY InFlightPending
  <2>2. QED
    BY <1>1, <1>2, <1>3, <1>4, <2>1 DEF Next, AD!Next

(* Config propagation implements AllocationDelivery for all VMs, apps,    *)
(* placements, configs and vm_ip_map entries: update_config inserts the  *)
(* part split_global_allocation made for its VM from one accepted config, *)
(* whole or, when io.max panics in its loop, the apps it reached; each    *)
(* post at most once, in any order or not at all, and no post goes to a   *)
(* VM without a vm_ip_map entry.                                          *)
THEOREM RefinesAllocationDelivery == Spec => DeliveryRefined
<1>1. Init => AD!Init
  BY DEF Init, AD!Init, EmptyMap, AD!NoAllocation, Ended
<1>2. Init => DelivInv
  BY InitDelivInv
<1>3. DelivInv /\ [Next]_vars => DelivInv'
  BY DelivInvInductive
<1>4. DelivInv /\ [Next]_vars => [AD!Next]_AD!vars
  BY DeliveryStep
<1>5. QED
  BY <1>1, <1>2, <1>3, <1>4, PTL DEF Spec, DeliveryRefined, AD!Spec
=============================================================================

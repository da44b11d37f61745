-------------------------- MODULE AllocationDelivery --------------------------
(***************************************************************************)
(* What config propagation promises the agents, with the curl processes   *)
(* left out.  The coordinator accepts global allocations one after the    *)
(* other and keeps the latest.  Each accepted allocation is split into    *)
(* per-VM maps (Split); an agent's map changes only by inserting the      *)
(* map meant for its VM in one accepted allocation, keeping the apps that *)
(* map does not name; when an application may fail midway (Partial), only *)
(* a non-empty part of that map may be inserted.  Each (VM, allocation) delivery happens   *)
(* at most once, in any order relative to the others, or is lost, and    *)
(* only VMs with an address are ever sent anything.  ConfigPropagation   *)
(* implements it.                                                          *)
(***************************************************************************)
EXTENDS Naturals, Sequences

CONSTANTS
  Vms,        \* the agents
  IpMapped,   \* the agents with an address
  Configs,    \* the global allocations an operator may post
  MaxCalls,   \* bound on the allocations accepted
  Lossy,      \* whether a delivery may be lost
  Partial,    \* whether an application may stop after some entries
  Split(_)    \* a global allocation's per-VM maps, a function of VMs

VARIABLES
  current,    \* the coordinator's latest allocation
  history,    \* the allocations accepted, in order
  held,       \* held[v]: the allocation map of the agent on v
  done        \* the (VM, index in history) deliveries that ended

vars == <<current, history, held, done>>

NoAllocation == [a \in {} |-> <<0, 0>>]

(* The received map's entries replace the held ones; others are kept.    *)
Insert(old, new) ==
  [a \in DOMAIN new \cup DOMAIN old |->
     IF a \in DOMAIN new THEN new[a] ELSE old[a]]

Init ==
  /\ current = NoAllocation /\ history = << >>
  /\ held = [v \in Vms |-> NoAllocation]
  /\ done = {}

(* The coordinator accepts allocation c.                                  *)
Accept(c) ==
  /\ Len(history) < MaxCalls
  /\ current' = c /\ history' = Append(history, c)
  /\ UNCHANGED <<held, done>>

(* Delivery k to v can end: v is meant a map of it, has an address, and   *)
(* it has not ended before.                                               *)
Pending(v, k) ==
  /\ v \in DOMAIN Split(history[k]) \cap IpMapped
  /\ <<v, k>> \notin done

(* The entries of map f an application may insert: all, or with Partial *)
(* any non-empty part of them.                                            *)
Parts(f) ==
  {f} \cup
  (IF Partial THEN {[a \in S |-> f[a]] : S \in (SUBSET DOMAIN f) \ {{}}}
   ELSE {})

(* Agent v inserts its map of allocation k, or a part of it.             *)
Apply(v, k) ==
  /\ Pending(v, k)
  /\ \E p \in Parts(Split(history[k])[v]) :
       held' = [held EXCEPT ![v] = Insert(@, p)]
  /\ done' = done \cup {<<v, k>>}
  /\ UNCHANGED <<current, history>>

(* Delivery k to v is lost.                                               *)
Drop(v, k) ==
  /\ Lossy
  /\ Pending(v, k)
  /\ done' = done \cup {<<v, k>>}
  /\ UNCHANGED <<current, history, held>>

Next ==
  \/ \E c \in Configs : Accept(c)
  \/ \E v \in Vms, k \in 1..Len(history) : Apply(v, k) \/ Drop(v, k)

Spec == Init /\ [][Next]_vars
=============================================================================

----------------------------- MODULE UsageView -----------------------------
(***************************************************************************)
(* How the coordinator learns the agents' usage.  Every second an agent's  *)
(* report_usage builds a UsageMap holding one entry, for its own VM id,    *)
(* with the AppUsage of every app whose memory reading succeeded, and      *)
(* hands it to send_usage, which spawns a `curl` to POST /usage and        *)
(* returns.  The coordinator's /usage handler takes the GlobalAllocation   *)
(* mutex and merges the body into usage_map with HashMap::extend, which    *)
(* replaces the whole entry of that VM id; GET /status returns a copy.     *)
(* A report is identified by its VM and its sequence number at that agent, *)
(* and carries the set of apps it has usage for.                          *)
(***************************************************************************)
EXTENDS Naturals, FiniteSets

CONSTANTS
  Vms,         \* agents (VmId)
  Apps,        \* the apps each agent manages
  MaxReports,  \* bound on the reports each agent sends
  ReadsFail,   \* whether an app's memory reading may fail
  Lossy        \* whether a spawned curl may fail

VARIABLES
  seq,       \* seq[v]: reports agent v has sent
  sentRep,   \* history: every report sent
  net,       \* the posts whose curl has not finished
  view,      \* GlobalAllocation.usage_map.map: VmId -> report
  status     \* the copy of usage_map the last GET /status returned

vars == <<seq, sentRep, net, view, status>>

NoReport == [vm |-> "none", seq |-> 0, apps |-> {}]

(* The apps of one report: those whose get_mem_usages_from_cgroup entry  *)
(* exists; the others are skipped with `continue`.                         *)
ReportedApps == IF ReadsFail THEN SUBSET Apps ELSE {Apps}

(* report_usage's usage_map and the spawned POST /usage.                  *)
SendUsage(v) ==
  /\ seq[v] < MaxReports
  /\ seq' = [seq EXCEPT ![v] = @ + 1]
  /\ \E S \in ReportedApps :
       LET m == [vm |-> v, seq |-> seq[v] + 1, apps |-> S]
       IN  /\ net' = net \cup {m}
           /\ sentRep' = sentRep \cup {m}
  /\ UNCHANGED <<view, status>>

(* The coordinator's POST /usage: extend replaces the entry of the VM.    *)
MergeUsage(old, m) == m

Usage(m) ==
  /\ m \in net
  /\ net' = net \ {m}
  /\ view' = [view EXCEPT ![m.vm] = MergeUsage(@, m)]
  /\ UNCHANGED <<seq, sentRep, status>>

(* A spawned curl fails: nobody notices, nothing is retried.              *)
LoseUsage(m) ==
  /\ Lossy
  /\ m \in net
  /\ net' = net \ {m}
  /\ UNCHANGED <<seq, sentRep, view, status>>

(* GET /status: a clone of usage_map taken under the mutex (sort_usage_map *)
(* only reorders entries).                                                *)
Status ==
  /\ status' = view
  /\ UNCHANGED <<seq, sentRep, net, view>>

Init ==
  /\ seq = [v \in Vms |-> 0]
  /\ sentRep = {} /\ net = {}
  /\ view = [v \in Vms |-> NoReport]
  /\ status = view

Next ==
  \/ \E v \in Vms : SendUsage(v)
  \/ \E m \in net : Usage(m) \/ LoseUsage(m)
  \/ Status

Spec == Init /\ [][Next]_vars

-----------------------------------------------------------------------------
(* Spec 7 (TransportError): "the next periodic report will carry fresh     *)
(* data" -- what /status shows for a VM never goes back to a report older *)
(* than one it has already shown, although send_usage's curls are         *)
(* independent processes and the /usage handler's extend keeps whichever  *)
(* report arrives last.                                                   *)
ViewNeverRegresses ==
  [][\A v \in Vms : status'[v].seq >= status[v].seq]_status
=============================================================================

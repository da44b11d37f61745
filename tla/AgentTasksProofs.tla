-------------------------- MODULE AgentTasksProofs --------------------------
(***************************************************************************)
(* Proof that an estimator's cache size stays the agent's allocation for  *)
(* the whole of its use (FitSeesCurrentAllocation), for every set of      *)
(* requests and apps and every history length.                            *)
(*                                                                         *)
(* The argument is the cur_config RwLock's exclusion: update_config bumps *)
(* the configuration only while it holds the write lock, an estimator     *)
(* between its read and the end of its fit holds the read lock, and the   *)
(* lock never has a writer and readers at once.  The FIFO queue does not  *)
(* matter for this property and is left untyped.                          *)
(***************************************************************************)
EXTENDS AgentTasks, TLAPS

ReqStates == {"absent", "waitC", "waitW", "apply", "done"}
EstStates == {"sample", "sleep", "waitR", "waitL", "fit"}

(* The part of the state the argument is about, with its types.           *)
ProofType ==
  /\ reqPc \in [Reqs -> ReqStates]
  /\ estPc \in [Apps -> EstStates]
  /\ estVer \in [Apps -> Nat] /\ cfgVer \in Nat
  /\ reqApps \in [Reqs -> SUBSET Apps] /\ curApps \subseteq Apps
  /\ DOMAIN rw = {"writer", "readers", "q"}
  /\ rw.writer \in Reqs \cup {NoOne} /\ rw.readers \subseteq Apps

(* A request applying its config holds the write lock.                    *)
WriterIsApplying == \A r \in Reqs : reqPc[r] = "apply" => rw.writer = r

(* An estimator between its cur_config read and the end of its fit holds *)
(* the read lock.                                                         *)
ReaderIsEstimating ==
  \A e \in Apps : estPc[e] \in {"waitL", "fit"} => e \in rw.readers

(* Only an estimator between its read and the end of its fit holds a     *)
(* read guard, so an estimator never takes a second one.                  *)
ReadersAreEstimating ==
  \A e \in rw.readers : estPc[e] \in {"waitL", "fit"}

(* The RwLock is never held by a writer and readers together.             *)
RwExclusion == rw.writer # NoOne => rw.readers = {}

(* The inductive strengthening of FitSeesCurrentAllocation, checked by   *)
(* TLC as an invariant of the agent_tasks model before it was proved.     *)
IInv ==
  /\ ProofType
  /\ WriterIsApplying
  /\ ReaderIsEstimating
  /\ ReadersAreEstimating
  /\ RwExclusion
  /\ FitSeesCurrentAllocation

-----------------------------------------------------------------------------
(* The initial state satisfies the inductive invariant.                   *)
LEMMA InitIInv == Init => IInv
  BY AgentAssumption
  DEF Init, IInv, ProofType, ReqStates, EstStates, WriterIsApplying,
      ReaderIsEstimating, ReadersAreEstimating, RwExclusion,
      FitSeesCurrentAllocation

(* Every step of the agent's tasks keeps the inductive invariant: only   *)
(* update_config, holding the write lock, bumps the configuration, and   *)
(* then no estimator can be between its read and the end of its fit.    *)
LEMMA IInvInductive == IInv /\ [Next]_vars => IInv'
<1> SUFFICES ASSUME IInv, [Next]_vars PROVE IInv'
  OBVIOUS
<1> USE AgentAssumption
    DEF IInv, ProofType, ReqStates, EstStates, WriterIsApplying,
        ReaderIsEstimating, ReadersAreEstimating, RwExclusion,
      FitSeesCurrentAllocation
<1>1. ASSUME NEW r \in Reqs, ReqArrive(r) PROVE IInv'
  BY <1>1 DEF ReqArrive
<1>2. ASSUME NEW r \in Reqs, ReqLockClient(r) PROVE IInv'
  BY <1>2 DEF ReqLockClient, RwEnqueue
<1>3. ASSUME NEW r \in Reqs, ReqLockWrite(r) PROVE IInv'
  BY <1>3 DEF ReqLockWrite, CanWrite
<1>4. ASSUME NEW r \in Reqs, ReqApply(r) PROVE IInv'
  BY <1>4 DEF ReqApply
<1>5. CASE ReportCheck \/ ReportLockClient \/ ReportPush \/ ReportSleep
  BY <1>5 DEF ReportCheck, ReportLockClient, ReportPush, ReportSleep
<1>6. ASSUME NEW e \in Apps, EstSample(e) PROVE IInv'
  <2>0. rw' = rw \/ rw' = [rw EXCEPT !.q = Append(@, [who |-> e, mode |-> "R"])]
    BY <1>6 DEF EstSample, RwEnqueue, PebsOutcome
  <2>1. /\ DOMAIN rw' = DOMAIN rw
        /\ rw'.writer = rw.writer /\ rw'.readers = rw.readers
    <3>1. CASE rw' = rw
      BY <3>1
    <3>2. CASE rw' = [rw EXCEPT !.q = Append(@, [who |-> e, mode |-> "R"])]
      BY <3>2
    <3>3. QED
      BY <2>0, <3>1, <3>2
  <2>2. estPc[e] = "sample" /\ estPc'[e] \in {"sleep", "waitR"}
    BY <1>6 DEF EstSample, PebsOutcome
  <2>3. estPc' = [estPc EXCEPT ![e] = estPc'[e]]
    BY <1>6 DEF EstSample, PebsOutcome
  <2>4. UNCHANGED <<reqPc, reqApps, estVer, cfgVer, curApps>>
    BY <1>6 DEF EstSample
  <2>5. QED
    BY <2>1, <2>2, <2>3, <2>4
<1>7. ASSUME NEW e \in Apps, EstLockRead(e) PROVE IInv'
  <2>1. rw.writer = NoOne
    BY <1>7 DEF EstLockRead, CanRead
  <2>2. /\ DOMAIN rw' = DOMAIN rw /\ rw'.writer = rw.writer
        /\ rw'.readers \in {rw.readers, rw.readers \cup {e}}
        /\ estPc'[e] = "waitL" => rw'.readers = rw.readers \cup {e}
        /\ estPc'[e] = "sleep" => rw'.readers = rw.readers
    <3>1. CASE e \in curApps
      <4>1. /\ rw' = [rw EXCEPT !.readers = @ \cup {e}, !.q = RemoveWaiter(@, e)]
            /\ estPc' = [estPc EXCEPT ![e] = "waitL"]
        BY <1>7, <3>1 DEF EstLockRead
      <4>2. QED
        BY <4>1
    <3>2. CASE e \notin curApps
      <4>1. /\ rw' = [rw EXCEPT !.q = RemoveWaiter(@, e)]
            /\ estPc' = [estPc EXCEPT ![e] = "sleep"]
        BY <1>7, <3>2 DEF EstLockRead
      <4>2. QED
        BY <4>1
    <3>3. QED
      BY <3>1, <3>2
  <2>3. /\ estPc' = [estPc EXCEPT ![e] = estPc'[e]]
        /\ estPc[e] = "waitR" /\ estPc'[e] \in {"waitL", "sleep"}
        /\ estVer' = [estVer EXCEPT ![e] = cfgVer]
        /\ UNCHANGED <<reqPc, reqApps, cfgVer, curApps>>
    BY <1>7 DEF EstLockRead
  <2>4. QED
    BY <2>1, <2>2, <2>3
<1>8. ASSUME NEW e \in Apps, EstTooShort(e) PROVE IInv'
  BY <1>8 DEF EstTooShort
<1>9. ASSUME NEW e \in Apps, EstHistOk(e) PROVE IInv'
  BY <1>9 DEF EstHistOk
<1>10. ASSUME NEW e \in Apps, EstFit(e) PROVE IInv'
  <2>1. /\ rw' = [rw EXCEPT !.readers = @ \ {e}]
        /\ estPc' = [estPc EXCEPT ![e] = "sleep"]
        /\ UNCHANGED <<reqPc, reqApps, estVer, cfgVer, curApps>>
    BY <1>10 DEF EstFit
  <2>2. QED
    BY <2>1
<1>11. ASSUME NEW e \in Apps, EstSleep(e) PROVE IInv'
  BY <1>11 DEF EstSleep
<1>12. CASE Shutdown
  BY <1>12 DEF Shutdown
<1>13. CASE UNCHANGED vars
  BY <1>13 DEF vars
<1>14. QED
  BY <1>1, <1>2, <1>3, <1>4, <1>5, <1>6, <1>7, <1>8, <1>9, <1>10, <1>11,
     <1>12, <1>13 DEF Next

(* The estimator's cache size is current for the whole fit: in every      *)
(* behaviour of the agent, for all requests, apps and history lengths,    *)
(* no update_config runs between an estimator's cur_config read (line     *)
(* 1011) and the end of its fit, because it keeps the read guard.          *)
THEOREM FitSeesCurrentAllocationHolds == Spec => []FitSeesCurrentAllocation
<1>1. Init => IInv
  BY InitIInv
<1>2. IInv /\ [Next]_vars => IInv'
  BY IInvInductive
<1>3. IInv => FitSeesCurrentAllocation
  BY DEF IInv
<1>4. QED
  BY <1>1, <1>2, <1>3, PTL DEF Spec

=============================================================================

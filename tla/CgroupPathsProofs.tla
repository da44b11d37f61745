------------------------- MODULE CgroupPathsProofs -------------------------
(***************************************************************************)
(* Proof that the report loop cannot panic before the container has been  *)
(* recreated (NoPanicWithoutRecreate), for any number of sampler threads   *)
(* and any bound on the incarnations.                                      *)
(*                                                                         *)
(* The argument: while the container is in its first incarnation the only *)
(* paths anyone can hold or cache are None and that incarnation's, whose  *)
(* directory exists once the container runs; the report loop reaches its  *)
(* memory and io.stat reads only after the exists() check found a path,   *)
(* so the container runs and the path it holds is the live one.           *)
(***************************************************************************)
EXTENDS CgroupPaths, TLAPS

TaskStates == {"get", "lookup", "insert", "use"}
Stages == {"mem", "memread", "anon", "blk"}

(* The types of the variables.                                            *)
CPType ==
  /\ inc \in Nat /\ cache \in Nat /\ memInc \in Nat
  /\ got \in [Tasks -> Nat] /\ pc \in [Tasks -> TaskStates]
  /\ rpStage \in Stages /\ repAlive \in BOOLEAN

(* A report past its exists() check is about a container that runs.        *)
StartedIfReading == rpStage # "mem" => inc # None

(* At its memory reads the report loop holds a path.                      *)
HoldsPathIfReading == rpStage \in {"memread", "anon"} => got[Rep] # None

(* Before any recreation, every path cached or held is None or the first  *)
(* incarnation's.                                                          *)
FirstIncarnation ==
  inc <= 1 => cache \in {None, 1} /\ \A t \in Tasks : got[t] \in {None, 1}

(* The inductive strengthening of NoPanicWithoutRecreate, checked by TLC  *)
(* as an invariant of the cgroup_paths model before it was proved.        *)
CPInv ==
  /\ CPType
  /\ StartedIfReading
  /\ HoldsPathIfReading
  /\ FirstIncarnation
  /\ NoPanicWithoutRecreate

-----------------------------------------------------------------------------
(* The initial states satisfy the inductive invariant.                    *)
LEMMA InitCPInv == Init => CPInv
  BY CgroupAssumption
  DEF Init, CPInv, CPType, TaskStates, Stages, Tasks, None, StartedIfReading,
      HoldsPathIfReading, FirstIncarnation, NoPanicWithoutRecreate

(* Every step keeps the inductive invariant: the panicking branches of    *)
(* MemRead and BlkRead are disabled while the container is in its first  *)
(* incarnation.                                                            *)
LEMMA CPInvInductive == CPInv /\ [Next]_vars => CPInv'
<1> SUFFICES ASSUME CPInv, [Next]_vars PROVE CPInv'
  OBVIOUS
<1> USE CgroupAssumption
    DEF CPInv, CPType, TaskStates, Stages, Tasks, None, StartedIfReading,
        HoldsPathIfReading, FirstIncarnation, NoPanicWithoutRecreate, Live
<1>1. ASSUME NEW t \in Tasks, Get(t) PROVE CPInv'
  BY <1>1 DEF Get
<1>2. ASSUME NEW t \in Tasks, Lookup(t) PROVE CPInv'
  BY <1>2 DEF Lookup
<1>3. ASSUME NEW t \in Tasks, Insert(t) PROVE CPInv'
  BY <1>3 DEF Insert
<1>4. ASSUME NEW s \in Samplers, SamplerUse(s) PROVE CPInv'
  BY <1>4 DEF SamplerUse
<1>5. CASE MemCheck
  BY <1>5 DEF MemCheck, EndReport
<1>6. CASE MemRead
  <2>1. inc <= 1 => Live(got[Rep])
    BY <1>6 DEF MemRead
  <2>2. CASE Live(got[Rep])
    <3>1. rpStage' = "anon" /\ memInc' = got[Rep] /\ repAlive' = repAlive
          /\ UNCHANGED <<inc, cache, pc, got>>
      BY <1>6, <2>2 DEF MemRead
    <3>2. QED
      BY <1>6, <3>1, <2>2
  <2>3. CASE ~Live(got[Rep])
    <3>1. repAlive' = FALSE /\ UNCHANGED <<rpStage, memInc, inc, cache, pc, got>>
      BY <1>6, <2>3 DEF MemRead
    <3>2. inc >= 2
      BY <1>6, <2>1, <2>3
    <3>3. QED
      BY <1>6, <3>1, <3>2
  <2>4. QED
    BY <2>2, <2>3
<1>7. CASE AnonRead
  BY <1>7 DEF AnonRead, EndReport
<1>8. CASE BlkRead
  <2>1. inc <= 1 => got[Rep] = None \/ Live(got[Rep])
    BY <1>8 DEF BlkRead
  <2>2. CASE got[Rep] = None \/ Live(got[Rep])
    <3>1. rpStage' = "mem" /\ pc' = [pc EXCEPT ![Rep] = "get"]
          /\ repAlive' = repAlive /\ UNCHANGED <<inc, cache, got, memInc>>
      BY <1>8, <2>2 DEF BlkRead, EndReport
    <3>2. QED
      BY <1>8, <3>1
  <2>3. CASE ~(got[Rep] = None \/ Live(got[Rep]))
    <3>1. repAlive' = FALSE /\ UNCHANGED <<rpStage, pc, inc, cache, got, memInc>>
      BY <1>8, <2>3 DEF BlkRead
    <3>2. inc >= 2
      BY <1>8, <2>1, <2>3
    <3>3. QED
      BY <1>8, <3>1, <3>2
  <2>4. QED
    BY <2>2, <2>3
<1>9. CASE Start
  BY <1>9 DEF Start
<1>10. CASE Recreate
  BY <1>10 DEF Recreate
<1>11. CASE UNCHANGED vars
  BY <1>11 DEF vars
<1>12. QED
  BY <1>1, <1>2, <1>3, <1>4, <1>5, <1>6, <1>7, <1>8, <1>9, <1>10, <1>11
  DEF Next, Resolve

(* The report loop's exists() check, the None checks and the lazy         *)
(* resolution keep it alive as long as no cgroup directory it may know     *)
(* has been removed: in every behaviour, for all sampler threads and all  *)
(* incarnation bounds, a panic needs a recreation of the container.       *)
THEOREM NoPanicWithoutRecreateHolds == Spec => []NoPanicWithoutRecreate
<1>1. Init => CPInv
  BY InitCPInv
<1>2. CPInv /\ [Next]_vars => CPInv'
  BY CPInvInductive
<1>3. CPInv => NoPanicWithoutRecreate
  BY DEF CPInv
<1>4. QED
  BY <1>1, <1>2, <1>3, PTL DEF Spec
=============================================================================

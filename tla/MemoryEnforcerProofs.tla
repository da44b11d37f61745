------------------------ MODULE MemoryEnforcerProofs ------------------------
(***************************************************************************)
(* Proofs, for every value of the constants, of the type invariant of     *)
(* MemoryEnforcer and of WriteBound (spec 8(3): a call of                 *)
(* set_memory_size_via_cgroup writes memory.max at most iter_max + 1      *)
(* times).  WriteBound is not inductive by itself: a step of the decrease *)
(* loop adds a write, and only the fact that every loop iteration makes   *)
(* at most one write bounds nWrites by iter, which the loop guard bounds. *)
(* Then LimitNeverBelowTarget, and the refinement of MemoryLimit, which    *)
(* rests on ShrinkInv: inside the loop the truncated ceiling current_mem   *)
(* lies between the target and memory.max, so the next ceiling, 0.9 of it, *)
(* lowers memory.max and, unless the loop breaks, stays at the target or   *)
(* above.                                                                  *)
(***************************************************************************)
EXTENDS MemoryEnforcer, TLAPS

(* The strengthening of WriteBound: inside the loop, at most one write    *)
(* per iteration so far; outside it, at most the final write more.        *)
WritesPerIter ==
  /\ pc = "Loop" => nWrites <= iter
  /\ nWrites <= IterMax + 1

IInv == TypeOK /\ WritesPerIter
-----------------------------------------------------------------------------
(* The values the enforcer writes: a parsed limit, a memory.high computed *)
(* from a number, the io.max rule and the usage bound of a limit.         *)
LEMMA ValueTypes ==
  ASSUME ConstAssumption
  PROVE  /\ \A v \in LimitVal : ParseMb(v) \in Nat /\ Cap(v) \in 0..MaxUsage
         /\ \A m \in Nat : HighOf(m) \in Nat
         /\ \A a, b \in Nat : MinOf(a, b) \in Nat
BY DEF LimitVal, ParseMb, Cap, MinOf, HighOf, MaxOf

(* write_settings(m) with a numeric m leaves memory.max, memory.high and  *)
(* memory.current of their kinds.                                         *)
LEMMA WriteSettingsType ==
  ASSUME ConstAssumption, TypeOK, NEW m \in Nat, WriteSettings(m)
  PROVE  memMax' \in LimitVal /\ memHigh' \in LimitVal /\ usage' \in 0..MaxUsage
<1>1. memMax' \in LimitVal /\ usage' \in 0..MaxUsage
  BY DEF WriteSettings, TypeOK, LimitVal, MinOf
<1>2. memHigh' \in LimitVal
  BY ValueTypes DEF WriteSettings, TypeOK, LimitVal
<1>. QED BY <1>1, <1>2

(* The swap step leaves memory.swap.max a limit value.                    *)
LEMMA SetSwapType ==
  ASSUME ConstAssumption, TypeOK, SetSwap
  PROVE  swapMax' \in LimitVal
BY DEF SetSwap, TypeOK, LimitVal

(* The final write of a call: the same, plus the counter and the phase.   *)
LEMMA FinishType ==
  ASSUME ConstAssumption, TypeOK, NEW t \in Nat, NEW k \in Nat, Finish(t, k)
  PROVE  /\ memMax' \in LimitVal /\ memHigh' \in LimitVal
         /\ usage' \in 0..MaxUsage /\ swapMax' \in LimitVal
         /\ nWrites' = k + 1 /\ pc' = "Bw"
BY WriteSettingsType, SetSwapType DEF Finish

-----------------------------------------------------------------------------
(* The initial states are well typed.                                     *)
LEMMA InitTypeOK == Init => TypeOK
  <2> SUFFICES ASSUME Init PROVE TypeOK
    OBVIOUS
  <2>1. memMax \in LimitVal /\ memHigh \in LimitVal /\ swapMax \in LimitVal
        /\ ioMax \in LimitVal
    BY ConstAssumption DEF Init, LimitVal
  <2>2. Cap(memMax) \in 0..MaxUsage
    BY <2>1, ConstAssumption, ValueTypes
  <2>3. usage \in 0..MaxUsage
    BY <2>2, ConstAssumption DEF Init
  <2>. QED BY <2>1, <2>3, ConstAssumption DEF Init, TypeOK

(* Every step of the enforcer, or of the cache, keeps the types.          *)
LEMMA TypeOKInductive == TypeOK /\ [Next]_vars => TypeOK'
  <2> SUFFICES ASSUME TypeOK, [Next]_vars PROVE TypeOK'
    OBVIOUS
  <2> USE ConstAssumption
  <2>1. ASSUME NEW t \in Targets, NEW b \in Bandwidths, Start(t, b)
        PROVE  TypeOK'
    <3>1. CASE t < ParseMb(memMax)
      BY <2>1, <3>1, ValueTypes DEF Start, Shrinks, TypeOK
    <3>2. CASE ~(t < ParseMb(memMax))
      BY <2>1, <3>2, FinishType DEF Start, Shrinks, TypeOK
    <3>. QED BY <3>1, <3>2
  <2>2. CASE Step
    <3> DEFINE n == 9 * curNum
               d == 10 * curDen
    <3>1. n \in Nat /\ d \in Nat \ {0} /\ n \div d \in Nat
      BY DEF TypeOK
    <3>2. iter' \in 0..IterMax /\ UNCHANGED <<ioMax, target, bw>>
      BY <2>2 DEF Step, LoopGuard, TypeOK
    <3>3. CASE CanFail /\ Finish(target, nWrites) /\ UNCHANGED <<curNum, curDen>>
      BY <3>2, <3>3, FinishType DEF TypeOK
    <3>4. CASE usage <= target /\ Finish(target, nWrites)
               /\ UNCHANGED <<curNum, curDen>>
      BY <3>2, <3>4, FinishType DEF TypeOK
    <3>5. CASE /\ curNum' = n /\ curDen' = d
               /\ IF BelowTarget(n, d)
                  THEN Finish(target, nWrites)
                  ELSE /\ WriteSettings(n \div d)
                       /\ nWrites' = nWrites + 1
                       /\ pc' = "Loop"
                       /\ UNCHANGED swapMax
      <4>1. CASE BelowTarget(n, d)
        BY <3>1, <3>2, <3>5, <4>1, FinishType DEF TypeOK
      <4>2. CASE ~BelowTarget(n, d)
        BY <3>1, <3>2, <3>5, <4>2, WriteSettingsType DEF TypeOK
      <4>. QED BY <4>1, <4>2
    <3>6. CASE UNCHANGED <<memMax, memHigh, swapMax, usage, pc, curNum, curDen,
                           nWrites>>
      BY <3>2, <3>6 DEF TypeOK
    <3>. QED BY <2>2, <3>3, <3>4, <3>5, <3>6 DEF Step
  <2>3. CASE Exit
    BY <2>3, FinishType DEF Exit, TypeOK
  <2>4. CASE Bandwidth
    BY <2>4 DEF Bandwidth, TypeOK, LimitVal
  <2>5. CASE Env
    BY <2>5, ValueTypes DEF Env, TypeOK
  <2>6. CASE UNCHANGED vars
    BY <2>6 DEF vars, TypeOK
  <2>. QED BY <2>1, <2>2, <2>3, <2>4, <2>5, <2>6 DEF Next

(* Type correctness of the enforcer for all constants.                    *)
THEOREM TypeCorrect == Spec => []TypeOK
BY InitTypeOK, TypeOKInductive, PTL DEF Spec
-----------------------------------------------------------------------------
(* IInv is inductive: every step keeps one write per loop iteration at    *)
(* most, and the final write of a call happens with iter <= iter_max.     *)
LEMMA IInvInductive == IInv /\ [Next]_vars => IInv'
<1> SUFFICES ASSUME IInv, [Next]_vars PROVE IInv'
  OBVIOUS
<1> USE ConstAssumption
<1>1. TypeOK'
  BY TypeOKInductive DEF IInv
<1> SUFFICES WritesPerIter'
  BY <1>1 DEF IInv
<1>2. ASSUME NEW t \in Targets, NEW b \in Bandwidths, Start(t, b)
      PROVE  WritesPerIter'
  <2>1. CASE t < ParseMb(memMax)
    BY <1>2, <2>1 DEF Start, Shrinks, WritesPerIter, IInv, TypeOK
  <2>2. CASE ~(t < ParseMb(memMax))
    BY <1>2, <2>2, FinishType DEF Start, Shrinks, WritesPerIter, IInv, TypeOK
  <2>. QED BY <2>1, <2>2
<1>3. CASE Step
  <2>1. pc = "Loop" /\ iter < IterMax /\ iter' = iter + 1
    BY <1>3 DEF Step, LoopGuard
  <2>2. nWrites <= iter /\ nWrites \in Nat /\ iter \in Nat
    BY <2>1 DEF IInv, WritesPerIter, TypeOK
  <2>3. \/ nWrites' = nWrites + 1
        \/ nWrites' = nWrites /\ pc' = pc
    <3>1. CASE CanFail /\ Finish(target, nWrites)
      BY <2>2, <3>1, FinishType DEF IInv, TypeOK
    <3>2. CASE usage <= target /\ Finish(target, nWrites)
      BY <2>2, <3>2, FinishType DEF IInv, TypeOK
    <3>3. CASE /\ target < usage /\ usage <= curNum \div curDen
               /\ IF BelowTarget(9 * curNum, 10 * curDen)
                  THEN Finish(target, nWrites)
                  ELSE /\ WriteSettings((9 * curNum) \div (10 * curDen))
                       /\ nWrites' = nWrites + 1
                       /\ pc' = "Loop"
                       /\ UNCHANGED swapMax
      BY <2>2, <3>3, FinishType DEF IInv, TypeOK
    <3>4. CASE UNCHANGED <<pc, nWrites>>
      BY <3>4
    <3>. QED BY <1>3, <3>1, <3>2, <3>3, <3>4 DEF Step
  <2>. QED BY <2>1, <2>2, <2>3 DEF IInv, TypeOK, WritesPerIter
<1>4. CASE Exit
  <2>1. iter = IterMax /\ nWrites <= iter /\ nWrites \in Nat
    BY <1>4 DEF Exit, LoopGuard, IInv, TypeOK, WritesPerIter
  <2>2. nWrites' = nWrites + 1 /\ pc' = "Bw"
    BY <1>4, <2>1, FinishType DEF Exit, IInv, TypeOK
  <2>. QED BY <2>1, <2>2 DEF WritesPerIter
<1>5. CASE Bandwidth
  BY <1>5 DEF Bandwidth, IInv, WritesPerIter
<1>6. CASE Env \/ UNCHANGED vars
  BY <1>6 DEF Env, vars, IInv, WritesPerIter
<1>. QED BY <1>2, <1>3, <1>4, <1>5, <1>6 DEF Next

(* Spec 8(3), first half, for all constants: no call of                   *)
(* set_memory_size_via_cgroup writes memory.max more than iter_max + 1    *)
(* times, however the cache moves memory.current between iterations.     *)
THEOREM WriteBoundHolds == Spec => []WriteBound
<1>1. Init => IInv
  BY InitTypeOK, ConstAssumption DEF Init, IInv, WritesPerIter
<1>2. IInv => WriteBound
  BY DEF IInv, WritesPerIter, WriteBound
<1>. QED BY <1>1, <1>2, IInvInductive, PTL DEF Spec
-----------------------------------------------------------------------------
(* The final write of a call writes its target to memory.max or fails.    *)
LEMMA FinishWritesTarget ==
  ASSUME NEW t, NEW k, Finish(t, k)
  PROVE  memMax' = memMax \/ memMax' = t
BY DEF Finish, WriteSettings

(* A ceiling n / d that is not below the target truncates to a value that *)
(* is not below it either: `current_mem as u64` of an f64 at or above an  *)
(* integer target.                                                        *)
LEMMA TruncatedCeilingNotBelow ==
  ASSUME NEW n \in Nat, NEW d \in Nat \ {0}, NEW t \in Nat, ~(n < t * d)
  PROVE  t <= n \div d
<1>1. t * d <= n
  OBVIOUS
<1>2. (t * d) \div d = t
  BY SMT
<1>3. QED
  BY <1>1, <1>2, SMT

(* Every step from a well-typed state writes memory.max only with a value *)
(* at or above the target of the call.                                    *)
LEMMA StepNeverBelowTarget ==
  TypeOK /\ [Next]_vars => (memMax' # memMax => target' <= memMax')
<1> SUFFICES ASSUME TypeOK, [Next]_vars, memMax' # memMax
             PROVE  target' <= memMax'
  OBVIOUS
<1> USE ConstAssumption
<1>1. ASSUME NEW t \in Targets, NEW b \in Bandwidths, Start(t, b)
      PROVE  target' <= memMax'
  <2>1. ~(t < ParseMb(memMax)) /\ Finish(t, 0) /\ target' = t
    BY <1>1 DEF Start, Shrinks
  <2>2. memMax' = t
    BY <2>1, FinishWritesTarget
  <2>3. QED
    BY <2>1, <2>2 DEF TypeOK
<1>2. CASE Step
  <2> DEFINE n == 9 * curNum
             d == 10 * curDen
  <2>1. target' = target /\ target \in Nat /\ n \in Nat /\ d \in Nat \ {0}
    BY <1>2 DEF Step, TypeOK
  <2>2. CASE Finish(target, nWrites)
    BY <2>1, <2>2, FinishWritesTarget
  <2>3. CASE ~BelowTarget(n, d) /\ WriteSettings(n \div d)
    <3>1. memMax' = n \div d
      BY <2>3 DEF WriteSettings
    <3>2. target <= n \div d
      BY <2>1, <2>3, TruncatedCeilingNotBelow DEF BelowTarget
    <3>3. QED
      BY <2>1, <3>1, <3>2
  <2>4. QED
    BY <1>2, <2>2, <2>3 DEF Step
<1>3. CASE Exit
  <2>1. Finish(target, nWrites) /\ target' = target
    BY <1>3 DEF Exit
  <2>2. memMax' = target
    BY <2>1, FinishWritesTarget
  <2>3. QED
    BY <2>1, <2>2 DEF TypeOK
<1>4. CASE Bandwidth \/ Env \/ UNCHANGED vars
  BY <1>4 DEF Bandwidth, Env, vars
<1>5. QED
  BY <1>1, <1>2, <1>3, <1>4 DEF Next

(* Spec 4.6 for all constants: set_memory_size_via_cgroup breaks to the   *)
(* final write before a step would fall below the target, so no write of *)
(* memory.max, intermediate or final, is below the target of its call.    *)
THEOREM LimitNeverBelowTargetHolds == Spec => LimitNeverBelowTarget
<1>1. TypeOK /\ [Next]_vars => [memMax' # memMax => target' <= memMax']_vars
  BY StepNeverBelowTarget
<1>2. QED
  BY <1>1, TypeCorrect, PTL DEF Spec, LimitNeverBelowTarget
-----------------------------------------------------------------------------
(* Inside the decrease loop memory.max is a number at or above the planned *)
(* ceiling current_mem, truncated, which is at or above the target.       *)
ShrinkInv ==
  pc = "Loop" =>
    /\ memMax \in Nat
    /\ target <= curNum \div curDen
    /\ curNum \div curDen <= memMax

(* The invariant the refinement rests on, checked by TLC as an invariant  *)
(* of the enforcer model before it was proved.                            *)
RInv == TypeOK /\ ShrinkInv

(* current_mem *= 0.9 never raises the truncated ceiling.                 *)
LEMMA ShrinkStepDown ==
  ASSUME NEW a \in Nat, NEW b \in Nat \ {0}
  PROVE  (9 * a) \div (10 * b) <= a \div b
<1> DEFINE q == a \div b
<1>1. q \in Nat /\ a < b * (q + 1)
  BY SMT
<1>2. 9 * a < (10 * b) * (q + 1)
  BY <1>1, SMT
<1>3. QED
  BY <1>1, <1>2, SMT

(* A call enters the loop only with a numeric memory.max above the target. *)
LEMMA ShrinkStart ==
  ASSUME ConstAssumption, TypeOK, NEW t \in Targets, t < ParseMb(memMax)
  PROVE  memMax \in Nat /\ ParseMb(memMax) = memMax /\ t < memMax
BY DEF TypeOK, LimitVal, ParseMb

(* Every step keeps the loop's ceiling between the target and memory.max. *)
LEMMA RInvInductive == RInv /\ [Next]_vars => RInv'
<1> SUFFICES ASSUME RInv, [Next]_vars PROVE RInv'
  OBVIOUS
<1> USE ConstAssumption
<1>1. TypeOK'
  BY TypeOKInductive DEF RInv
<1> SUFFICES ShrinkInv'
  BY <1>1 DEF RInv
<1>2. ASSUME NEW t \in Targets, NEW b \in Bandwidths, Start(t, b)
      PROVE  ShrinkInv'
  <2>1. CASE Shrinks(t)
    <3>1. memMax \in Nat /\ t < memMax
      BY <2>1, ShrinkStart DEF RInv, Shrinks
    <3>2. curNum' = memMax /\ curDen' = 1 /\ memMax' = memMax /\ target' = t
      BY <1>2, <2>1, <3>1 DEF Start, ParseMb
    <3>3. curNum' \div curDen' = memMax
      BY <3>1, <3>2
    <3>4. QED
      BY <3>1, <3>2, <3>3 DEF ShrinkInv
  <2>2. CASE ~Shrinks(t)
    BY <1>2, <2>2, FinishType DEF Start, ShrinkInv, RInv, TypeOK
  <2>3. QED
    BY <2>1, <2>2
<1>3. CASE Step
  <2> DEFINE n == 9 * curNum
             d == 10 * curDen
  <2>1. /\ pc = "Loop" /\ memMax \in Nat
        /\ target <= curNum \div curDen /\ curNum \div curDen <= memMax
        /\ curNum \in Nat /\ curDen \in Nat \ {0} /\ target \in Nat
        /\ n \in Nat /\ d \in Nat \ {0} /\ target' = target
    BY <1>3 DEF Step, RInv, ShrinkInv, TypeOK
  <2>2. CASE Finish(target, nWrites)
    BY <2>2, FinishType DEF ShrinkInv, RInv, TypeOK
  <2>3. CASE /\ ~BelowTarget(n, d) /\ WriteSettings(n \div d)
             /\ curNum' = n /\ curDen' = d
    <3>1. target <= n \div d
      BY <2>1, <2>3, TruncatedCeilingNotBelow DEF BelowTarget
    <3>2. n \div d <= curNum \div curDen
      BY <2>1, ShrinkStepDown
    <3>3. memMax' = n \div d \/ memMax' = memMax
      BY <2>3 DEF WriteSettings
    <3>4. n \div d <= memMax
      BY <2>1, <3>2
    <3>5. QED
      BY <2>1, <2>3, <3>1, <3>3, <3>4 DEF ShrinkInv
  <2>4. CASE UNCHANGED <<memMax, pc, curNum, curDen>>
    BY <2>1, <2>4 DEF ShrinkInv
  <2>5. QED
    BY <1>3, <2>2, <2>3, <2>4 DEF Step
<1>4. CASE Exit
  BY <1>4, FinishType DEF Exit, ShrinkInv, RInv, TypeOK
<1>5. CASE Bandwidth
  BY <1>5 DEF Bandwidth, ShrinkInv
<1>6. CASE Env \/ UNCHANGED vars
  BY <1>6 DEF Env, vars, ShrinkInv, RInv
<1>7. QED
  BY <1>2, <1>3, <1>4, <1>5, <1>6 DEF Next

(* Every enforcer step is a MemoryLimit step or leaves memory.max, the    *)
(* target and the phase as they were.                                     *)
LEMMA StepRefines == RInv /\ [Next]_vars => [ML!Next]_ML!vars
<1> SUFFICES ASSUME RInv, [Next]_vars PROVE [ML!Next]_ML!vars
  OBVIOUS
<1> USE ConstAssumption
<1>1. ASSUME NEW t \in Targets, NEW b \in Bandwidths, Start(t, b)
      PROVE  [ML!Next]_ML!vars
  <2>1. pc = "Idle" /\ target' = t
    BY <1>1 DEF Start
  <2>2. CASE Shrinks(t)
    <3>1. memMax \in Nat /\ t < memMax
      BY <2>2, ShrinkStart DEF RInv, Shrinks
    <3>2. pc' = "Loop" /\ memMax' = memMax
      BY <1>1, <2>2 DEF Start
    <3>3. ML!BeginShrink(t)
      BY <2>1, <3>1, <3>2 DEF ML!BeginShrink
    <3>4. QED
      BY <3>3 DEF ML!Next
  <2>3. CASE ~Shrinks(t)
    <3>1. Finish(t, 0)
      BY <1>1, <2>3 DEF Start
    <3>2. memMax = Unlimited \/ memMax <= t
      BY <2>3 DEF Shrinks, ParseMb, RInv, TypeOK, LimitVal
    <3>3. pc' = "Bw" /\ (memMax' = t \/ (CanFail /\ memMax' = memMax))
      BY <3>1 DEF Finish, WriteSettings
    <3>4. ML!SetAtOnce(t)
      BY <2>1, <3>2, <3>3 DEF ML!SetAtOnce, ML!Write
    <3>5. QED
      BY <3>4 DEF ML!Next
  <2>4. QED
    BY <2>2, <2>3
<1>2. ASSUME NEW k, Finish(target, k), pc = "Loop", target' = target
      PROVE  ML!Settle
  BY <1>2 DEF Finish, WriteSettings, ML!Settle, ML!Write
<1>3. CASE Step
  <2> DEFINE n == 9 * curNum
             d == 10 * curDen
  <2>1. /\ pc = "Loop" /\ memMax \in Nat
        /\ target <= curNum \div curDen /\ curNum \div curDen <= memMax
        /\ curNum \in Nat /\ curDen \in Nat \ {0} /\ target \in Nat
        /\ n \in Nat /\ d \in Nat \ {0} /\ target' = target
    BY <1>3 DEF Step, RInv, ShrinkInv, TypeOK
  <2>2. CASE Finish(target, nWrites)
    BY <1>2, <2>1, <2>2 DEF ML!Next
  <2>3. CASE /\ ~BelowTarget(n, d) /\ WriteSettings(n \div d)
             /\ pc' = "Loop"
    <3>1. target <= n \div d
      BY <2>1, <2>3, TruncatedCeilingNotBelow DEF BelowTarget
    <3>2. n \div d <= memMax
      BY <2>1, ShrinkStepDown
    <3>3. memMax' = n \div d \/ memMax' = memMax
      BY <2>3 DEF WriteSettings
    <3>4. memMax' \in target..memMax
      BY <2>1, <3>1, <3>2, <3>3
    <3>5. ML!Lower
      BY <2>1, <2>3, <3>4 DEF ML!Lower
    <3>6. QED
      BY <3>5 DEF ML!Next
  <2>4. CASE UNCHANGED <<memMax, pc>>
    BY <2>1, <2>4 DEF ML!vars
  <2>5. QED
    BY <1>3, <2>2, <2>3, <2>4 DEF Step
<1>4. CASE Exit
  BY <1>2, <1>4 DEF Exit, ML!Next
<1>5. CASE Bandwidth \/ Env \/ UNCHANGED vars
  BY <1>5 DEF Bandwidth, Env, vars, ML!vars
<1>6. QED
  BY <1>1, <1>3, <1>4, <1>5 DEF Next

(* Spec 4.6 and 8(3) for all constants: set_memory_size_via_cgroup        *)
(* implements MemoryLimit.  A target at or above memory.max is written at *)
(* once; a limit above the target is brought down only by the decrease    *)
(* loop, whose writes never raise memory.max nor put it below the target, *)
(* and which ends with the write of the target.                           *)
THEOREM RefinesMemoryLimit == Spec => MemoryLimitRefined
<1>1. Init => ML!Init
  BY DEF Init, ML!Init
<1>2. Init => RInv
  BY InitTypeOK DEF Init, RInv, ShrinkInv
<1>3. RInv /\ [Next]_vars => RInv'
  BY RInvInductive
<1>4. RInv /\ [Next]_vars => [ML!Next]_ML!vars
  BY StepRefines
<1>5. QED
  BY <1>1, <1>2, <1>3, <1>4, PTL DEF Spec, MemoryLimitRefined, ML!Spec
=============================================================================

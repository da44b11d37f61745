------------------------- MODULE UsageSamplerProofs -------------------------
(***************************************************************************)
(* Proof that get_blk_bandwidth never reports more than the device rate   *)
(* over a window without a restart (BwWithinDeviceRate), for every device *)
(* rate, clock bound, counter width, ring length and failure setting that *)
(* satisfy SamplerAssumption.                                              *)
(*                                                                         *)
(* The argument: while no restart has happened since the BlkUseStat       *)
(* snapshot, the io.stat counter is at or above the snapshot and has      *)
(* grown by at most MaxRate per clock unit since it was taken.  The       *)
(* difference is then below 2^Width, so the u64 subtraction does not wrap, *)
(* and divided by the elapsed time it is at most MaxRate.                  *)
(***************************************************************************)
EXTENDS UsageSampler, TLAPS

(* The types of the variables the rate depends on, and the clock bound.   *)
BlkType ==
  /\ ioBytes \in Nat /\ now \in 0..MaxTime
  /\ prevBytes \in Nat /\ prevTime \in 0..now
  /\ reportedBw \in Nat
  /\ reportAlive \in BOOLEAN /\ snapClean \in BOOLEAN /\ bwClean \in BOOLEAN

(* Since a snapshot taken with no restart after it, the counter has grown *)
(* by at most MaxRate per clock unit.                                      *)
SnapshotBound ==
  snapClean =>
    /\ prevBytes <= ioBytes
    /\ ioBytes - prevBytes <= MaxRate * (now - prevTime)

(* The inductive strengthening of BwWithinDeviceRate, checked by TLC as   *)
(* an invariant of the sampler model before it was proved.                 *)
BlkInv == BlkType /\ SnapshotBound /\ BwWithinDeviceRate

-----------------------------------------------------------------------------
(* A byte count below the modulus is its own residue: the subtraction in  *)
(* get_blk_bandwidth does not wrap.                                        *)
LEMMA NoWrap ==
  ASSUME NEW a \in Nat, NEW m \in Nat, a < m
  PROVE  a % m = a
  BY SMT

(* A count of at most r per unit over d units, divided by d, is at most r. *)
LEMMA DivBound ==
  ASSUME NEW a \in Nat, NEW r \in Nat, NEW d \in Nat \ {0}, a <= r * d
  PROVE  a \div d <= r
<1>1. d * (a \div d) <= a
  BY SMT
<1>2. d * (a \div d) <= d * r
  BY <1>1, SMT
<1>3. QED
  BY <1>2, SMT

(* The counter bound stays under the modulus.                             *)
LEMMA WindowBelowModulus ==
  ASSUME NEW d \in 0..MaxTime, NEW a \in Nat, a <= MaxRate * d
  PROVE  a < Modulus
<1>1. MaxRate * d <= MaxRate * MaxTime
  BY SamplerAssumption, SMT
<1>2. QED
  BY <1>1, SamplerAssumption, SMT DEF Modulus

-----------------------------------------------------------------------------
(* The initial state satisfies the inductive invariant.                   *)
LEMMA InitBlkInv == Init => BlkInv
  BY SamplerAssumption
  DEF Init, BlkInv, BlkType, SnapshotBound, BwWithinDeviceRate

(* A report keeps the invariant: the rate of a clean window is at most    *)
(* MaxRate, and the new snapshot starts a window of zero bytes.           *)
LEMMA ReportKeeps == BlkInv /\ Report => BlkInv'
<1> SUFFICES ASSUME BlkInv, Report PROVE BlkInv'
  OBVIOUS
<1> USE SamplerAssumption DEF BlkInv, BlkType, SnapshotBound,
        BwWithinDeviceRate
<1>1. PICK ok \in MemRead :
        \/ ~ok /\ UNCHANGED <<prevBytes, prevTime, reportedBw, reportAlive,
                             snapClean, bwClean>>
        \/ ok /\ BlkBandwidth
  BY DEF Report
<1>2. UNCHANGED <<ioBytes, now>>
  BY DEF Report
<1>3. CASE UNCHANGED <<prevBytes, prevTime, reportedBw, reportAlive,
                       snapClean, bwClean>>
  BY <1>2, <1>3
<1>4. CASE now <= prevTime /\ reportedBw' = 0 /\ bwClean' = TRUE
           /\ UNCHANGED <<prevBytes, prevTime, reportAlive, snapClean>>
  BY <1>2, <1>4
<1>5. CASE now > prevTime /\ reportAlive' = FALSE
           /\ UNCHANGED <<prevBytes, prevTime, reportedBw, snapClean, bwClean>>
  BY <1>2, <1>5
<1>6. CASE now > prevTime /\ reportedBw' = Rate(ioBytes, now)
           /\ bwClean' = snapClean /\ BlkUpdate(ioBytes, now)
           /\ UNCHANGED reportAlive
  <2>1. prevBytes' = ioBytes /\ prevTime' = now /\ snapClean' = TRUE
    BY <1>6 DEF BlkUpdate
  <2>2. reportedBw' \in Nat
    BY <1>6 DEF Rate, Delta, Modulus
  <2>3. snapClean => reportedBw' <= MaxRate
    <3> SUFFICES ASSUME snapClean PROVE reportedBw' <= MaxRate
      OBVIOUS
    <3>1. ioBytes - prevBytes \in Nat /\ now - prevTime \in 0..MaxTime
      BY <1>6
    <3>2. ioBytes - prevBytes < Modulus
      BY <3>1, WindowBelowModulus
    <3>3. Delta(ioBytes) = ioBytes - prevBytes
      BY <3>1, <3>2, NoWrap DEF Delta, Modulus
    <3>4. (ioBytes - prevBytes) \div (now - prevTime) <= MaxRate
      BY <1>6, <3>1, DivBound
    <3>5. QED
      BY <1>6, <3>3, <3>4 DEF Rate
  <2>4. QED
    BY <1>2, <1>6, <2>1, <2>2, <2>3
<1>7. QED
  BY <1>1, <1>3, <1>4, <1>5, <1>6 DEF MemRead, BlkBandwidth

(* Every step keeps the inductive invariant.                              *)
LEMMA BlkInvInductive == BlkInv /\ [Next]_vars => BlkInv'
<1> SUFFICES ASSUME BlkInv, [Next]_vars PROVE BlkInv'
  OBVIOUS
<1> USE SamplerAssumption DEF BlkInv, BlkType, SnapshotBound,
        BwWithinDeviceRate
<1>1. CASE Monitor
  BY <1>1 DEF Monitor
<1>2. CASE Report
  BY <1>2, ReportKeeps
<1>3. CASE Tick
  <2>1. PICK d \in 0..MaxRate : ioBytes' = ioBytes + d
    BY <1>3 DEF Tick
  <2>2. MaxRate * (now + 1 - prevTime) = MaxRate * (now - prevTime) + MaxRate
    BY SMT
  <2>3. QED
    BY <1>3, <2>1, <2>2 DEF Tick
<1>4. CASE Activity
  BY <1>4 DEF Activity
<1>5. CASE Restart
  BY <1>5 DEF Restart
<1>6. CASE UNCHANGED vars
  BY <1>6 DEF vars
<1>7. QED
  BY <1>1, <1>2, <1>3, <1>4, <1>5, <1>6 DEF Next

(* get_blk_bandwidth's snapshot arithmetic keeps every rate it reports    *)
(* over a window without a restart within what the device can transfer,  *)
(* for every device rate, clock bound and counter width with              *)
(* MaxRate * MaxTime < 2^Width: skipped reports, reports in the same      *)
(* millisecond and failed perf windows included.                          *)
THEOREM BwWithinDeviceRateHolds == Spec => []BwWithinDeviceRate
<1>1. Init => BlkInv
  BY InitBlkInv
<1>2. BlkInv /\ [Next]_vars => BlkInv'
  BY BlkInvInductive
<1>3. BlkInv => BwWithinDeviceRate
  BY DEF BlkInv
<1>4. QED
  BY <1>1, <1>2, <1>3, PTL DEF Spec
=============================================================================

---------------------------- MODULE AgentTasks ----------------------------
(***************************************************************************)
(* The tasks of one local agent and the three locks they share:           *)
(*   - the CacheClient mutex (tokio::sync::Mutex, main.rs:105),           *)
(*   - the cur_config RwLock (tokio::sync::RwLock, cache_client.rs:123),  *)
(*   - the latest_usage mutex (tokio::sync::Mutex, cache_client.rs:129).   *)
(* Tokio's locks are fair: waiters are served in FIFO order, and a reader  *)
(* queued behind a writer waits for it.  Each lock is a holder (or the set *)
(* of readers) and a FIFO queue of waiters.                                *)
(*                                                                         *)
(* The tasks:                                                              *)
(*   - POST /config handlers (main.rs:66-76 and update_config):           *)
(*     client mutex, then cur_config write lock, apply, release both;     *)
(*   - the report loop (main.rs:121-148 and report_usage): stop flag,     *)
(*     client mutex, usage reads, latest_usage mutex, push, release, sleep;*)
(*   - one estimator per app (cache_client.rs:545-588 and                 *)
(*     compute_mrc_via_aet): sample, cur_config read lock, allocation     *)
(*     check, latest_usage, history checks, release latest_usage, fit     *)
(*     still holding the read lock, publish, sleep;                       *)
(*   - Rocket's shutdown hook (main.rs:161-170): stop flag and abort of   *)
(*     the report task handle.                                            *)
(* A history record is abstracted to the set of apps it has usage for.    *)
(***************************************************************************)
EXTENDS Naturals, Sequences, FiniteSets

CONSTANTS
  Reqs,       \* POST /config requests that may arrive
  Apps,       \* the apps of id_container_map, one estimator task each
  Report,     \* the report task
  NoOne,      \* no holder
  HistLen,    \* LEN_PERF_HISTORY (100)
  ReadsFail   \* whether a usage read of an app may fail in report_usage

ASSUME AgentAssumption ==
  /\ HistLen \in Nat \ {0}
  /\ ReadsFail \in BOOLEAN
  /\ Report \notin Reqs \cup Apps /\ NoOne \notin Reqs \cup Apps \cup {Report}
  /\ Reqs \cap Apps = {}

Actors == Reqs \cup Apps \cup {Report}

VARIABLES
  client,     \* CacheClient mutex: [holder, q]
  history,    \* latest_usage mutex: [holder, q]
  rw,         \* cur_config RwLock: [writer, readers, q], q of [who, mode]
  curApps,    \* apps with an entry in cur_config.allocation_map
  cfgVer,     \* number of update_config calls applied
  hist,       \* latest_usage: the report records, oldest first
  reqPc, reqApps,
  rpPc,
  estPc,
  estVer,     \* cfgVer seen by each estimator when it read its allocation
  coeff,      \* est_coeff at the start of the estimator's current call
  mrc,        \* the MRC in PerfStat: none, flat (fit skipped) or fitted
  stop        \* the AtomicBool of main.rs:106

vars == <<client, history, rw, curApps, cfgVer, hist, reqPc, reqApps, rpPc,
          estPc, estVer, coeff, mrc, stop>>

-----------------------------------------------------------------------------
(* tokio::sync::Mutex: lock().await joins the FIFO queue; the head takes  *)
(* the lock when it is free; dropping the guard frees it.                 *)
Enqueue(m, a) == [m EXCEPT !.q = Append(@, a)]
CanLock(m, a) == m.holder = NoOne /\ m.q # << >> /\ Head(m.q) = a
Lock(m) == [holder |-> Head(m.q), q |-> Tail(m.q)]
Unlock(m) == [m EXCEPT !.holder = NoOne]

(* tokio::sync::RwLock: read() and write() join one FIFO queue; a reader  *)
(* at the head enters unless a writer holds the lock, a writer at the     *)
(* head enters once there is neither a writer nor a reader.               *)
RwEnqueue(a, mode) == [rw EXCEPT !.q = Append(@, [who |-> a, mode |-> mode])]
RemoveWaiter(q, a) == SelectSeq(q, LAMBDA w : w.who # a)

(* A reader-preferring lock: a queued reader enters whenever no writer    *)
(* holds the lock, overtaking a writer queued before it.                  *)
CanReadBarging(a) ==
  /\ \E i \in 1..Len(rw.q) : rw.q[i] = [who |-> a, mode |-> "R"]
  /\ rw.writer = NoOne
CanRead(a) ==
  /\ rw.q # << >> /\ Head(rw.q) = [who |-> a, mode |-> "R"]
  /\ rw.writer = NoOne
CanWrite(a) ==
  /\ rw.q # << >> /\ Head(rw.q) = [who |-> a, mode |-> "W"]
  /\ rw.writer = NoOne /\ rw.readers = {}

-----------------------------------------------------------------------------
(* A POST /config arrives for some apps: Rocket runs the handler, which    *)
(* awaits client.lock().                                                   *)
ReqArrive(r) ==
  /\ reqPc[r] = "absent"
  /\ \E S \in SUBSET Apps \ {{}} : reqApps' = [reqApps EXCEPT ![r] = S]
  /\ reqPc' = [reqPc EXCEPT ![r] = "waitC"]
  /\ client' = Enqueue(client, r)
  /\ UNCHANGED <<history, rw, curApps, cfgVer, hist, rpPc, estPc, estVer,
                 coeff, mrc, stop>>

(* The handler holds the client; update_config awaits cur_config.write(). *)
ReqLockClient(r) ==
  /\ reqPc[r] = "waitC" /\ CanLock(client, r)
  /\ client' = Lock(client)
  /\ rw' = RwEnqueue(r, "W")
  /\ reqPc' = [reqPc EXCEPT ![r] = "waitW"]
  /\ UNCHANGED <<history, curApps, cfgVer, hist, reqApps, rpPc, estPc, estVer,
                 coeff, mrc, stop>>

ReqLockWrite(r) ==
  /\ reqPc[r] = "waitW" /\ CanWrite(r)
  /\ rw' = [rw EXCEPT !.writer = r, !.q = RemoveWaiter(@, r)]
  /\ reqPc' = [reqPc EXCEPT ![r] = "apply"]
  /\ UNCHANGED <<client, history, curApps, cfgVer, hist, reqApps, rpPc, estPc,
                 estVer, coeff, mrc, stop>>

(* update_config: insert every app's allocation and run the enforcers     *)
(* (their 2 s sleeps happen with both locks held); the write guard drops  *)
(* at the end of update_config, the client guard when the handler returns.*)
ReqApply(r) ==
  /\ reqPc[r] = "apply"
  /\ curApps' = curApps \cup reqApps[r]
  /\ cfgVer' = cfgVer + 1
  /\ rw' = [rw EXCEPT !.writer = NoOne]
  /\ client' = Unlock(client)
  /\ reqPc' = [reqPc EXCEPT ![r] = "done"]
  /\ UNCHANGED <<history, hist, reqApps, rpPc, estPc, estVer, coeff,
                 mrc, stop>>

-----------------------------------------------------------------------------
(* Top of the report loop: leave it if stop is set, else await the client.*)
ReportCheck ==
  /\ rpPc = "check"
  /\ IF stop
     THEN rpPc' = "exited" /\ UNCHANGED client
     ELSE rpPc' = "waitC" /\ client' = Enqueue(client, Report)
  /\ UNCHANGED <<history, rw, curApps, cfgVer, hist, reqPc, reqApps, estPc,
                 estVer, coeff, mrc, stop>>

(* report_usage up to latest_usage.lock(): the memory reads (an app whose *)
(* read fails is left out of the record) and the perf averages; then it   *)
(* awaits the history mutex, still holding the client.                    *)
ReportLockClient ==
  /\ rpPc = "waitC" /\ CanLock(client, Report)
  /\ client' = Lock(client)
  /\ history' = Enqueue(history, Report)
  /\ rpPc' = "waitL"
  /\ UNCHANGED <<rw, curApps, cfgVer, hist, reqPc, reqApps, estPc, estVer,
                 coeff, mrc, stop>>

(* The record appended to latest_usage, with the oldest one removed past   *)
(* LEN_PERF_HISTORY entries.                                              *)
PushRecord(h, rec) ==
  IF Len(h) + 1 > HistLen THEN Tail(Append(h, rec)) ELSE Append(h, rec)

(* Push the record, send_usage (spawned), drop both guards, sleep 1 s.    *)
ReportPush ==
  /\ rpPc = "waitL" /\ CanLock(history, Report)
  /\ \E rec \in IF ReadsFail THEN SUBSET Apps ELSE {Apps} :
        hist' = PushRecord(hist, rec)
  /\ history' = [Lock(history) EXCEPT !.holder = NoOne]
  /\ client' = Unlock(client)
  /\ rpPc' = "sleep"
  /\ UNCHANGED <<rw, curApps, cfgVer, reqPc, reqApps, estPc, estVer, coeff,
                 mrc, stop>>

ReportSleep ==
  /\ rpPc = "sleep"
  /\ rpPc' = "check"
  /\ UNCHANGED <<client, history, rw, curApps, cfgVer, hist, reqPc, reqApps,
                 estPc, estVer, coeff, mrc, stop>>

(* What collect_perf_pebs hands to the estimator once kernel addresses    *)
(* are filtered out: nothing when the cgroup path is unknown, perf record  *)
(* or perf script fails, or no user-space address was sampled; otherwise   *)
(* the sampled page addresses.                                            *)
PebsOutcome == {"none", "addresses"}

(* How the fit of compute_mrc_via_aet ends: a miss ratio of 1 or more      *)
(* returns None; a cache already filled by the detected pages skips the    *)
(* regression and publishes an MRC of zeros; otherwise compute_exponent.   *)
FitOutcome == {"missRatioHigh", "cacheFilled", "fit"}

(* How compute_exponent ends: the shape phase or the MR phase leaves the   *)
(* valid range (NaN, infinite or negative exponent, beta or gamma); the MR  *)
(* phase converges; or the iterations run out with the hit rate within 5%  *)
(* or 0.03 of the target, or not.                                          *)
ExponentOutcome == {"diverged", "converged", "withinError", "outOfError"}

(* compute_exponent returns Some (and sets prev_exponent, prev_coeff).     *)
ExponentFound(o) == o \in {"converged", "withinError"}

-----------------------------------------------------------------------------
(* Top of the estimator loop (line 564): est_coeff is set to the default  *)
(* again; then collect_perf_pebs.  No samples: the call returns None.     *)
EstSample(e) ==
  /\ estPc[e] = "sample"
  /\ coeff' = [coeff EXCEPT ![e] = "default"]
  /\ \E p \in PebsOutcome :
       \/ p = "none" /\ estPc' = [estPc EXCEPT ![e] = "sleep"] /\ UNCHANGED rw
       \/ /\ p = "addresses"
          /\ estPc' = [estPc EXCEPT ![e] = "waitR"] /\ rw' = RwEnqueue(e, "R")
  /\ UNCHANGED <<client, history, curApps, cfgVer, hist, reqPc, reqApps, rpPc,
                 estVer, mrc, stop>>

(* cur_config.read(): read the app's allocation; none: return None.       *)
EstLockRead(e) ==
  /\ estPc[e] = "waitR" /\ CanRead(e)
  /\ estVer' = [estVer EXCEPT ![e] = cfgVer]
  /\ IF e \in curApps
     THEN /\ rw' = [rw EXCEPT !.readers = @ \cup {e}, !.q = RemoveWaiter(@, e)]
          /\ history' = Enqueue(history, e)
          /\ estPc' = [estPc EXCEPT ![e] = "waitL"]
     ELSE /\ rw' = [rw EXCEPT !.q = RemoveWaiter(@, e)]
          /\ estPc' = [estPc EXCEPT ![e] = "sleep"]
          /\ UNCHANGED history
  /\ UNCHANGED <<client, curApps, cfgVer, hist, reqPc, reqApps, rpPc, coeff,
                 mrc, stop>>

(* Fewer than LEN_PERF_HISTORY records, or one without usage for the app: *)
(* return None, dropping both guards.                                     *)
EstTooShort(e) ==
  /\ estPc[e] = "waitL" /\ CanLock(history, e)
  /\ Len(hist) < HistLen \/ \E i \in 1..Len(hist) : e \notin hist[i]
  /\ history' = [Lock(history) EXCEPT !.holder = NoOne]
  /\ rw' = [rw EXCEPT !.readers = @ \ {e}]
  /\ estPc' = [estPc EXCEPT ![e] = "sleep"]
  /\ UNCHANGED <<client, curApps, cfgVer, hist, reqPc, reqApps, rpPc, estVer,
                 coeff, mrc, stop>>

(* EstHistOk with the cur_config read guard dropped together with        *)
(* latest_use, before the fit.                                            *)
EstHistOkDropsRead(e) ==
  /\ estPc[e] = "waitL" /\ CanLock(history, e)
  /\ Len(hist) = HistLen /\ \A i \in 1..Len(hist) : e \in hist[i]
  /\ history' = [Lock(history) EXCEPT !.holder = NoOne]
  /\ rw' = [rw EXCEPT !.readers = @ \ {e}]
  /\ estPc' = [estPc EXCEPT ![e] = "fit"]
  /\ UNCHANGED <<client, curApps, cfgVer, hist, reqPc, reqApps, rpPc,
                 estVer, coeff, mrc, stop>>

(* The history is complete: average it, drop(latest_use) (line 1065) and  *)
(* go on to the fit with the cur_config read guard still held.            *)
EstHistOk(e) ==
  /\ estPc[e] = "waitL" /\ CanLock(history, e)
  /\ Len(hist) = HistLen /\ \A i \in 1..Len(hist) : e \in hist[i]
  /\ history' = [Lock(history) EXCEPT !.holder = NoOne]
  /\ estPc' = [estPc EXCEPT ![e] = "fit"]
  /\ UNCHANGED <<client, rw, curApps, cfgVer, hist, reqPc, reqApps, rpPc,
                 estVer, coeff, mrc, stop>>

(* The rest of compute_mrc_via_aet: it returns None (miss ratio >= 1, or  *)
(* compute_exponent fails), or the cache covers every detected page and   *)
(* the fit is skipped, or compute_exponent stores its coefficients into   *)
(* est_coeff; an MRC is stored into PerfStat (update_mrc).  The read      *)
(* guard drops on return; the loop sleeps out MEASURE_DURATION_SECS.      *)
EstFit(e) ==
  /\ estPc[e] = "fit"
  /\ \E f \in FitOutcome, o \in ExponentOutcome :
       \/ f = "missRatioHigh" /\ UNCHANGED <<coeff, mrc>>
       \/ /\ f = "cacheFilled"
          /\ mrc' = [mrc EXCEPT ![e] = "flat"] /\ UNCHANGED <<coeff>>
       \/ f = "fit" /\ ~ExponentFound(o) /\ UNCHANGED <<coeff, mrc>>
       \/ /\ f = "fit" /\ ExponentFound(o)
          /\ coeff' = [coeff EXCEPT ![e] = "fitted"]
          /\ mrc' = [mrc EXCEPT ![e] = "fitted"]
  /\ rw' = [rw EXCEPT !.readers = @ \ {e}]
  /\ estPc' = [estPc EXCEPT ![e] = "sleep"]
  /\ UNCHANGED <<client, history, curApps, cfgVer, hist, reqPc, reqApps, rpPc,
                 estVer, stop>>

EstSleep(e) ==
  /\ estPc[e] = "sleep"
  /\ estPc' = [estPc EXCEPT ![e] = "sample"]
  /\ UNCHANGED <<client, history, rw, curApps, cfgVer, hist, reqPc, reqApps,
                 rpPc, estVer, coeff, mrc, stop>>

-----------------------------------------------------------------------------
(* Rocket's on_shutdown: stop.store(true), then abort() on the report     *)
(* task's JoinHandle, which does nothing to a spawn_blocking task that is *)
(* already running.  What follows -- launch() returning, main returning   *)
(* and the runtime dropping the blocking tasks after its shutdown timeout *)
(* -- ends the process and is not modelled: the tasks just stop being     *)
(* scheduled.                                                              *)
Shutdown ==
  /\ ~stop
  /\ stop' = TRUE
  /\ UNCHANGED <<client, history, rw, curApps, cfgVer, hist, reqPc, reqApps,
                 rpPc, estPc, estVer, coeff, mrc>>

Init ==
  /\ client = [holder |-> NoOne, q |-> << >>]
  /\ history = [holder |-> NoOne, q |-> << >>]
  /\ rw = [writer |-> NoOne, readers |-> {}, q |-> << >>]
  /\ curApps = {} /\ cfgVer = 0
  /\ hist = << >>
  /\ reqPc = [r \in Reqs |-> "absent"] /\ reqApps = [r \in Reqs |-> {}]
  /\ rpPc = "check"
  /\ estPc = [e \in Apps |-> "sample"]
  /\ estVer = [e \in Apps |-> 0]
  /\ coeff = [e \in Apps |-> "default"]
  /\ mrc = [e \in Apps |-> "none"]
  /\ stop = FALSE

Next ==
  \/ \E r \in Reqs : ReqArrive(r) \/ ReqLockClient(r) \/ ReqLockWrite(r)
                     \/ ReqApply(r)
  \/ ReportCheck \/ ReportLockClient \/ ReportPush \/ ReportSleep
  \/ \E e \in Apps : EstSample(e) \/ EstLockRead(e) \/ EstTooShort(e)
                     \/ EstHistOk(e) \/ EstFit(e) \/ EstSleep(e)
  \/ Shutdown

(* Every task that can run eventually runs: tokio's workers run every     *)
(* ready task, and spawn_blocking tasks are OS threads.                    *)
Fairness ==
  /\ \A r \in Reqs : WF_vars(ReqLockClient(r) \/ ReqLockWrite(r) \/ ReqApply(r))
  /\ WF_vars(ReportCheck \/ ReportLockClient \/ ReportPush \/ ReportSleep)
  /\ \A e \in Apps : WF_vars(EstSample(e) \/ EstLockRead(e) \/ EstTooShort(e)
                             \/ EstHistOk(e) \/ EstFit(e) \/ EstSleep(e))

Spec == Init /\ [][Next]_vars /\ Fairness

-----------------------------------------------------------------------------
(* A POST /config handler that has started always returns: it gets the    *)
(* CacheClient mutex and then the cur_config write lock, although the     *)
(* estimators keep taking the read lock and the report loop keeps taking  *)
(* the client mutex every second.                                         *)
ConfigEventuallyApplied ==
  \A r \in Reqs : reqPc[r] = "waitC" ~> reqPc[r] = "done"

(* The cache size an estimator read from cur_config (line 1011) is still   *)
(* the agent's allocation while it uses the history and fits the model:   *)
(* no update_config can run between the read and the end of the fit.      *)
FitSeesCurrentAllocation ==
  \A e \in Apps : estPc[e] \in {"waitL", "fit"} => estVer[e] = cfgVer
=============================================================================

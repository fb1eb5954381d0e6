------------------------ MODULE RunnerLifecycleProofs ------------------------
(* Proofs about RunnerLifecycle, for any number of processes and of open    *)
(* run() calls and for every set of intervals.  The argument: a lock        *)
(* granted with interval a lives for 2a, the suicide timer set with         *)
(* interval b fires after 1.1b, and the two waits for Redis add at most     *)
(* 2*MaxDelay; TimingOK says that the lock is the longest of the three.     *)
EXTENDS RunnerLifecycle, TLAPS

LEMMA DurationTypes ==
    \A i \in Intervals : SuicideAfter(i) \in Nat /\ LockTtl(i) \in Nat
BY IntervalsAssumption DEF SuicideAfter, LockTtl

LEMMA TypeInit == Init => TypeOK
<1> SUFFICES ASSUME Init PROVE TypeOK
  OBVIOUS
<1> QED BY DEF Init, TypeOK, Pcs

TimerTypes ==
    /\ suicide \in [Instances -> [Slots -> {"off", "armed", "deleting"}]]
    /\ age \in [Instances -> [Slots -> Nat]]
    /\ limit \in [Instances -> [Slots -> Nat]]

LEMMA StopTimerType ==
    ASSUME TypeOK, NEW i \in Instances, NEW s \in Slots, StopTimer(i, s) \/ UNCHANGED timerVars
    PROVE  TimerTypes'
<1>1. CASE StopTimer(i, s)
  BY <1>1 DEF TypeOK, TimerTypes, StopTimer
<1>2. CASE UNCHANGED timerVars
  BY <1>2 DEF TypeOK, TimerTypes, timerVars
<1> QED BY <1>1, <1>2

LEMMA TypeNext == TypeOK /\ [Next]_vars => TypeOK'
<1> SUFFICES ASSUME TypeOK, [Next]_vars PROVE TypeOK'
  OBVIOUS
<1> USE DEF TypeOK, Pcs, callVars, timerVars, tickVars, lockVars, healthVars
<1>1. ASSUME NEW i \in Instances, NEW s \in Slots, CallStep(i, s) PROVE TypeOK'
  <2>1. CASE Reschedule(i, s)
    BY <2>1, IntervalsAssumption DEF Reschedule, Register
  <2>2. CASE Fire(i, s)
    BY <2>2, DurationTypes DEF Fire
  <2>3. CASE LockGranted(i, s)
    BY <2>3 DEF LockGranted
  <2>4. CASE LockRefused(i, s)
    BY <2>4 DEF LockRefused
  <2>5. CASE GrantLost(i, s)
    BY <2>5 DEF GrantLost
  <2>6. CASE StartExecute(i, s)
    BY <2>6, DurationTypes DEF StartExecute
  <2>7. CASE ExecuteDone(i, s)
    <3>1. StopTimer(i, s) \/ UNCHANGED timerVars
      BY <2>7 DEF ExecuteDone
    <3>2. TimerTypes'
      BY <3>1, StopTimerType
    <3> QED BY <2>7, <3>2 DEF ExecuteDone, TimerTypes
  <2>8. CASE ExecuteFailed(i, s)
    BY <2>8 DEF ExecuteFailed
  <2>9. CASE Release(i, s)
    BY <2>9 DEF Release
  <2>10. CASE ReleaseFailed(i, s)
    BY <2>10 DEF ReleaseFailed
  <2>11. CASE FinishRun(i, s)
    <3>1. StopTimer(i, s) \/ UNCHANGED timerVars
      BY <2>11 DEF FinishRun
    <3>2. TimerTypes'
      BY <3>1, StopTimerType
    <3> QED BY <2>11, <3>2 DEF FinishRun, TimerTypes
  <2>12. CASE SuicideFires(i, s)
    BY <2>12 DEF SuicideFires
  <2>13. CASE SuicideShutdown(i, s)
    <3>1. StopTimer(i, s) \/ UNCHANGED timerVars
      BY <2>13 DEF SuicideShutdown
    <3>2. TimerTypes'
      BY <3>1, StopTimerType
    <3>3. owner' \in [Instances -> Slots \cup {Nobody}] /\ ttl' \in [Instances -> Nat]
      <4>1. CASE UNCHANGED lockVars
        BY <4>1
      <4>2. CASE owner' = [owner EXCEPT ![i] = Nobody] /\ ttl' = [ttl EXCEPT ![i] = 0]
        BY <4>2
      <4> QED BY <2>13, <4>1, <4>2 DEF SuicideShutdown
    <3>4. phase' \in [Instances -> {"up", "closing", "destroyed", "down"}]
      BY <2>13 DEF SuicideShutdown
    <3> QED BY <2>13, <3>2, <3>3, <3>4 DEF SuicideShutdown, TimerTypes
  <2> QED BY <1>1, <2>1, <2>2, <2>3, <2>4, <2>5, <2>6, <2>7, <2>8, <2>9, <2>10, <2>11, <2>12, <2>13 DEF CallStep
<1>2. ASSUME NEW i \in Instances, ProcessStep(i) PROVE TypeOK'
  <2>1. CASE FirstSchedule(i)
    BY <2>1, IntervalsAssumption DEF FirstSchedule, Register
  <2>2. CASE Sigterm(i)
    BY <2>2 DEF Sigterm
  <2>3. CASE DestroyModule(i)
    BY <2>3 DEF DestroyModule
  <2>4. CASE Exit(i)
    BY <2>4 DEF Exit, Gone
  <2>5. CASE Crash(i)
    BY <2>5 DEF Crash, Gone
  <2>6. CASE Restart(i)
    BY <2>6 DEF Restart
  <2>7. CASE Healthz(i)
    BY <2>7 DEF Healthz
  <2> QED BY <1>2, <2>1, <2>2, <2>3, <2>4, <2>5, <2>6, <2>7 DEF ProcessStep
<1>3. CASE Time
  <2>0. \A n \in Nat : Less(n) \in Nat
    BY DEF Less
  <2>1. ticker' \in [Instances -> Nat] /\ ttl' \in [Instances -> Nat]
    BY <1>3, <2>0 DEF Time
  <2>2. owner' \in [Instances -> Slots \cup {Nobody}]
    BY <1>3 DEF Time
  <2>3. wait' \in [Instances -> [Slots -> Nat]] /\ age' \in [Instances -> [Slots -> Nat]]
    BY <1>3 DEF Time
  <2>4. elapsed' \in [Instances -> Nat]
    BY <1>3 DEF Time
  <2> QED BY <1>3, <2>1, <2>2, <2>3, <2>4 DEF Time
<1>4. CASE UNCHANGED vars
  BY <1>4 DEF vars
<1> QED BY <1>1, <1>2, <1>3, <1>4 DEF Next

(* Every reachable state is well typed (RunnerLifecycle).                   *)
THEOREM RunnerTypeCorrect == Spec => []TypeOK
BY TypeInit, TypeNext, PTL DEF Spec

-----------------------------------------------------------------------------
LEMMA LockInit == Init => LockInv
<1> SUFFICES ASSUME Init PROVE LockInv
  OBVIOUS
<1> QED BY DelayAssumption DEF Init, LockInv, SlotInv, Healthy

LEMMA LockNext ==
    ASSUME TimingOK, TypeOK, LockInv, [Next]_vars
    PROVE  LockInv'
<1> USE DelayAssumption, SlotsAssumption
<1> USE DEF TypeOK, Pcs, callVars, timerVars, tickVars, lockVars, healthVars
<1>1. ASSUME NEW i \in Instances, NEW s \in Slots, CallStep(i, s) PROVE LockInv'
  <2> SUFFICES ASSUME NEW j \in Instances, NEW t \in Slots
               PROVE  /\ Healthy(j)' => SlotInv(j, t)'
                      /\ phase'[j] = "down" =>
                           pc'[j][t] = "idle" /\ wait'[j][t] = 0 /\ suicide'[j][t] = "off"
                      /\ pc'[j][t] \in {"occupying", "granted"} => suicide'[j][t] = "off"
    BY DEF LockInv
  <2>0. /\ Healthy(j) => SlotInv(j, t) /\ SlotInv(j, s)
        /\ phase[j] = "down" =>
             pc[j][t] = "idle" /\ wait[j][t] = 0 /\ suicide[j][t] = "off"
        /\ pc[j][t] \in {"occupying", "granted"} => suicide[j][t] = "off"
    BY DEF LockInv
  <2>1. CASE Reschedule(i, s)
    BY <2>0, <2>1, DurationTypes DEF Reschedule, Register, Healthy, SlotInv, Alive
  <2>2. CASE Fire(i, s)
    BY <2>0, <2>2, DurationTypes, TimingOK DEF Fire, TimingOK, Healthy, SlotInv, Alive
  <2>3. CASE LockGranted(i, s)
    BY <2>0, <2>3, DurationTypes DEF LockGranted, Healthy, SlotInv, Alive
  <2>4. CASE LockRefused(i, s)
    BY <2>0, <2>4, DurationTypes DEF LockRefused, Healthy, SlotInv, Alive
  <2>5. CASE GrantLost(i, s)
    BY <2>0, <2>5, DurationTypes DEF GrantLost, Healthy, SlotInv, Alive
  <2>6. CASE StartExecute(i, s)
    <3>1. interval[i] \in Intervals /\ SuicideAfter(interval[i]) \in Nat
      BY DurationTypes
    <3>2. suicide[i][s] = "off"
      BY <2>6 DEF StartExecute, LockInv
    <3>3. CASE j = i /\ t = s /\ Healthy(i)
      <4>1. owner[i] = s /\ ttl[i] > 0 /\ wait[i][s] <= MaxDelay
        BY <2>0, <2>6, <3>3 DEF StartExecute, SlotInv
      <4>2. ttl[i] + wait[i][s] > SuicideAfter(interval[i]) + 2 * MaxDelay
        BY <2>0, <2>6, <3>1, <3>3 DEF StartExecute, SlotInv
      <4>3. ttl[i] + 0 > SuicideAfter(interval[i]) + MaxDelay
        BY <3>1, <4>1, <4>2
      <4> QED BY <2>6, <3>1, <3>3, <4>1, <4>3 DEF StartExecute, Healthy, SlotInv
    <3>4. CASE ~(j = i /\ t = s) \/ ~Healthy(i)
      BY <2>0, <2>6, <3>4, <3>2 DEF StartExecute, Healthy, SlotInv, Alive
    <3> QED BY <3>3, <3>4
  <2>7. CASE ExecuteDone(i, s)
    BY <2>0, <2>7, DurationTypes DEF ExecuteDone, StopTimer, Healthy, SlotInv, Alive
  <2>8. CASE ExecuteFailed(i, s)
    BY <2>0, <2>8, DurationTypes DEF ExecuteFailed, Healthy, SlotInv, Alive
  <2>9. CASE Release(i, s)
    BY <2>0, <2>9, DurationTypes DEF Release, Healthy, SlotInv, Alive
  <2>10. CASE ReleaseFailed(i, s)
    BY <2>0, <2>10, DurationTypes DEF ReleaseFailed, Healthy, SlotInv, Alive
  <2>11. CASE FinishRun(i, s)
    BY <2>0, <2>11, DurationTypes DEF FinishRun, StopTimer, Healthy, SlotInv, Alive
  <2>12. CASE SuicideFires(i, s)
    BY <2>0, <2>12, DurationTypes DEF SuicideFires, Healthy, SlotInv, Alive
  <2>13. CASE SuicideShutdown(i, s)
    BY <2>0, <2>13, DurationTypes DEF SuicideShutdown, StopTimer, Healthy, SlotInv, Alive
  <2> QED BY <1>1, <2>1, <2>2, <2>3, <2>4, <2>5, <2>6, <2>7, <2>8, <2>9, <2>10, <2>11, <2>12, <2>13 DEF CallStep
<1>2. ASSUME NEW i \in Instances, ProcessStep(i) PROVE LockInv'
  <2> SUFFICES ASSUME NEW j \in Instances, NEW t \in Slots
               PROVE  /\ Healthy(j)' => SlotInv(j, t)'
                      /\ phase'[j] = "down" =>
                           pc'[j][t] = "idle" /\ wait'[j][t] = 0 /\ suicide'[j][t] = "off"
                      /\ pc'[j][t] \in {"occupying", "granted"} => suicide'[j][t] = "off"
    BY DEF LockInv
  <2>0. /\ Healthy(j) => SlotInv(j, t)
        /\ phase[j] = "down" =>
             pc[j][t] = "idle" /\ wait[j][t] = 0 /\ suicide[j][t] = "off"
        /\ pc[j][t] \in {"occupying", "granted"} => suicide[j][t] = "off"
    BY DEF LockInv
  <2>1. CASE FirstSchedule(i)
    BY <2>0, <2>1 DEF FirstSchedule, Register, Healthy, SlotInv, Alive
  <2>2. CASE Sigterm(i)
    BY <2>0, <2>2 DEF Sigterm, Healthy, SlotInv, Alive
  <2>3. CASE DestroyModule(i)
    BY <2>0, <2>3 DEF DestroyModule, Healthy, SlotInv, Alive
  <2>4. CASE Exit(i)
    BY <2>0, <2>4 DEF Exit, Gone, Healthy, SlotInv, Alive
  <2>5. CASE Crash(i)
    BY <2>0, <2>5 DEF Crash, Gone, Healthy, SlotInv, Alive
  <2>6. CASE Restart(i)
    BY <2>0, <2>6 DEF Restart, Healthy, SlotInv, Alive
  <2>7. CASE Healthz(i)
    BY <2>0, <2>7 DEF Healthz, Healthy, SlotInv, Alive
  <2> QED BY <1>2, <2>1, <2>2, <2>3, <2>4, <2>5, <2>6, <2>7 DEF ProcessStep
<1>3. CASE Time
  <2> SUFFICES ASSUME NEW j \in Instances, NEW t \in Slots
               PROVE  /\ Healthy(j)' => SlotInv(j, t)'
                      /\ phase'[j] = "down" =>
                           pc'[j][t] = "idle" /\ wait'[j][t] = 0 /\ suicide'[j][t] = "off"
                      /\ pc'[j][t] \in {"occupying", "granted"} => suicide'[j][t] = "off"
    BY DEF LockInv
  <2>0. /\ Healthy(j) => SlotInv(j, t)
        /\ phase[j] = "down" =>
             pc[j][t] = "idle" /\ wait[j][t] = 0 /\ suicide[j][t] = "off"
        /\ pc[j][t] \in {"occupying", "granted"} => suicide[j][t] = "off"
        /\ CanWait(j)
    BY <1>3 DEF LockInv, Time
  <2> QED BY <1>3, <2>0, DurationTypes DEF Time, CanWait, InFlight, Less, Healthy, SlotInv
<1>4. CASE UNCHANGED vars
  BY <1>4 DEF vars, LockInv, SlotInv, Healthy
<1> QED BY <1>1, <1>2, <1>3, <1>4 DEF Next

LEMMA LockInvariant == ASSUME TimingOK PROVE Spec => []LockInv
<1>1. Init => LockInv
  BY LockInit
<1>2. TypeOK /\ LockInv /\ [Next]_vars => LockInv'
  BY LockNext
<1> QED BY <1>1, <1>2, RunnerTypeCorrect, PTL DEF Spec

(* The lock of an executing call is its own and unexpired until its DEL.    *)
THEOREM RunnerLockOutlivesExecution ==
    ASSUME TimingOK PROVE Spec => []LockOutlivesExecution
<1>1. LockInv => LockOutlivesExecution
  BY DEF LockInv, SlotInv, LockOutlivesExecution
<1> QED BY <1>1, LockInvariant, PTL

(* Two calls of run() of a process never execute together.                  *)
THEOREM RunnerMutualExclusion ==
    ASSUME TimingOK PROVE Spec => []OneExecutionPerProcess
<1>1. LockOutlivesExecution => OneExecutionPerProcess
  BY DEF LockOutlivesExecution, OneExecutionPerProcess, Executing
<1> QED BY <1>1, RunnerLockOutlivesExecution, PTL
=============================================================================

--------------------------- MODULE RunnerLifecycle ---------------------------
(***************************************************************************)
(* The lifecycle of a worker process that repeats one Runner               *)
(* (src/src/runner/runner.ts, runner.service.ts, the Redis lock of         *)
(* utility/lock, the shutdown signal of utility/shutdown and main.ts).     *)
(*                                                                         *)
(* Every interval the scheduler calls run() again, whether or not the      *)
(* previous call has returned.  A call first takes a Redis lock with a     *)
(* time to live of twice the interval, then executes, then deletes the     *)
(* lock; a call that is still executing 1.1 intervals after it was         *)
(* granted the lock deletes the lock and shuts the process down.  Nothing  *)
(* but these three durations keeps two executions of a process apart, so   *)
(* the model has explicit time: Time advances every clock by one unit, and *)
(* due timers fire before it does.                                         *)
(***************************************************************************)
EXTENDS Integers, FiniteSets

CONSTANTS
    Instances,  \* worker processes of one WORKER_NAME
    Slots,      \* identities of the run() calls that can be open in a process
    Intervals,  \* values the runner_config row may give to intervalMs
    MaxDelay,   \* longest wait for an answer of Redis
    Nobody      \* no lock, or no call

VARIABLES
    phase,      \* "up", "closing" (app.close()), "destroyed" (hooks ran), "down"
    booting,    \* onModuleInit's scheduleRunner() still awaits getInterval()
    interval,   \* Runner.interval
    armed,      \* is the interval registered with the SchedulerRegistry?
    period,     \* the period it was created with
    ticker,     \* time until it fires
    pc,         \* where each run() call is
    wait,       \* how long the call has been waiting for Redis
    px,         \* expireTime argument of the call's SET
    suicide,    \* the call's suicide timer: "off", "armed", "deleting" (fired)
    age,        \* time since the timer was set
    limit,      \* timeout it was set with
    owner,      \* the call whose SET created the lock of this process
    ttl,        \* remaining time to live of that lock
    hasRun,     \* previousExecutedTime is set
    elapsed     \* time since previousExecutedTime

lockVars   == <<owner, ttl>>
timerVars  == <<suicide, age, limit>>
tickVars   == <<armed, period, ticker>>
callVars   == <<pc, wait, px>>
healthVars == <<hasRun, elapsed>>
vars == <<phase, booting, interval, tickVars, callVars, timerVars, lockVars, healthVars>>

(* Variants of the definitions below, each with one plausible mistake; they *)
(* belong to no specification and show what the properties detect.          *)
BugLateSuicide(i) == 3 * i               \* the timer outlasts the lock
BugShortTtl(i)    == i                   \* the lock lives for one interval
BugNegativeTtl(i) == i - 2 * i           \* the sign of expireTime is lost

SuicideAfter(i) == (11 * i) \div 10   \* interval * 1.1, truncated by setTimeout
LockTtl(i)      == 2 * i              \* interval * 2

MaxInterval == CHOOSE i \in Intervals : \A j \in Intervals : j <= i

ASSUME IntervalsAssumption == /\ Intervals \subseteq Nat \ {0}
                              /\ IsFiniteSet(Intervals) /\ Intervals # {}
ASSUME SlotsAssumption == Nobody \notin Slots
ASSUME DelayAssumption == MaxDelay \in Nat

Pcs == {"idle", "occupying", "granted", "executing", "releasing", "released", "scheduling"}

TypeOK ==
    /\ phase \in [Instances -> {"up", "closing", "destroyed", "down"}]
    /\ booting \in [Instances -> BOOLEAN]
    /\ interval \in [Instances -> Intervals]
    /\ armed \in [Instances -> BOOLEAN]
    /\ period \in [Instances -> Nat]
    /\ ticker \in [Instances -> Nat]
    /\ pc \in [Instances -> [Slots -> Pcs]]
    /\ wait \in [Instances -> [Slots -> Nat]]
    /\ px \in [Instances -> [Slots -> Nat]]
    /\ suicide \in [Instances -> [Slots -> {"off", "armed", "deleting"}]]
    /\ age \in [Instances -> [Slots -> Nat]]
    /\ limit \in [Instances -> [Slots -> Nat]]
    /\ owner \in [Instances -> Slots \cup {Nobody}]
    /\ ttl \in [Instances -> Nat]
    /\ hasRun \in [Instances -> BOOLEAN]
    /\ elapsed \in [Instances -> Nat]

-----------------------------------------------------------------------------
(* A process that starts: a new Runner with a new uuid, hence a lock key    *)
(* no other process and no earlier incarnation uses.                        *)
Init ==
    /\ phase = [i \in Instances |-> "up"]
    /\ booting = [i \in Instances |-> TRUE]
    /\ interval \in [Instances -> Intervals]
    /\ armed = [i \in Instances |-> FALSE]
    /\ period = [i \in Instances |-> 0]
    /\ ticker = [i \in Instances |-> 0]
    /\ pc = [i \in Instances |-> [s \in Slots |-> "idle"]]
    /\ wait = [i \in Instances |-> [s \in Slots |-> 0]]
    /\ px = [i \in Instances |-> [s \in Slots |-> 0]]
    /\ suicide = [i \in Instances |-> [s \in Slots |-> "off"]]
    /\ age = [i \in Instances |-> [s \in Slots |-> 0]]
    /\ limit = [i \in Instances |-> [s \in Slots |-> 0]]
    /\ owner = [i \in Instances |-> Nobody]
    /\ ttl = [i \in Instances |-> 0]
    /\ hasRun = [i \in Instances |-> FALSE]
    /\ elapsed = [i \in Instances |-> 0]

Alive(i) == phase[i] # "down"

(* No timer is left for the call.                                           *)
StopTimer(i, s) ==
    /\ suicide' = [suicide EXCEPT ![i][s] = "off"]
    /\ age' = [age EXCEPT ![i][s] = 0]
    /\ limit' = [limit EXCEPT ![i][s] = 0]

(* setInterval + addInterval with the period getInterval() just returned;   *)
(* an interval registered under the same name is deleted first.             *)
Register(i, v) ==
    /\ interval' = [interval EXCEPT ![i] = v]
    /\ armed' = [armed EXCEPT ![i] = TRUE]
    /\ period' = [period EXCEPT ![i] = v]
    /\ ticker' = [ticker EXCEPT ![i] = v]

(* scheduleRunner() of onModuleInit gets its configuration row.             *)
FirstSchedule(i) ==
    /\ Alive(i) /\ booting[i]
    /\ booting' = [booting EXCEPT ![i] = FALSE]
    /\ \E v \in Intervals : Register(i, v)
    /\ UNCHANGED <<phase, callVars, timerVars, lockVars, healthVars>>

(* The old interval is deleted, the new one never registered.               *)
BugRescheduleForgets(i, s) ==
    /\ Alive(i) /\ pc[i][s] = "scheduling"
    /\ pc' = [pc EXCEPT ![i][s] = "idle"]
    /\ armed' = [armed EXCEPT ![i] = FALSE]
    /\ UNCHANGED <<phase, booting, interval, period, ticker, wait, px, timerVars, lockVars,
                   healthVars>>

(* scheduleRunner() after a call of run() returned.  It does not look at    *)
(* the phase: a process being closed registers its interval again.          *)
Reschedule(i, s) ==
    /\ Alive(i) /\ pc[i][s] = "scheduling"
    /\ pc' = [pc EXCEPT ![i][s] = "idle"]
    /\ \E v \in Intervals : Register(i, v)
    /\ UNCHANGED <<phase, booting, wait, px, timerVars, lockVars, healthVars>>

(* The interval fires: run() starts and sends SET key now PX interval*2 NX. *)
(* The bound |Slots| caps the number of calls open at once.                 *)
Fire(i, s) ==
    /\ Alive(i) /\ armed[i] /\ ticker[i] = 0
    /\ pc[i][s] = "idle" /\ suicide[i][s] = "off"
    /\ ticker' = [ticker EXCEPT ![i] = period[i]]
    /\ pc' = [pc EXCEPT ![i][s] = "occupying"]
    /\ wait' = [wait EXCEPT ![i][s] = 0]
    /\ px' = [px EXCEPT ![i][s] = LockTtl(interval[i])]
    /\ UNCHANGED <<phase, booting, interval, armed, period, timerVars, lockVars, healthVars>>

(* Redis applies the SET: the key does not exist and is created ...         *)
LockGranted(i, s) ==
    /\ Alive(i) /\ pc[i][s] = "occupying" /\ ttl[i] = 0
    /\ owner' = [owner EXCEPT ![i] = s]
    /\ ttl' = [ttl EXCEPT ![i] = px[i][s]]
    /\ pc' = [pc EXCEPT ![i][s] = "granted"]
    /\ wait' = [wait EXCEPT ![i][s] = 0]
    /\ px' = [px EXCEPT ![i][s] = 0]
    /\ UNCHANGED <<phase, booting, interval, tickVars, timerVars, healthVars>>

(* ... or exists, or the command fails: occupyLock throws and run() returns. *)
LockRefused(i, s) ==
    /\ Alive(i) /\ pc[i][s] = "occupying"
    /\ pc' = [pc EXCEPT ![i][s] = "scheduling"]
    /\ wait' = [wait EXCEPT ![i][s] = 0]
    /\ px' = [px EXCEPT ![i][s] = 0]
    /\ UNCHANGED <<phase, booting, interval, tickVars, timerVars, lockVars, healthVars>>

(* The answer of a SET that created the lock is lost: run() returns and the *)
(* lock stays until it expires.                                             *)
GrantLost(i, s) ==
    /\ Alive(i) /\ pc[i][s] = "granted"
    /\ pc' = [pc EXCEPT ![i][s] = "scheduling"]
    /\ wait' = [wait EXCEPT ![i][s] = 0]
    /\ UNCHANGED <<phase, booting, interval, tickVars, px, timerVars, lockVars, healthVars>>

(* occupyLock returns: the suicide timer is set from the interval of now,   *)
(* and execute() starts.                                                    *)
StartExecute(i, s) ==
    /\ Alive(i) /\ pc[i][s] = "granted"
    /\ pc' = [pc EXCEPT ![i][s] = "executing"]
    /\ wait' = [wait EXCEPT ![i][s] = 0]
    /\ suicide' = [suicide EXCEPT ![i][s] = "armed"]
    /\ age' = [age EXCEPT ![i][s] = 0]
    /\ limit' = [limit EXCEPT ![i][s] = SuicideAfter(interval[i])]
    /\ UNCHANGED <<phase, booting, interval, tickVars, px, lockVars, healthVars>>

(* execute() resolves: isCompleted turns the timer into a no-op.  DEL is    *)
(* sent.                                                                    *)
ExecuteDone(i, s) ==
    /\ Alive(i) /\ pc[i][s] = "executing"
    /\ pc' = [pc EXCEPT ![i][s] = "releasing"]
    /\ wait' = [wait EXCEPT ![i][s] = 0]
    /\ IF suicide[i][s] = "armed" THEN StopTimer(i, s) ELSE UNCHANGED timerVars
    /\ UNCHANGED <<phase, booting, interval, tickVars, px, lockVars, healthVars>>

(* execute() rejects: the error is logged, isCompleted stays false and the  *)
(* timer keeps running while the DEL is under way.                          *)
ExecuteFailed(i, s) ==
    /\ Alive(i) /\ pc[i][s] = "executing"
    /\ pc' = [pc EXCEPT ![i][s] = "releasing"]
    /\ wait' = [wait EXCEPT ![i][s] = 0]
    /\ UNCHANGED <<phase, booting, interval, tickVars, px, timerVars, lockVars, healthVars>>

(* Redis applies the DEL, whoever set the key.                              *)
Release(i, s) ==
    /\ Alive(i) /\ pc[i][s] = "releasing"
    /\ owner' = [owner EXCEPT ![i] = Nobody]
    /\ ttl' = [ttl EXCEPT ![i] = 0]
    /\ pc' = [pc EXCEPT ![i][s] = "released"]
    /\ wait' = [wait EXCEPT ![i][s] = 0]
    /\ UNCHANGED <<phase, booting, interval, tickVars, px, timerVars, healthVars>>

(* The DEL fails: run() returns through its outer catch, the timer of a     *)
(* failed execution is never cleared.                                       *)
ReleaseFailed(i, s) ==
    /\ Alive(i) /\ pc[i][s] = "releasing"
    /\ pc' = [pc EXCEPT ![i][s] = "scheduling"]
    /\ wait' = [wait EXCEPT ![i][s] = 0]
    /\ UNCHANGED <<phase, booting, interval, tickVars, px, timerVars, lockVars, healthVars>>

(* releaseLock returns: clearTimeout, previousExecutedTime := now.          *)
FinishRun(i, s) ==
    /\ Alive(i) /\ pc[i][s] = "released"
    /\ pc' = [pc EXCEPT ![i][s] = "scheduling"]
    /\ wait' = [wait EXCEPT ![i][s] = 0]
    /\ IF suicide[i][s] = "armed" THEN StopTimer(i, s) ELSE UNCHANGED timerVars
    /\ hasRun' = [hasRun EXCEPT ![i] = TRUE]
    /\ elapsed' = [elapsed EXCEPT ![i] = 0]
    /\ UNCHANGED <<phase, booting, interval, tickVars, px, lockVars>>

(* The timer of a call that is not completed fires: suicide() sends DEL.    *)
SuicideFires(i, s) ==
    /\ Alive(i) /\ suicide[i][s] = "armed" /\ age[i][s] = limit[i][s]
    /\ suicide' = [suicide EXCEPT ![i][s] = "deleting"]
    /\ UNCHANGED <<phase, booting, interval, tickVars, callVars, age, limit, lockVars, healthVars>>

(* shutdown() after the DEL instead of in the finally block.                *)
BugShutdownNotFinally(i, s) ==
    /\ Alive(i) /\ suicide[i][s] = "deleting"
    /\ StopTimer(i, s)
    /\ \/ /\ owner' = [owner EXCEPT ![i] = Nobody]
          /\ ttl' = [ttl EXCEPT ![i] = 0]
          /\ phase' = [phase EXCEPT ![i] = IF @ = "up" THEN "closing" ELSE @]
       \/ UNCHANGED <<phase, lockVars>>
    /\ UNCHANGED <<booting, interval, tickVars, callVars, healthVars>>

(* The DEL of suicide() succeeds or fails; shutdown() runs in any case.     *)
SuicideShutdown(i, s) ==
    /\ Alive(i) /\ suicide[i][s] = "deleting"
    /\ StopTimer(i, s)
    /\ phase' = [phase EXCEPT ![i] = IF @ = "up" THEN "closing" ELSE @]
    /\ \/ /\ owner' = [owner EXCEPT ![i] = Nobody]
          /\ ttl' = [ttl EXCEPT ![i] = 0]
       \/ UNCHANGED lockVars
    /\ UNCHANGED <<booting, interval, tickVars, callVars, healthVars>>

(* SIGTERM: the shutdown hooks of Nest close the application.               *)
Sigterm(i) ==
    /\ phase[i] = "up"
    /\ phase' = [phase EXCEPT ![i] = "closing"]
    /\ UNCHANGED <<booting, interval, tickVars, callVars, timerVars, lockVars, healthVars>>

(* onModuleDestroy: deleteInterval.                                         *)
DestroyModule(i) ==
    /\ phase[i] = "closing" /\ armed[i]
    /\ phase' = [phase EXCEPT ![i] = "destroyed"]
    /\ armed' = [armed EXCEPT ![i] = FALSE]
    /\ ticker' = [ticker EXCEPT ![i] = 0]
    /\ UNCHANGED <<booting, interval, period, callVars, timerVars, lockVars, healthVars>>

(* What is left of a process that is gone.  Its lock, if any, expires under *)
(* a key no one uses again.                                                 *)
Gone(i) ==
    /\ phase' = [phase EXCEPT ![i] = "down"]
    /\ booting' = [booting EXCEPT ![i] = FALSE]
    /\ armed' = [armed EXCEPT ![i] = FALSE]
    /\ period' = [period EXCEPT ![i] = 0]
    /\ ticker' = [ticker EXCEPT ![i] = 0]
    /\ pc' = [pc EXCEPT ![i] = [s \in Slots |-> "idle"]]
    /\ wait' = [wait EXCEPT ![i] = [s \in Slots |-> 0]]
    /\ px' = [px EXCEPT ![i] = [s \in Slots |-> 0]]
    /\ suicide' = [suicide EXCEPT ![i] = [s \in Slots |-> "off"]]
    /\ age' = [age EXCEPT ![i] = [s \in Slots |-> 0]]
    /\ limit' = [limit EXCEPT ![i] = [s \in Slots |-> 0]]
    /\ owner' = [owner EXCEPT ![i] = Nobody]
    /\ ttl' = [ttl EXCEPT ![i] = 0]
    /\ hasRun' = [hasRun EXCEPT ![i] = FALSE]
    /\ elapsed' = [elapsed EXCEPT ![i] = 0]
    /\ UNCHANGED interval

(* app.close() is done: process.exit(1), or the signal is raised again.     *)
Exit(i) == phase[i] = "destroyed" /\ Gone(i)

(* The process dies: it is killed; getInterval() of scheduleRunner() fails  *)
(* and nobody handles the rejection; deleteInterval finds no interval.      *)
Crash(i) == Alive(i) /\ Gone(i)

(* The container is started again.                                          *)
Restart(i) ==
    /\ phase[i] = "down"
    /\ phase' = [phase EXCEPT ![i] = "up"]
    /\ booting' = [booting EXCEPT ![i] = TRUE]
    /\ UNCHANGED <<interval, tickVars, callVars, timerVars, lockVars, healthVars>>

(* GET healthz reads the configuration row too, at any time.                *)
Healthz(i) ==
    /\ Alive(i)
    /\ \E v \in Intervals \ {interval[i]} : interval' = [interval EXCEPT ![i] = v]
    /\ UNCHANGED <<phase, booting, tickVars, callVars, timerVars, lockVars, healthVars>>

-----------------------------------------------------------------------------
InFlight == {"occupying", "granted", "releasing", "released"}

(* Timers that are due fire, and answers of Redis that have taken MaxDelay  *)
(* arrive, before time advances; the DEL of suicide() is not delayed.       *)
CanWait(i) ==
    /\ ~(armed[i] /\ ticker[i] = 0)
    /\ \A s \in Slots :
         /\ pc[i][s] \in InFlight => wait[i][s] < MaxDelay
         /\ suicide[i][s] = "armed" => age[i][s] < limit[i][s]
         /\ suicide[i][s] # "deleting"

Less(n) == IF n = 0 THEN 0 ELSE n - 1

Time ==
    /\ \A i \in Instances : CanWait(i)
    /\ ticker' = [i \in Instances |-> Less(ticker[i])]
    /\ wait' = [i \in Instances |-> [s \in Slots |->
                   IF pc[i][s] \in InFlight THEN wait[i][s] + 1 ELSE wait[i][s]]]
    /\ age' = [i \in Instances |-> [s \in Slots |->
                   IF suicide[i][s] = "armed" THEN age[i][s] + 1 ELSE age[i][s]]]
    /\ ttl' = [i \in Instances |-> Less(ttl[i])]
    /\ owner' = [i \in Instances |-> IF ttl[i] <= 1 THEN Nobody ELSE owner[i]]
    /\ elapsed' = [i \in Instances |->
                      IF hasRun[i] /\ elapsed[i] <= MaxInterval
                        THEN elapsed[i] + 1 ELSE elapsed[i]]
    /\ UNCHANGED <<phase, booting, interval, armed, period, pc, px, suicide, limit, hasRun>>

CallStep(i, s) ==
    \/ Reschedule(i, s)
    \/ Fire(i, s)
    \/ LockGranted(i, s)
    \/ LockRefused(i, s)
    \/ GrantLost(i, s)
    \/ StartExecute(i, s)
    \/ ExecuteDone(i, s)
    \/ ExecuteFailed(i, s)
    \/ Release(i, s)
    \/ ReleaseFailed(i, s)
    \/ FinishRun(i, s)
    \/ SuicideFires(i, s)
    \/ SuicideShutdown(i, s)

ProcessStep(i) ==
    \/ FirstSchedule(i)
    \/ Sigterm(i)
    \/ DestroyModule(i)
    \/ Exit(i)
    \/ Crash(i)
    \/ Restart(i)
    \/ Healthz(i)

Next == \/ \E i \in Instances : ProcessStep(i) \/ \E s \in Slots : CallStep(i, s)
        \/ Time

Spec == Init /\ [][Next]_vars
(* Liveness assumes that the event loop turns, that time passes and that    *)
(* Redis and the database answer, be it with an error.  Nothing is assumed  *)
(* of execute(), which may hang, nor of crashes, signals and probes.        *)
Fairness ==
    /\ WF_vars(Time)
    /\ \A i \in Instances :
         /\ WF_vars(FirstSchedule(i)) /\ WF_vars(DestroyModule(i)) /\ WF_vars(Exit(i))
         /\ \A s \in Slots :
              /\ WF_vars(Reschedule(i, s))
              /\ WF_vars(Fire(i, s))
              /\ WF_vars(LockGranted(i, s) \/ LockRefused(i, s))
              /\ WF_vars(GrantLost(i, s) \/ StartExecute(i, s))
              /\ WF_vars(Release(i, s) \/ ReleaseFailed(i, s))
              /\ WF_vars(FinishRun(i, s))
              /\ WF_vars(SuicideFires(i, s))
              /\ WF_vars(SuicideShutdown(i, s))

FairSpec == Spec /\ Fairness

(* Redis does not fail for ever: a SET that can be granted again and again  *)
(* is granted, and its answer arrives, infinitely often.                    *)
RedisRecovers ==
    \A i \in Instances : /\ SF_vars(\E s \in Slots : LockGranted(i, s))
                         /\ SF_vars(\E s \in Slots : StartExecute(i, s))

RecoveringSpec == FairSpec /\ RedisRecovers

-----------------------------------------------------------------------------
(* What the durations have to satisfy for the lock to do its job: the       *)
(* suicide timer set from any configured interval fires, and the DEL is     *)
(* answered, before a lock taken under any configured interval expires.     *)
TimingOK == \A a, b \in Intervals : SuicideAfter(a) + 2 * MaxDelay < LockTtl(b)

(* The process has not begun to shut itself down.                           *)
Healthy(i) == phase[i] = "up" /\ \A s \in Slots : suicide[i][s] # "deleting"

Executing(i) == {s \in Slots : pc[i][s] = "executing"}

(* Overlapping calls of run() never execute together: when the interval     *)
(* fires during an execution the new call is turned away by the lock of     *)
(* the first (runner.ts run()), until the process gives itself up.          *)
OneExecutionPerProcess ==
    \A i \in Instances : Healthy(i) =>
        \A s, t \in Executing(i) : s = t

(* The lock in Redis is the executing call's own lock, and has not expired, *)
(* until that call's DEL is applied: releaseLock, which deletes the key     *)
(* without looking at its value, never deletes the lock of another call.    *)
LockOutlivesExecution ==
    \A i \in Instances : Healthy(i) =>
        \A s \in Slots : pc[i][s] \in {"executing", "releasing"} =>
            owner[i] = s /\ ttl[i] > 0

(* The inductive form of the two: a lock that was granted outlives the wait *)
(* for the answer, the longest suicide timer and the wait for the DEL; an   *)
(* executing call's lock outlives its timer and the wait for the DEL.       *)
SlotInv(i, s) ==
    /\ pc[i][s] \in {"granted", "executing", "releasing"} => owner[i] = s /\ ttl[i] > 0
    /\ pc[i][s] = "occupying" =>
          \A a \in Intervals : px[i][s] > SuicideAfter(a) + 2 * MaxDelay
    /\ pc[i][s] = "granted" =>
          \A a \in Intervals : ttl[i] + wait[i][s] > SuicideAfter(a) + 2 * MaxDelay
    /\ pc[i][s] = "executing" =>
          /\ suicide[i][s] = "armed" /\ age[i][s] <= limit[i][s]
          /\ ttl[i] + age[i][s] > limit[i][s] + MaxDelay
    /\ pc[i][s] = "releasing" => ttl[i] + wait[i][s] > MaxDelay
    /\ wait[i][s] <= MaxDelay

LockInv ==
    /\ \A i \in Instances : Healthy(i) => \A s \in Slots : SlotInv(i, s)
    /\ \A i \in Instances : phase[i] = "down" =>
          \A s \in Slots : pc[i][s] = "idle" /\ wait[i][s] = 0 /\ suicide[i][s] = "off"
    /\ \A i \in Instances, s \in Slots :
          pc[i][s] \in {"occupying", "granted"} => suicide[i][s] = "off"

(* healthz() throws when the last completion is older than the interval.    *)
HealthzFails(i) == hasRun[i] /\ elapsed[i] > interval[i]

(* "Should only one runner running in the time": of all the processes that  *)
(* run the same worker, one executes.                                       *)
OneExecutionPerWorker ==
    \A i, j \in Instances : Executing(i) # {} /\ Executing(j) # {} => i = j

(* An execution that hangs ends with its process: the timer fires, the      *)
(* application closes and the process exits (runner.ts suicide(), main.ts). *)
HungRunEndsProcess ==
    \A i \in Instances, s \in Slots :
        pc[i][s] = "executing" ~> pc[i][s] # "executing"

(* The runner is executed again and again, whatever errors Redis returns,   *)
(* and although a lock whose SET was granted without the caller learning it *)
(* is released by nobody: as long as the process stays up, some later tick  *)
(* finds the lock expired.                                                  *)
KeepsExecuting ==
    \A i \in Instances : []<>(Executing(i) # {} \/ phase[i] # "up")
=============================================================================

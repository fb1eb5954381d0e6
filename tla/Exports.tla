------------------------------ MODULE Exports ------------------------------
(***************************************************************************)
(* The exports of members and orders (src/tasker/exporter.tasker.ts,       *)
(* src/order).  A worker process runs one job at a time, formats the dates *)
(* of an export of orders in the time zone the request asks for, and names *)
(* the file by the clock in that zone.  The zone is the default of the     *)
(* library, shared by the process, and a run goes on after Bull has timed  *)
(* its job out or given it to a worker again.                              *)
(***************************************************************************)
EXTENDS Naturals

CONSTANTS
  None,
  Workers,       \* processes
  ExportJobs,    \* jobs: [category, timezone]
  Unsteady,      \* bound: the jobs that may stall
  Zones, Taipei  \* time zones; the one a process starts with

(* The exports that set the zone, and those that show dates in it.         *)
Zoned == {"orderLog", "orderProduct", "orderDiscount"}
Dated == {"orderLog", "orderProduct"}

ASSUME ExportsAssumption ==
  /\ Taipei \in Zones
  /\ \A j \in ExportJobs : j.category \in Zoned \cup {"member"} /\ j.timezone \in Zones

VARIABLES
  tz,           \* the default zone of dayjs in a process
  busy,         \* the run whose job the processor of a process waits for
  exportQueue,  \* job -> "waiting", "active" or "over"
  exportRuns    \* <<job, start>> -> the run, or None

exportVars == <<tz, busy, exportQueue, exportRuns>>

ExportRuns == ExportJobs \X {1, 2}

(* A run: its process, its stage, the zones its dates and the name of its  *)
(* file were written in, and whether it shared the process.                *)
ExportRun == [worker: Workers, shown: SUBSET Zones,
              stage: {"zoned", "written", "over"}, shared: BOOLEAN]

ASSUME NoneAssumption == None \notin ExportRun

ExportsTypeOK ==
  /\ tz \in [Workers -> Zones] /\ busy \in [Workers -> ExportRuns \cup {None}]
  /\ exportQueue \in [ExportJobs -> {"waiting", "active", "over"}]
  /\ exportRuns \in [ExportRuns -> ExportRun \cup {None}]

(* The jobs of `wanted` are requested, and no others.                      *)
ExportsInit(wanted) ==
  /\ tz = [w \in Workers |-> Taipei] /\ busy = [w \in Workers |-> None]
  /\ exportQueue = [j \in ExportJobs |-> IF j \in wanted THEN "waiting" ELSE "over"]
  /\ exportRuns = [r \in ExportRuns |-> None]

Live(w) == {r \in ExportRuns : /\ exportRuns[r] # None /\ exportRuns[r].worker = w
                               /\ exportRuns[r].stage # "over"}
StartOf(j) == IF exportRuns[<<j, 1>>] = None THEN 1 ELSE 2

-----------------------------------------------------------------------------
Stage(r) == IF exportRuns[r] = None THEN "over" ELSE exportRuns[r].stage
ZoneOf(r) == tz[exportRuns[r].worker]

BugSetDefault(w, j) == tz[w]  \* the zone of the request is not used

SetDefault(w, j) == IF j.category \in Zoned THEN j.timezone ELSE tz[w]

(* A process takes a job when its processor waits for no other, and sets   *)
(* the zone before it first waits; a run that was given up may still go on.*)
TakeExport(w, j) ==
  /\ busy[w] = None /\ exportQueue[j] = "waiting"
  /\ LET r == <<j, StartOf(j)>>
         new == [worker |-> w, shown |-> {}, stage |-> "zoned", shared |-> Live(w) # {}] IN
     /\ busy' = [busy EXCEPT ![w] = r]
     /\ exportRuns' = [x \in ExportRuns |->
                         IF x = r THEN new
                         ELSE IF x \in Live(w) THEN [exportRuns[x] EXCEPT !.shared = TRUE]
                         ELSE exportRuns[x]]
  /\ tz' = [tz EXCEPT ![w] = SetDefault(w, j)]
  /\ exportQueue' = [exportQueue EXCEPT ![j] = "active"]

Moves(r, run) == exportRuns' = [exportRuns EXCEPT ![r] = run]

(* orderLogToRawCsv, orderProductToRawCsv: every date in one go; members   *)
(* have theirs in UTC.                                                     *)
WriteRows(r) ==
  /\ Stage(r) = "zoned"
  /\ Moves(r, [exportRuns[r] EXCEPT
                 !.stage = "written",
                 !.shown = IF r[1].category \in Dated THEN {ZoneOf(r)} ELSE {}])
  /\ UNCHANGED <<tz, busy, exportQueue>>

(* The job goes with r if r is its last start and it was not given back.   *)
JobEnds(r) ==
  exportQueue' = IF exportQueue[r[1]] = "active" /\ (r[2] = 2 \/ exportRuns[<<r[1], 2>>] = None)
                 THEN [exportQueue EXCEPT ![r[1]] = "over"] ELSE exportQueue

Frees(r) == busy' = [w \in Workers |-> IF busy[w] = r THEN None ELSE busy[w]]

Leaves(r, zones) ==
  /\ Moves(r, [exportRuns[r] EXCEPT !.stage = "over", !.shown = @ \cup zones])
  /\ Frees(r) /\ JobEnds(r)
  /\ UNCHANGED tz

(* The settings and the receivers are read, then the file is named, stored *)
(* and mailed, and the job is moved to the completed ones.                 *)
SaveFile(r) == Stage(r) = "written" /\ Leaves(r, {ZoneOf(r)})

(* A query, the storage or a log fails: the error is swallowed.            *)
ExportFails(r) == Stage(r) # "over" /\ Leaves(r, {})

(* External: Bull gives up on a run after EXPORT_JOB_TIMEOUT_MS and takes  *)
(* the next job; the run is left to itself.                                *)
TimeOut(w) ==
  /\ busy[w] # None
  /\ Frees(busy[w]) /\ JobEnds(busy[w])
  /\ UNCHANGED <<tz, exportRuns>>

(* External: the lock on a job runs out, and it goes back to the queue,    *)
(* once; the process that stalled still waits for its run.                 *)
StallExport(j) ==
  /\ exportQueue[j] = "active" /\ j \in Unsteady
  /\ exportQueue' = [exportQueue EXCEPT
                       ![j] = IF StartOf(j) = 2 /\ exportRuns[<<j, 2>>] = None
                              THEN "waiting" ELSE "over"]
  /\ UNCHANGED <<tz, busy, exportRuns>>

(* The watchdog kills a process, which starts again.                       *)
KillWorker(w) ==
  /\ Live(w) # {}
  /\ exportRuns' = [r \in ExportRuns |->
                      IF r \in Live(w) THEN [exportRuns[r] EXCEPT !.stage = "over"]
                      ELSE exportRuns[r]]
  /\ busy' = [busy EXCEPT ![w] = None]
  /\ tz' = [tz EXCEPT ![w] = Taipei]
  /\ UNCHANGED exportQueue

ExportsNext ==
  \/ \E w \in Workers, j \in ExportJobs : TakeExport(w, j)
  \/ \E r \in ExportRuns :
       WriteRows(r) \/ SaveFile(r) \/ ExportFails(r)
  \/ \E j \in ExportJobs : StallExport(j)
  \/ \E w \in Workers : TimeOut(w) \/ KillWorker(w)

-----------------------------------------------------------------------------
(* The time zone of an export.  Whatever other processes do, and whatever  *)
(* ran before in its own, the dates and the name of a file of orders are   *)
(* in the zone the request asked for, unless another run shared the        *)
(* process with this one, which takes a job that was timed out.            *)
ExportsKeepZone ==
  \A r \in {x \in ExportRuns : exportRuns[x] # None} :
    r[1].category \in Zoned /\ ~exportRuns[r].shared =>
         exportRuns[r].shown \subseteq {r[1].timezone}

=============================================================================

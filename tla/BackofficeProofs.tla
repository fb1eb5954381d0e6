--------------------------- MODULE BackofficeProofs ---------------------------
(***************************************************************************)
(* Proofs about Backoffice, for any members, files, rows, processes and    *)
(* jobs.                                                                   *)
(*                                                                         *)
(* Exports (EInv): the zone of a process is the one its run set, and no    *)
(* other run goes on there, unless one has shared the process with it.     *)
(* Imports (AInv, KInv): what becomes of each version of a file, how the   *)
(* counts of a run follow what it inserted, and which members a run may    *)
(* still write.  Deletion (DInv): what each statement has left of the rows *)
(* of the start, where every key leads, and what a rollback puts back.     *)
(***************************************************************************)
EXTENDS Backoffice, FiniteSetTheorems, TLAPS

Alone(r) ==
  exportRuns[r] # None /\ ~exportRuns[r].shared =>
    /\ r[1].category \in Zoned => exportRuns[r].shown \subseteq {r[1].timezone}
    /\ exportRuns[r].stage # "over" =>
         /\ r[1].category \in Zoned => tz[exportRuns[r].worker] = r[1].timezone
         /\ \A y \in Live(exportRuns[r].worker) : y = r

EachAlone == \A r \in ExportRuns : Alone(r)

EInv == ExportsTypeOK /\ EachAlone

-----------------------------------------------------------------------------
(* A step of one run: it writes in the zone of its process, or nothing,    *)
(* and does not go back.                                                   *)
LEMMA RunMoves ==
  ASSUME EInv, NEW r \in ExportRuns, Stage(r) # "over",
         NEW stage \in {"zoned", "written", "over"},
         NEW zones \in SUBSET Zones, NEW rest \in SUBSET Zones,
         Moves(r, [exportRuns[r] EXCEPT !.stage = stage, !.shown = zones \cup rest]),
         zones \subseteq exportRuns[r].shown, rest \subseteq {ZoneOf(r)},
         UNCHANGED tz
  PROVE  exportRuns' \in [ExportRuns -> ExportRun \cup {None}] /\ EachAlone'
<1>1. exportRuns \in [ExportRuns -> ExportRun \cup {None}] /\ tz \in [Workers -> Zones]
  BY DEF EInv, ExportsTypeOK
<1>2. exportRuns[r] # None /\ exportRuns[r] \in ExportRun /\ exportRuns[r].stage # "over"
  BY <1>1 DEF Stage
<1> DEFINE new == [exportRuns[r] EXCEPT !.stage = stage, !.shown = zones \cup rest]
<1>3. /\ new \in ExportRun /\ new.worker = exportRuns[r].worker
      /\ new.shared = exportRuns[r].shared /\ new.stage = stage
      /\ new.shown \subseteq exportRuns[r].shown \cup {ZoneOf(r)}
  BY <1>2 DEF ExportRun
<1>4. exportRuns' = [exportRuns EXCEPT ![r] = new]
  BY DEF Moves
<1> HIDE DEF new
<1>5. exportRuns' \in [ExportRuns -> ExportRun \cup {None}]
  BY <1>1, <1>3, <1>4
<1>6. \A x \in ExportRuns : exportRuns'[x] = IF x = r THEN new ELSE exportRuns[x]
  BY <1>1, <1>4
<1>7. \A w : Live(w)' \subseteq Live(w)
  BY <1>2, <1>3, <1>6 DEF Live
<1>8. ASSUME NEW x \in ExportRuns PROVE Alone(x)'
  <2>1. Alone(x) /\ Alone(r)
    BY DEF EInv, EachAlone
  <2>2. CASE x = r
    <3>1. ASSUME ~new.shared, r[1].category \in Zoned
          PROVE tz[new.worker] = r[1].timezone /\ new.shown \subseteq {r[1].timezone}
      BY <1>2, <1>3, <2>1, <3>1 DEF Alone, ZoneOf
    <3>2. ASSUME ~new.shared PROVE \A y \in Live(new.worker) : y = r
      BY <1>2, <1>3, <2>1, <3>2 DEF Alone
    <3>3. exportRuns'[x] = new
      BY <1>6, <2>2
    <3> QED
      BY <1>7, <2>2, <3>1, <3>2, <3>3 DEF Alone
  <2>3. CASE x # r
    <3>1. exportRuns'[x] = exportRuns[x]
      BY <1>6, <2>3
    <3> QED
      BY <1>7, <2>1, <3>1 DEF Alone
  <2> QED
    BY <2>2, <2>3
<1> QED
  BY <1>5, <1>8 DEF EachAlone

(* A process takes a job: it is alone when no run goes on there, and those *)
(* that go on are no longer.                                               *)
LEMMA TakeExportStep ==
  ASSUME EInv, NEW w \in Workers, NEW j \in ExportJobs, TakeExport(w, j)
  PROVE  exportRuns' \in [ExportRuns -> ExportRun \cup {None}] /\ EachAlone'
<1> DEFINE r == <<j, StartOf(j)>>
           new == [worker |-> w, shown |-> {}, stage |-> "zoned", shared |-> Live(w) # {}]
<1>1. exportRuns \in [ExportRuns -> ExportRun \cup {None}] /\ tz \in [Workers -> Zones]
  BY DEF EInv, ExportsTypeOK
<1>2. r \in ExportRuns /\ r[1] = j
  BY DEF ExportRuns, StartOf
<1>3. new \in ExportRun
  BY DEF ExportRun
<1>4. /\ exportRuns' = [x \in ExportRuns |->
                         IF x = r THEN new
                         ELSE IF x \in Live(w) THEN [exportRuns[x] EXCEPT !.shared = TRUE]
                         ELSE exportRuns[x]]
      /\ tz' = [tz EXCEPT ![w] = SetDefault(w, j)]
  BY DEF TakeExport
<1>5. new.worker = w /\ new.shown = {} /\ (new.shared <=> Live(w) # {})
  OBVIOUS
<1> HIDE DEF r, new
<1>6. ASSUME NEW x \in Live(w)
      PROVE /\ exportRuns[x] \in ExportRun
            /\ [exportRuns[x] EXCEPT !.shared = TRUE] \in ExportRun
            /\ [exportRuns[x] EXCEPT !.shared = TRUE].shared = TRUE
            /\ [exportRuns[x] EXCEPT !.shared = TRUE].worker = exportRuns[x].worker
            /\ [exportRuns[x] EXCEPT !.shared = TRUE].stage = exportRuns[x].stage
  <2>1. exportRuns[x] \in ExportRun
    BY <1>1 DEF Live
  <2> QED
    BY <2>1 DEF ExportRun
<1>7. exportRuns' \in [ExportRuns -> ExportRun \cup {None}]
  BY <1>1, <1>3, <1>4, <1>6
<1>8. \A v \in Workers : v # w => Live(v)' \subseteq Live(v) /\ tz'[v] = tz[v]
  <2> SUFFICES ASSUME NEW v \in Workers, v # w PROVE Live(v)' \subseteq Live(v) /\ tz'[v] = tz[v]
    OBVIOUS
  <2>1. ASSUME NEW x \in Live(v)' PROVE x \in Live(v)
    <3>1. x \in ExportRuns /\ exportRuns'[x] # None /\ exportRuns'[x].worker = v
          /\ exportRuns'[x].stage # "over"
      BY <2>1 DEF Live
    <3>2. x # r /\ x \notin Live(w)
      BY <1>4, <1>5, <1>6, <3>1 DEF Live
    <3>3. exportRuns'[x] = exportRuns[x]
      BY <1>4, <3>1, <3>2
    <3> QED
      BY <3>1, <3>3 DEF Live
  <2> QED
    BY <1>1, <1>4, <2>1
<1>9. ASSUME NEW x \in ExportRuns PROVE Alone(x)'
  <2>1. CASE x = r
    <3>1. exportRuns'[x] = new
      BY <1>4, <2>1
    <3>2. r[1].category \in Zoned => tz'[w] = r[1].timezone
      BY <1>1, <1>2, <1>4 DEF SetDefault
    <3>3. ASSUME Live(w) = {}, NEW y \in Live(w)' PROVE y = r
      <4>1. y \in ExportRuns /\ exportRuns'[y] # None /\ exportRuns'[y].worker = w
            /\ exportRuns'[y].stage # "over"
        BY <3>3 DEF Live
      <4> QED
        BY <1>4, <3>3, <4>1 DEF Live
    <3> QED
      BY <1>5, <2>1, <3>1, <3>2, <3>3 DEF Alone
  <2>2. CASE x # r /\ x \in Live(w)
    BY <1>4, <1>6, <2>2 DEF Alone
  <2>3. CASE x # r /\ x \notin Live(w)
    <3>1. exportRuns'[x] = exportRuns[x]
      BY <1>4, <2>3
    <3>2. Alone(x)
      BY DEF EInv, EachAlone
    <3>3. exportRuns[x] # None /\ exportRuns[x].stage # "over" =>
            exportRuns[x].worker \in Workers \ {w}
      BY <1>1, <2>3 DEF Live, ExportRun
    <3> QED
      BY <1>8, <3>1, <3>2, <3>3 DEF Alone
  <2> QED
    BY <2>1, <2>2, <2>3
<1> QED
  BY <1>7, <1>9 DEF EachAlone

(* A process dies, and starts again in its own zone: its runs are over.    *)
LEMMA KillWorkerStep ==
  ASSUME EInv, NEW w \in Workers, KillWorker(w)
  PROVE  exportRuns' \in [ExportRuns -> ExportRun \cup {None}] /\ EachAlone'
<1>1. exportRuns \in [ExportRuns -> ExportRun \cup {None}] /\ tz \in [Workers -> Zones]
  BY DEF EInv, ExportsTypeOK
<1>2. /\ exportRuns' = [x \in ExportRuns |->
                      IF x \in Live(w) THEN [exportRuns[x] EXCEPT !.stage = "over"]
                      ELSE exportRuns[x]]
      /\ tz' = [tz EXCEPT ![w] = Taipei]
  BY DEF KillWorker
<1>3. ASSUME NEW x \in Live(w)
      PROVE /\ exportRuns[x] # None
            /\ [exportRuns[x] EXCEPT !.stage = "over"] \in ExportRun
            /\ [exportRuns[x] EXCEPT !.stage = "over"].stage = "over"
            /\ [exportRuns[x] EXCEPT !.stage = "over"].shared = exportRuns[x].shared
            /\ [exportRuns[x] EXCEPT !.stage = "over"].shown = exportRuns[x].shown
  <2>1. exportRuns[x] # None /\ exportRuns[x] \in ExportRun
    BY <1>1 DEF Live
  <2> QED
    BY <2>1 DEF ExportRun
<1>4. exportRuns' \in [ExportRuns -> ExportRun \cup {None}]
  BY <1>1, <1>2, <1>3
<1>5. \A v : Live(v)' \subseteq Live(v)
  BY <1>2, <1>3 DEF Live
<1>6. ASSUME NEW x \in ExportRuns PROVE Alone(x)'
  <2>1. Alone(x)
    BY DEF EInv, EachAlone
  <2>2. CASE x \in Live(w)
    BY <1>2, <1>3, <2>1, <2>2 DEF Alone
  <2>3. CASE x \notin Live(w)
    <3>1. exportRuns'[x] = exportRuns[x]
      BY <1>2, <2>3
    <3>2. exportRuns[x] # None /\ exportRuns[x].stage # "over" =>
            tz'[exportRuns[x].worker] = tz[exportRuns[x].worker]
      <4>1. exportRuns[x] # None /\ exportRuns[x].stage # "over" =>
              exportRuns[x].worker \in Workers \ {w}
        BY <1>1, <2>3 DEF Live, ExportRun
      <4> QED
        BY <1>1, <1>2, <4>1
    <3> QED
      BY <1>5, <2>1, <3>1, <3>2 DEF Alone
  <2> QED
    BY <2>2, <2>3
<1> QED
  BY <1>4, <1>6 DEF EachAlone

-----------------------------------------------------------------------------
LEMMA ExportsStepKeeps == EInv /\ ExportsNext => EInv'
<1> SUFFICES ASSUME EInv, ExportsNext PROVE EInv'
  OBVIOUS
<1>1. exportRuns' \in [ExportRuns -> ExportRun \cup {None}] /\ EachAlone'
  <2>1. ASSUME NEW r \in ExportRuns, WriteRows(r) \/ SaveFile(r) \/ ExportFails(r)
        PROVE exportRuns' \in [ExportRuns -> ExportRun \cup {None}] /\ EachAlone'
    <3>1. Stage(r) # "over"
      BY <2>1 DEF WriteRows, SaveFile, ExportFails
    <3>2. exportRuns[r] \in ExportRun /\ ZoneOf(r) \in Zones
      BY <3>1 DEF EInv, ExportsTypeOK, Stage, ZoneOf, ExportRun
    <3>3. exportRuns[r].shown \in SUBSET Zones
      BY <3>2 DEF ExportRun
    <3>4. CASE WriteRows(r)
      <4> DEFINE rest == IF r[1].category \in Dated THEN {ZoneOf(r)} ELSE {}
      <4>1. Moves(r, [exportRuns[r] EXCEPT !.stage = "written", !.shown = {} \cup rest])
        BY <3>4 DEF WriteRows
      <4>2. rest \in SUBSET Zones /\ rest \subseteq {ZoneOf(r)} /\ UNCHANGED tz
        BY <3>2, <3>4 DEF WriteRows
      <4>3. {} \in SUBSET Zones /\ {} \subseteq exportRuns[r].shown
        OBVIOUS
      <4> HIDE DEF rest
      <4> QED
        BY <3>1, <4>1, <4>2, <4>3, RunMoves
    <3>5. CASE SaveFile(r)
      BY <3>1, <3>2, <3>3, <3>5, RunMoves DEF SaveFile, Leaves
    <3>6. CASE ExportFails(r)
      <4>1. Moves(r, [exportRuns[r] EXCEPT !.stage = "over",
                                           !.shown = exportRuns[r].shown \cup {}])
            /\ UNCHANGED tz
        BY <3>6 DEF ExportFails, Leaves, Moves
      <4>2. {} \in SUBSET Zones /\ {} \subseteq {ZoneOf(r)}
        OBVIOUS
      <4> QED
        BY <3>1, <3>3, <4>1, <4>2, RunMoves
    <3> QED
      BY <2>1, <3>4, <3>5, <3>6
  <2>2. ASSUME UNCHANGED <<tz, exportRuns>>
        PROVE exportRuns' \in [ExportRuns -> ExportRun \cup {None}] /\ EachAlone'
    BY <2>2 DEF EInv, ExportsTypeOK, EachAlone, Alone, Live
  <2> QED
    BY <2>1, <2>2, TakeExportStep, KillWorkerStep DEF ExportsNext, TimeOut, StallExport
<1>2. tz' \in [Workers -> Zones]
  BY ExportsAssumption DEF EInv, ExportsTypeOK, ExportsNext, TakeExport, WriteRows, SaveFile,
       ExportFails, Leaves, TimeOut, StallExport, KillWorker, SetDefault
<1>3. busy' \in [Workers -> ExportRuns \cup {None}]
  <2> USE DEF EInv, ExportsTypeOK
  <2>1. ASSUME NEW w \in Workers, NEW j \in ExportJobs, TakeExport(w, j)
        PROVE busy' \in [Workers -> ExportRuns \cup {None}]
    <3>1. <<j, StartOf(j)>> \in ExportRuns
      BY DEF StartOf, ExportRuns
    <3> QED
      BY <2>1, <3>1 DEF TakeExport
  <2>2. ASSUME NEW r, Frees(r) PROVE busy' \in [Workers -> ExportRuns \cup {None}]
    BY <2>2 DEF Frees
  <2>3. ASSUME NEW w \in Workers, KillWorker(w)
        PROVE busy' \in [Workers -> ExportRuns \cup {None}]
    BY <2>3 DEF KillWorker
  <2>4. ASSUME UNCHANGED busy PROVE busy' \in [Workers -> ExportRuns \cup {None}]
    BY <2>4
  <2> QED
    BY <2>1, <2>2, <2>3, <2>4 DEF ExportsNext, WriteRows, SaveFile, ExportFails, Leaves,
         TimeOut, StallExport
<1>4. exportQueue' \in [ExportJobs -> {"waiting", "active", "over"}]
  BY DEF EInv, ExportsTypeOK, ExportsNext, TakeExport, WriteRows, SaveFile,
       ExportFails, Leaves, JobEnds, TimeOut, StallExport, KillWorker
<1> QED
  BY <1>1, <1>2, <1>3, <1>4 DEF EInv, ExportsTypeOK

LEMMA ExportsBegin ==
  ASSUME NEW wanted, ExportsInit(wanted)
  PROVE  EInv
BY ExportsAssumption DEF ExportsInit, EInv, ExportsTypeOK, EachAlone, Alone

LEMMA ExportsStill == EInv /\ UNCHANGED exportVars => EInv'
BY DEF EInv, ExportsTypeOK, exportVars, EachAlone, Alone, Live

(* The dates and the name of an exported file are in the zone that was     *)
(* asked for, unless another run shared the process with this one.         *)
THEOREM ExportsInTheirZone == Spec => []ExportsKeepZone
<1>1. Init => EInv
  BY ExportsBegin DEF Init
<1>2. EInv /\ [Next]_vars => EInv'
  BY ExportsStepKeeps, ExportsStill DEF Next, ImportsStep, DeletionStep, ExportsStep, vars
<1>3. EInv => ExportsKeepZone
  BY DEF EInv, EachAlone, Alone, ExportsKeepZone
<1> QED
  BY <1>1, <1>2, <1>3, PTL DEF Spec

-----------------------------------------------------------------------------
(* Imports: types, and what a run holds at each stage.                     *)

(* What a row of a member's file is read as: nothing it needs is blank.    *)
Read == [id: Maybe(MemberIds), name: Names, email: Emails, role: Roles, tags: SUBSET Tags,
         categories: SUBSET Categories, phones: SUBSET Phones,
         properties: [PropertyIds -> Maybe(Values)]]

ReadOK(category, x) ==
  /\ category = "coin" => x \in [row: CoinRow, read: MemberIds]
  /\ category = "member" => x \in [row: CsvRow, read: Read] /\ x.read.id = x.row.id

RunOK(j, run) ==
  /\ run.file \in 1..(Len(j.files) + 1) /\ Len(run.results) = run.file - 1
  /\ run.stage = "fetch" => run.left = {} /\ run.saved = {}
  /\ run.stage = "save" => /\ run.file <= Len(j.files)
                           /\ \A x \in run.left : ReadOK(j.category, x)

ITypes ==
  /\ MembersTypeOK /\ ImportsTypeOK
  /\ \A r \in Started : RunOK(r[1], runs[r])

LEMMA JobFiles ==
  ASSUME NEW j \in Jobs, NEW i \in 1..Len(j.files)
  PROVE  /\ j.files[i] \in Versions /\ j.files[i].category = j.category
         /\ j.files[i].rows \in RowsOf[j.category]
         /\ j.category \in {"member", "coin"}
         /\ j.files[i].key \in Keys
BY ImportsAssumption DEF Keys

LEMMA RunTyped ==
  ASSUME ITypes, NEW r \in Started
  PROVE  /\ r \in Runs /\ r[1] \in Jobs /\ runs[r] \in Run /\ RunOK(r[1], runs[r])
         /\ runs[r].file \in Nat /\ Len(r[1].files) \in Nat /\ runs[r].stage \in Stages
         /\ runs[r].results \in Seq([error: {NULL, "unread", "undeleted"},
                                     rows: SUBSET (CoinRow \cup CsvRow)])
<1>1. r \in Runs /\ runs[r] \in Run /\ RunOK(r[1], runs[r])
  BY DEF ITypes, ImportsTypeOK, Started
<1>2. r[1] \in Jobs
  BY <1>1 DEF Runs
<1> QED
  BY <1>1, <1>2, ImportsAssumption DEF Run

(* A run whose file is being saved.                                        *)
LEMMA SavingFile ==
  ASSUME ITypes, NEW r \in Started, runs[r].stage = "save"
  PROVE  /\ runs[r].file \in 1..Len(r[1].files) /\ FileOf(r) \in Versions
         /\ FileOf(r).category = r[1].category /\ FileOf(r).key \in Keys
         /\ \A x \in runs[r].left : ReadOK(FileOf(r).category, x)
<1>1. runs[r].file \in 1..Len(r[1].files) /\ \A x \in runs[r].left : ReadOK(r[1].category, x)
  BY RunTyped DEF RunOK
<1> QED
  BY <1>1, RunTyped, JobFiles DEF FileOf

(* A run goes on as `run`, and the others stay.                            *)
LEMMA GoesOn ==
  ASSUME ITypes, NEW r \in Runs, NEW run \in Run, Goes(r, run)
  PROVE  /\ runs' \in [Runs -> Run \cup {NULL}]
         /\ runs'[r] = run /\ \A q \in Runs \ {r} : runs'[q] = runs[q]
         /\ Started' = Started \cup {r}
<1>1. runs \in [Runs -> Run \cup {NULL}]
  BY DEF ITypes, ImportsTypeOK
<1>2. /\ runs' \in [Runs -> Run \cup {NULL}]
      /\ runs'[r] = run /\ \A q \in Runs \ {r} : runs'[q] = runs[q]
  BY <1>1 DEF Goes
<1> QED
  BY <1>2, RunsAssumption DEF Started

LEMMA NewRunOK ==
  ASSUME NEW j \in Jobs
  PROVE  NewRun \in Run /\ RunOK(j, NewRun)
<1>1. Len(j.files) \in Nat
  BY ImportsAssumption
<1>2. <<>> \in Seq([error: {NULL, "unread", "undeleted"}, rows: SUBSET (CoinRow \cup CsvRow)])
      /\ Len(<<>>) = 0
  OBVIOUS
<1> QED
  BY <1>1, <1>2 DEF NewRun, Run, RunOK, Stages

(* What becomes of a run: it stops, it is done with a file, it has fetched *)
(* one, or a row is settled.                                               *)
LEMMA StoppedOK ==
  ASSUME ITypes, NEW r \in Started
  PROVE  LET run == [runs[r] EXCEPT !.stage = "over"] IN
         /\ run \in Run /\ RunOK(r[1], run) /\ run.stage = "over"
         /\ run.file = runs[r].file /\ run.results = runs[r].results
         /\ run.again = runs[r].again
BY RunTyped DEF Run, RunOK, Stages

LEMMA NextFileOK ==
  ASSUME ITypes, NEW r \in Started, runs[r].file <= Len(r[1].files),
         NEW result \in [error: {NULL, "unread", "undeleted"}, rows: SUBSET (CoinRow \cup CsvRow)]
  PROVE  LET run == [runs[r] EXCEPT !.file = @ + 1, !.stage = "fetch", !.left = {},
                                    !.saved = {}, !.results = Append(@, result)] IN
         /\ run \in Run /\ RunOK(r[1], run)
         /\ run.file = runs[r].file + 1 /\ run.stage = "fetch" /\ run.again = runs[r].again
         /\ run.results = Append(runs[r].results, result)
<1> DEFINE run == [runs[r] EXCEPT !.file = @ + 1, !.stage = "fetch", !.left = {},
                                  !.saved = {}, !.results = Append(@, result)]
<1>1. /\ runs[r] \in Run /\ runs[r].file \in Nat /\ Len(runs[r].results) = runs[r].file - 1
      /\ runs[r].results \in Seq([error: {NULL, "unread", "undeleted"},
                                  rows: SUBSET (CoinRow \cup CsvRow)])
  BY RunTyped DEF RunOK
<1>2. /\ Append(runs[r].results, result) \in Seq([error: {NULL, "unread", "undeleted"},
                                                  rows: SUBSET (CoinRow \cup CsvRow)])
      /\ Len(Append(runs[r].results, result)) = runs[r].file
  BY <1>1
<1>3. /\ run.file = runs[r].file + 1 /\ run.stage = "fetch" /\ run.again = runs[r].again
      /\ run.results = Append(runs[r].results, result) /\ run.left = {} /\ run.saved = {}
      /\ run \in Run
  <2> DEFINE all == Append(runs[r].results, result)
  <2>1. run = [runs[r] EXCEPT !.file = runs[r].file + 1, !.stage = "fetch", !.left = {},
                              !.saved = {}, !.results = all]
    OBVIOUS
  <2>2. all \in Seq([error: {NULL, "unread", "undeleted"}, rows: SUBSET (CoinRow \cup CsvRow)])
    BY <1>2
  <2> HIDE DEF all, run
  <2>3. runs[r].file + 1 \in Nat
    BY <1>1
  <2>4. /\ run.file = runs[r].file + 1 /\ run.stage = "fetch" /\ run.again = runs[r].again
        /\ run.results = all /\ run.left = {} /\ run.saved = {} /\ run \in Run
    BY <1>1, <2>1, <2>2, <2>3 DEF Run, Stages
  <2> QED
    BY <2>4 DEF all
<1>4. run.file \in 1..(Len(r[1].files) + 1)
  BY <1>1, <1>3, RunTyped
<1> QED
  BY <1>1, <1>2, <1>3, <1>4 DEF RunOK

FetchedRun(run, left, again) == [run EXCEPT !.stage = "save", !.left = left, !.again = again]
SettledRun(run, x, ok) ==
  [run EXCEPT !.left = @ \ {x}, !.saved = IF ok THEN @ \cup {x.row} ELSE @]

LEMMA FetchedOK ==
  ASSUME ITypes, NEW r \in Started, runs[r].file <= Len(r[1].files),
         NEW left, NEW again \in BOOLEAN, \A x \in left : ReadOK(r[1].category, x)
  PROVE  LET run == FetchedRun(runs[r], left, again) IN
         /\ run \in Run /\ RunOK(r[1], run) /\ run.stage = "save" /\ run.left = left
         /\ run.again = again /\ run.file = runs[r].file /\ run.results = runs[r].results
         /\ run.saved = runs[r].saved
<1>1. Read \subseteq CsvRow
  BY DEF Read, CsvRow, Maybe
<1>2. left \subseteq [row: CoinRow, read: MemberIds] \cup [row: CsvRow, read: CsvRow]
  <2>1. r[1].category \in {"member", "coin"}
    BY RunTyped, JobFiles DEF RunOK
  <2> QED
    BY <1>1, <2>1 DEF ReadOK
<1> QED
  BY <1>2, RunTyped DEF FetchedRun, Run, RunOK, Stages

LEMMA SettledOK ==
  ASSUME ITypes, NEW r \in Started, runs[r].stage = "save", NEW x \in runs[r].left, NEW ok \in BOOLEAN
  PROVE  LET run == SettledRun(runs[r], x, ok) IN
         /\ run \in Run /\ RunOK(r[1], run) /\ run.stage = "save"
         /\ run.left = runs[r].left \ {x} /\ run.again = runs[r].again
         /\ run.file = runs[r].file /\ run.results = runs[r].results
         /\ run.saved = IF ok THEN runs[r].saved \cup {x.row} ELSE runs[r].saved
<1>1. x.row \in CoinRow \cup CsvRow
  BY RunTyped DEF Run
<1> QED
  BY <1>1, RunTyped DEF SettledRun, Run, RunOK

-----------------------------------------------------------------------------
(* The rows of members: what is read, and what a transaction leaves.       *)
LEMMA RawCsvTyped ==
  ASSUME MembersTypeOK, NEW v \in Versions, v.category = "member", NEW row \in v.rows,
         ~Unreadable(row)
  PROVE  /\ row \in CsvRow /\ RawCsvToMember(row) \in Read /\ RawCsvToMember(row).id = row.id
         /\ row.name # NULL => RawCsvToMember(row).name = row.name
         /\ row.name = NULL => /\ row.id \in MemberIds /\ members[row.id] # NULL
                               /\ RawCsvToMember(row).name = members[row.id].name
<1>1. row \in CsvRow /\ (row.id = NULL => row.name # NULL /\ row.email # NULL)
  <2>1. v.rows \in RowsOf["member"]
    BY ImportsAssumption
  <2>2. RowsOf["member"] =
          SUBSET {x \in CsvRow : x.id = NULL => NULL \notin {x.name, x.email}}
    BY DEF RowsOf
  <2>3. row \in {x \in CsvRow : x.id = NULL => NULL \notin {x.name, x.email}}
    BY <2>1, <2>2, Zenon
  <2> QED
    BY <2>3
<1>2. CASE row.id = NULL
  BY <1>1, <1>2, MembersAssumption DEF CsvRow, Read, RawCsvToMember, Maybe, Or
<1>3. row.id # NULL => row.id \in MemberIds
  BY <1>1 DEF CsvRow, Maybe
<1>4. CASE row.id # NULL /\ members[row.id] = NULL
  BY <1>1, <1>3, <1>4 DEF CsvRow, Read, RawCsvToMember, Maybe, Unreadable
<1>5. CASE row.id # NULL /\ members[row.id] # NULL
  <2>1. members[row.id] \in Row
    BY <1>3, <1>5 DEF MembersTypeOK
  <2> DEFINE name == Or(row.name, members[row.id].name)
             email == Or(row.email, members[row.id].email)
             role == Or(row.role, members[row.id].role)
  <2>2. name \in Names /\ email \in Emails /\ role \in Roles
        /\ (row.name # NULL => name = row.name)
        /\ (row.name = NULL => name = members[row.id].name)
    BY <1>1, <2>1 DEF CsvRow, Row, Maybe, Or
  <2>3. RawCsvToMember(row) = [row EXCEPT !.name = name, !.email = email, !.role = role]
    BY <1>5 DEF RawCsvToMember
  <2> HIDE DEF name, email, role
  <2>4. RawCsvToMember(row) \in Read /\ RawCsvToMember(row).id = row.id
        /\ RawCsvToMember(row).name = name
    BY <1>1, <2>2, <2>3 DEF CsvRow, Read
  <2> QED
    BY <1>1, <1>3, <1>5, <2>2, <2>4
<1> QED
  BY <1>2, <1>4, <1>5

LEMMA PropertiesTyped ==
  ASSUME NEW new \in [PropertyIds -> Maybe(Values)], NEW old \in [PropertyIds -> Maybe(Values)]
  PROVE  [p \in PropertyIds |-> Or(new[p], old[p])] \in [PropertyIds -> Maybe(Values)]
BY DEF Or

LEMMA SavedTyped ==
  ASSUME NEW read \in Read, NEW old \in Row \cup {NULL}
  PROVE  Saved(read, old) \in Row /\ Saved(read, old).name = read.name
<1> DEFINE groups == IF old = NULL THEN {} ELSE old.groups
           properties == [p \in PropertyIds |->
             Or(read.properties[p], IF old = NULL THEN NULL ELSE old.properties[p])]
<1>1. groups \in SUBSET Groups
  BY DEF Row
<1>2. properties \in [PropertyIds -> Values \cup {NULL}]
  BY DEF Row, Read, Or, Maybe
<1> HIDE DEF groups, properties
<1>3. Saved(read, old) =
        [name |-> read.name, email |-> read.email, role |-> read.role, tags |-> read.tags,
         categories |-> read.categories, phones |-> read.phones, groups |-> groups,
         properties |-> properties]
  BY DEF Saved, groups, properties
<1> QED
  BY <1>1, <1>2, <1>3 DEF Read, Row

LEMMA LedTyped ==
  ASSUME NEW lead \in Lead, NEW row \in Row \cup {NULL}, NEW old \in Row \cup {NULL}
  PROVE  /\ Led(lead, row, old) \in Row
         /\ Led(lead, row, old).name = IF row = NULL THEN lead.name ELSE row.name
<1> DEFINE kept == IF old # NULL THEN old ELSE
                     [tags |-> {}, categories |-> {}, groups |-> {}, phones |-> {},
                      properties |-> [p \in PropertyIds |-> NULL]]
           name == IF row = NULL THEN lead.name ELSE row.name
           role == IF row = NULL THEN "general-member" ELSE row.role
           properties == [p \in PropertyIds |-> Or(lead.properties[p], kept.properties[p])]
           phones == kept.phones \cup {lead.phone}
<1>1. /\ kept.tags \in SUBSET Tags /\ kept.categories \in SUBSET Categories
      /\ kept.groups \in SUBSET Groups /\ kept.phones \in SUBSET Phones
      /\ kept.properties \in [PropertyIds -> Values \cup {NULL}]
  BY DEF Row
<1>2. properties \in [PropertyIds -> Values \cup {NULL}] /\ phones \in SUBSET Phones
  BY <1>1 DEF Lead, Or, Maybe
<1>3. name \in Names /\ role \in Roles
  BY MembersAssumption DEF Row, Lead
<1>4. Led(lead, row, old) =
        [name |-> name, email |-> lead.email, role |-> role, tags |-> kept.tags,
         categories |-> kept.categories, groups |-> kept.groups, phones |-> phones,
         properties |-> properties]
  BY DEF Led
<1> HIDE DEF kept, name, role, properties, phones
<1>5. Led(lead, row, old) \in Row /\ Led(lead, row, old).name = name
  BY <1>1, <1>2, <1>3, <1>4 DEF Row, Lead
<1> QED
  BY <1>5 DEF name

LEMMA TargetOK ==
  ASSUME NEW read, read.id \in Maybe(MemberIds), HasId(read.id)
  PROVE  /\ TargetId(read) \in MemberIds
         /\ read.id # NULL => TargetId(read) = read.id
         /\ read.id = NULL => members[TargetId(read)] = NULL
<1>1. CASE read.id # NULL
  BY <1>1 DEF TargetId, Maybe
<1>2. CASE read.id = NULL
  <2>1. PICK m \in NewIds : members[m] = NULL
    BY <1>2 DEF HasId
  <2> QED
    BY <1>2, <2>1, ImportsAssumption DEF TargetId
<1> QED
  BY <1>1, <1>2

-----------------------------------------------------------------------------
(* Every step keeps the types: of the runs, of the members, of the rest.   *)
LEMMA FetchReads ==
  ASSUME ITypes, NEW r \in Started, Fetch(r), ~NextFile(r, [error |-> "unread", rows |-> {}])
  PROVE  /\ FileOf(r) \in Versions /\ bucket[FileOf(r).key] = FileOf(r)
         /\ tried' = tried \cup {FileOf(r)}
         /\ FileOf(r).category = "member" => \A row \in FileOf(r).rows : ~Unreadable(row)
         /\ \E run \in Run :
              /\ Goes(r, run) /\ RunOK(r[1], run) /\ run.stage = "save"
              /\ run.left = RowsToImport(FileOf(r)) /\ run.saved = {}
              /\ run.again => runs[r].again \/ FileOf(r) \in cleared
              /\ run.file = runs[r].file /\ run.results = runs[r].results
<1> DEFINE v == FileOf(r)
           left == RowsToImport(v)
           again == runs[r].again \/ v \in cleared
           run == FetchedRun(runs[r], left, again)
<1>1. /\ bucket[v.key] = v /\ tried' = tried \cup {v} /\ Goes(r, run)
      /\ v.category = "member" => \A row \in v.rows : ~Unreadable(row)
      /\ runs[r].stage = "fetch" /\ runs[r].file <= Len(r[1].files)
  BY DEF Fetch, At, FetchedRun
<1>2. again \in BOOLEAN
  BY RunTyped DEF Run
<1>3. v \in Versions /\ v.category = r[1].category /\ v.category \in {"member", "coin"}
      /\ v.rows \in RowsOf[v.category]
  <2>1. runs[r].file \in 1..Len(r[1].files)
    BY <1>1, RunTyped DEF RunOK
  <2> QED
    BY <2>1, RunTyped, JobFiles DEF FileOf
<1>4. ASSUME NEW x \in left PROVE ReadOK(r[1].category, x)
  <2>1. CASE v.category = "member"
    <3>1. PICK row \in v.rows : x = [row |-> row, read |-> RawCsvToMember(row)]
      BY <2>1 DEF RowsToImport
    <3>2. row \in CsvRow /\ RawCsvToMember(row) \in Read /\ RawCsvToMember(row).id = row.id
      BY <1>1, <1>3, <2>1, RawCsvTyped DEF ITypes
    <3> QED
      BY <1>3, <2>1, <3>1, <3>2 DEF ReadOK
  <2>2. CASE v.category = "coin"
    <3>1. x \in [row: v.rows, read: Existing]
      BY <2>2 DEF RowsToImport
    <3>2. RowsOf["coin"] = SUBSET CoinRow
      BY DEF RowsOf
    <3> QED
      BY <1>3, <2>2, <3>1, <3>2 DEF ReadOK, Existing
  <2> QED
    BY <1>3, <2>1, <2>2
<1>5. runs[r].saved = {}
  BY <1>1, RunTyped DEF RunOK
<1> HIDE DEF left, again
<1>6. /\ run \in Run /\ RunOK(r[1], run) /\ run.stage = "save" /\ run.left = left
      /\ run.again = again /\ run.file = runs[r].file /\ run.results = runs[r].results
      /\ run.saved = runs[r].saved
  <2>1. \A x \in left : ReadOK(r[1].category, x)
    BY <1>4
  <2>2. runs[r].file <= Len(r[1].files)
    BY <1>1
  <2> QED
    BY <1>2, <2>1, <2>2, FetchedOK
<1> QED
  BY <1>1, <1>3, <1>5, <1>6 DEF left, again

LEMMA RunGoes ==
  ASSUME ITypes, ImportsNext
  PROVE  \/ UNCHANGED runs
         \/ \E r \in Runs, run \in Run : RunOK(r[1], run) /\ Goes(r, run)
<1> DEFINE Ok == \/ UNCHANGED runs
                 \/ \E r \in Runs, run \in Run : RunOK(r[1], run) /\ Goes(r, run)
<1>1. ASSUME NEW j \in Jobs, Take(j) \/ Stall(j) PROVE Ok
  <2>1. NewRun \in Run /\ RunOK(j, NewRun)
    BY NewRunOK
  <2>2. <<j, 1>> \in Runs /\ <<j, 2>> \in Runs /\ <<j, 1>>[1] = j /\ <<j, 2>>[1] = j
    BY DEF Runs
  <2>3. UNCHANGED runs \/ Goes(<<j, 1>>, NewRun) \/ Goes(<<j, 2>>, NewRun)
    BY <1>1 DEF Take, Stall
  <2> QED
    BY <2>1, <2>2, <2>3
<1>2. ASSUME NEW r \in Started, Finish(r) \/ Die(r) \/ Abort(r) PROVE Ok
  BY <1>2, StoppedOK, RunTyped DEF Finish, Die, Abort
<1>3. ASSUME NEW r \in Started, runs[r].file <= Len(r[1].files), NEW error \in {NULL, "unread", "undeleted"},
             NEW rows \in SUBSET (CoinRow \cup CsvRow),
             NextFile(r, [error |-> error, rows |-> rows])
      PROVE Ok
  <2>1. [error |-> error, rows |-> rows] \in
          [error: {NULL, "unread", "undeleted"}, rows: SUBSET (CoinRow \cup CsvRow)]
    OBVIOUS
  <2> QED
    BY <1>3, <2>1, NextFileOK, RunTyped DEF NextFile
<1>4. ASSUME NEW r \in Started, Fetch(r) PROVE Ok
  <2>1. runs[r].file <= Len(r[1].files)
    BY <1>4 DEF Fetch, At
  <2>2. CASE NextFile(r, [error |-> "unread", rows |-> {}])
    BY <2>1, <2>2, <1>3
  <2>3. CASE ~NextFile(r, [error |-> "unread", rows |-> {}])
    BY <1>4, <2>3, FetchReads, RunTyped
  <2> QED
    BY <2>2, <2>3
<1>5. ASSUME NEW r \in Started, DeleteFile(r) \/ DeleteFails(r) PROVE Ok
  <2>1. runs[r].saved \in SUBSET (CoinRow \cup CsvRow) /\ {} \in SUBSET (CoinRow \cup CsvRow)
    BY RunTyped DEF Run
  <2>2. runs[r].file <= Len(r[1].files)
        /\ (NextFile(r, [error |-> NULL, rows |-> runs[r].saved])
             \/ NextFile(r, [error |-> "undeleted", rows |-> {}]))
    BY <1>5 DEF DeleteFile, DeleteFails, Settling, At
  <2> QED
    BY <2>1, <2>2, <1>3
<1>6. ASSUME NEW r \in Started, NEW x \in runs[r].left,
             SaveCoin(r, x) \/ SaveMember(r, x) \/ SaveFails(r, x)
      PROVE Ok
  <2>1. runs[r].stage = "save" /\ \E ok \in BOOLEAN : Settled(r, x, ok)
    BY <1>6 DEF SaveCoin, SaveMember, SaveFails, At
  <2> QED
    BY <2>1, SettledOK, RunTyped DEF Settled, SettledRun
<1>7. ASSUME UNCHANGED runs PROVE Ok
  BY <1>7
<1> QED
  BY <1>1, <1>2, <1>4, <1>5, <1>6, <1>7 DEF ImportsNext, Upload, Request, StoreLead, ReadLead, Change

(* A row of a member is saved: for whom, and as what.                      *)
LEMMA SaveMemberDoes ==
  ASSUME ITypes, NEW r \in Started, NEW x \in runs[r].left, SaveMember(r, x)
  PROVE  /\ x.row \in CsvRow /\ x.read \in Read /\ x.read.id = x.row.id
         /\ TargetId(x.read) \in MemberIds
         /\ x.read.id # NULL => TargetId(x.read) = x.read.id
         /\ x.read.id = NULL => members[TargetId(x.read)] = NULL
         /\ \/ UNCHANGED <<members, given, midway>>
            \/ /\ members' = [members EXCEPT ![TargetId(x.read)] =
                                Saved(x.read, members[TargetId(x.read)])]
               /\ given' = IF x.row.name = NULL THEN given
                           ELSE [given EXCEPT ![TargetId(x.read)] = x.row.name]
               /\ midway' = IF Awaited(TargetId(x.read), {x})
                            THEN midway \cup {TargetId(x.read)} ELSE midway
<1>1. x.row \in CsvRow /\ x.read \in Read /\ x.read.id = x.row.id
  BY SavingFile DEF SaveMember, At, ReadOK
<1>2. x.read.id \in Maybe(MemberIds)
  BY <1>1 DEF Read
<1>3. HasId(x.read.id)
  BY DEF SaveMember
<1> QED
  BY <1>1, <1>2, <1>3, TargetOK DEF SaveMember

(* A lead is stored: for whom, and as what.                                *)
LEMMA StoreLeadDoes ==
  ASSUME ITypes, StoreLead
  PROVE  \E m \in MemberIds :
           /\ webhook.lead \in Lead /\ webhook.row \in Row \cup {NULL}
           /\ webhook.member # NULL => m = webhook.member
           /\ webhook.member = NULL => members[m] = NULL
           /\ \/ UNCHANGED <<members, given, midway>>
              \/ /\ members' = [members EXCEPT ![m] = Led(webhook.lead, webhook.row, members[m])]
                 /\ given' = IF webhook.row # NULL THEN given
                             ELSE [given EXCEPT ![m] = webhook.lead.name]
                 /\ midway' = IF Imported(m, {}) THEN midway \cup {m} ELSE midway
<1> DEFINE read == [id |-> webhook.member]
           m == TargetId(read)
<1>1. /\ webhook # NULL /\ webhook.lead \in Lead /\ webhook.member \in Maybe(MemberIds)
      /\ webhook.row \in Row \cup {NULL}
  BY ImportsAssumption DEF StoreLead, ITypes, ImportsTypeOK
<1>2. read.id = webhook.member /\ HasId(read.id)
  BY DEF StoreLead
<1>3. m \in MemberIds /\ (webhook.member # NULL => m = webhook.member)
      /\ (webhook.member = NULL => members[m] = NULL)
  BY <1>1, <1>2, TargetOK
<1>4. \/ UNCHANGED <<members, given, midway>>
      \/ /\ members' = [members EXCEPT ![m] = Led(webhook.lead, webhook.row, members[m])]
         /\ given' = IF webhook.row # NULL THEN given
                     ELSE [given EXCEPT ![m] = webhook.lead.name]
         /\ midway' = IF Imported(m, {}) THEN midway \cup {m} ELSE midway
  BY DEF StoreLead
<1> HIDE DEF m
<1> QED
  BY <1>1, <1>3, <1>4

LEMMA MembersStay ==
  ASSUME ITypes, ImportsNext
  PROVE  /\ MembersTypeOK' /\ given' \in [MemberIds -> Maybe(Names)] /\ midway' \subseteq MemberIds
<1> USE DEF MembersTypeOK
<1>1. /\ members \in [MemberIds -> Row \cup {NULL}] /\ given \in [MemberIds -> Maybe(Names)]
      /\ midway \subseteq MemberIds
  BY DEF ITypes, ImportsTypeOK
<1>2. ASSUME NEW r \in Started, NEW x \in runs[r].left, SaveMember(r, x)
      PROVE  members' \in [MemberIds -> Row \cup {NULL}] /\ given' \in [MemberIds -> Maybe(Names)]
             /\ midway' \subseteq MemberIds
  <2> DEFINE m == TargetId(x.read)
  <2>1. m \in MemberIds /\ x.row.name \in Maybe(Names)
    BY <1>2, SaveMemberDoes DEF CsvRow
  <2>2. Saved(x.read, members[m]) \in Row
    BY <1>1, <1>2, <2>1, SaveMemberDoes, SavedTyped
  <2>3. \/ UNCHANGED <<members, given, midway>>
        \/ /\ members' = [members EXCEPT ![m] = Saved(x.read, members[m])]
           /\ given' = IF x.row.name = NULL THEN given ELSE [given EXCEPT ![m] = x.row.name]
           /\ midway' = IF Awaited(m, {x}) THEN midway \cup {m} ELSE midway
    BY <1>2, SaveMemberDoes
  <2> HIDE DEF m
  <2> QED
    BY <1>1, <2>1, <2>2, <2>3
<1>3. ASSUME StoreLead
      PROVE  members' \in [MemberIds -> Row \cup {NULL}] /\ given' \in [MemberIds -> Maybe(Names)]
             /\ midway' \subseteq MemberIds
  <2>1. PICK m \in MemberIds :
           /\ webhook.lead \in Lead /\ webhook.row \in Row \cup {NULL}
           /\ \/ UNCHANGED <<members, given, midway>>
              \/ /\ members' = [members EXCEPT ![m] = Led(webhook.lead, webhook.row, members[m])]
                 /\ given' = IF webhook.row # NULL THEN given
                             ELSE [given EXCEPT ![m] = webhook.lead.name]
                 /\ midway' = IF Imported(m, {}) THEN midway \cup {m} ELSE midway
    BY <1>3, StoreLeadDoes
  <2>2. Led(webhook.lead, webhook.row, members[m]) \in Row /\ webhook.lead.name \in Maybe(Names)
    BY <1>1, <2>1, LedTyped DEF Lead, Maybe
  <2> QED
    BY <1>1, <2>1, <2>2
<1>4. ASSUME NEW m \in Restless, NEW name \in Renames \cup {NULL}, Change(m, name)
      PROVE  members' \in [MemberIds -> Row \cup {NULL}] /\ given' \in [MemberIds -> Maybe(Names)]
             /\ midway' \subseteq MemberIds
  <2>1. m \in MemberIds /\ members[m] \in Row /\ name \in Maybe(Names)
    BY <1>1, <1>4, ImportsAssumption DEF Change, Existing, Maybe
  <2>2. name # NULL => [members[m] EXCEPT !.name = name] \in Row
    BY <2>1 DEF Row, Maybe
  <2> QED
    BY <1>1, <1>4, <2>1, <2>2 DEF Change
<1>5. ASSUME UNCHANGED <<members, given, midway>>
      PROVE  members' \in [MemberIds -> Row \cup {NULL}] /\ given' \in [MemberIds -> Maybe(Names)]
             /\ midway' \subseteq MemberIds
  BY <1>1, <1>5
<1> QED
  BY <1>2, <1>3, <1>4, <1>5 DEF ImportsNext, Upload, Request, Take, Stall, Die, Abort, Finish,
       Fetch, DeleteFile, DeleteFails, SaveCoin, SaveFails, ReadLead

(* The storage, the queue, the leads and the count of changes.             *)
FilesOK ==
  /\ bucket \in [Keys -> Versions \cup {NULL}]
  /\ UNION {uploaded, tried, cleared, shadowed} \subseteq Versions
RestOK ==
  /\ queue \in [Jobs -> {"none", "waiting", "active", "over"}]
  /\ changes \in 0..MaxChanges /\ leads \subseteq Leads
  /\ webhook # NULL => /\ webhook.lead \in leads /\ webhook.member \in Maybe(MemberIds)
                       /\ webhook.row \in Row \cup {NULL}

LEMMA FilesStay ==
  ASSUME ITypes, ImportsNext
  PROVE  FilesOK'
<1> USE DEF FilesOK
<1>1. /\ bucket \in [Keys -> Versions \cup {NULL}] /\ uploaded \subseteq Versions
      /\ tried \subseteq Versions /\ cleared \subseteq Versions /\ shadowed \subseteq Versions
  BY DEF ITypes, ImportsTypeOK
<1> DEFINE Ok == /\ bucket' \in [Keys -> Versions \cup {NULL}] /\ uploaded' \subseteq Versions
                 /\ tried' \subseteq Versions /\ cleared' \subseteq Versions
                 /\ shadowed' \subseteq Versions
<1>2. ASSUME NEW v \in Versions, Upload(v) PROVE Ok
  <2>1. v.key \in Keys
    BY DEF Keys
  <2> QED
    BY <1>1, <1>2, <2>1 DEF Upload
<1>3. ASSUME NEW r \in Started, Fetch(r) PROVE Ok
  <2>1. FileOf(r) \in Versions
    <3>1. runs[r].file \in 1..Len(r[1].files)
      BY <1>3, RunTyped DEF RunOK, Fetch, At
    <3> QED
      BY <3>1, RunTyped, JobFiles DEF FileOf
  <2>2. UNCHANGED <<bucket, uploaded, cleared, shadowed>> /\ tried' \subseteq tried \cup {FileOf(r)}
    BY <1>3 DEF Fetch
  <2> QED
    BY <1>1, <2>1, <2>2
<1>4. ASSUME NEW r \in Started, DeleteFile(r) PROVE Ok
  <2>1. FileOf(r) \in Versions /\ FileOf(r).key \in Keys
    BY <1>4, SavingFile DEF DeleteFile, Settling, At
  <2> QED
    BY <1>1, <1>4, <2>1 DEF DeleteFile
<1>5. ASSUME UNCHANGED <<bucket, uploaded, tried, cleared, shadowed>> PROVE Ok
  BY <1>1, <1>5
<1>6. Ok
  BY <1>2, <1>3, <1>4, <1>5 DEF ImportsNext, Request, Take, Stall, Die, Abort, Finish,
     DeleteFails, SaveCoin, SaveMember, SaveFails, StoreLead, ReadLead, Change
<1> QED
  BY <1>6

LEMMA RestStays ==
  ASSUME ITypes, ImportsNext
  PROVE  RestOK'
<1>1. /\ RestOK /\ MaxChanges \in Nat
  BY ImportsAssumption DEF ITypes, ImportsTypeOK, RestOK
<1>2. ASSUME NEW j \in Jobs, Request(j) \/ Take(j) \/ Stall(j) PROVE RestOK'
  BY <1>1, <1>2 DEF Request, Take, Stall, RestOK, leadVars
<1>3. ASSUME NEW r \in Started, Finish(r) \/ Abort(r) PROVE RestOK'
  BY <1>1, <1>3 DEF Finish, Abort, RestOK, leadVars
<1>4. ASSUME StoreLead PROVE RestOK'
  BY <1>1, <1>4 DEF StoreLead, RestOK
<1>5. ASSUME NEW lead \in Leads, ReadLead(lead) PROVE RestOK'
  <2>1. PICK m \in IF Emailed(lead.email) = {} THEN {NULL} ELSE Emailed(lead.email) :
          webhook' = [lead |-> lead, member |-> m, row |-> IF m = NULL THEN NULL ELSE members[m]]
    BY <1>5 DEF ReadLead
  <2>2. m \in Maybe(MemberIds) /\ (m # NULL => members[m] \in Row \cup {NULL})
    BY <2>1 DEF Emailed, Existing, Maybe, ITypes, MembersTypeOK
  <2>3. webhook'.lead = lead /\ webhook'.member = m /\ webhook'.row \in Row \cup {NULL}
    BY <2>1, <2>2
  <2> QED
    BY <1>1, <1>5, <2>2, <2>3 DEF ReadLead, RestOK
<1>6. ASSUME NEW m, NEW name, Change(m, name) PROVE RestOK'
  BY <1>1, <1>6 DEF Change, RestOK, leadVars
<1>7. ASSUME UNCHANGED <<queue, changes, leadVars>> PROVE RestOK'
  BY <1>1, <1>7 DEF RestOK, leadVars
<1> QED
  BY <1>2, <1>3, <1>4, <1>5, <1>6, <1>7 DEF ImportsNext, Upload, Die, Fetch,
     DeleteFile, DeleteFails, SaveCoin, SaveMember, SaveFails

LEMMA ITypesStay == ITypes /\ ImportsNext => ITypes'
<1> SUFFICES ASSUME ITypes, ImportsNext PROVE ITypes'
  OBVIOUS
<1>1. FilesOK' /\ RestOK' /\ MembersTypeOK' /\ given' \in [MemberIds -> Maybe(Names)]
      /\ midway' \subseteq MemberIds
  BY FilesStay, RestStays, MembersStay
<1>2. /\ runs' \in [Runs -> Run \cup {NULL}]
      /\ \A r \in Runs : runs'[r] # NULL => RunOK(r[1], runs'[r])
  <2>1. /\ runs \in [Runs -> Run \cup {NULL}]
        /\ \A r \in Runs : runs[r] # NULL => RunOK(r[1], runs[r])
    BY DEF ITypes, ImportsTypeOK, Started
  <2>2. ASSUME NEW r \in Runs, NEW run \in Run, RunOK(r[1], run), Goes(r, run)
        PROVE /\ runs' \in [Runs -> Run \cup {NULL}]
              /\ \A q \in Runs : runs'[q] # NULL => RunOK(q[1], runs'[q])
    BY <2>1, <2>2, GoesOn
  <2> QED
    BY <2>1, <2>2, RunGoes
<1>3. /\ \A r \in Started' : RunOK(r[1], runs'[r])
      /\ \A r \in Started' : Len(runs'[r].results) = runs'[r].file - 1
      /\ \A r \in Started' : runs'[r].file \in 1..(Len(r[1].files) + 1)
  BY <1>2 DEF Started, RunOK
<1> QED
  BY <1>1, <1>2, <1>3 DEF ITypes, ImportsTypeOK, FilesOK, RestOK

-----------------------------------------------------------------------------
(* What becomes of a file.  The storage holds no version a run cleared; a  *)
(* version no run tried, and none replaced, is still there; and while a    *)
(* version is imported, which clears its key, every other under its key    *)
(* was tried or shadowed.                                                  *)
Kept(v) == v \in tried \cup shadowed \/ bucket[v.key] = v
Passed(v) == \A w \in uploaded : w.key = v.key => w \in tried \cup shadowed
FilesFate ==
  /\ cleared \subseteq tried /\ tried \subseteq uploaded
  /\ \A k \in Keys : bucket[k] \in uploaded \cup {NULL}
  /\ \A v \in cleared : bucket[v.key] # v
  /\ \A v \in uploaded : Kept(v)
  /\ \A r \in Started : /\ runs[r].stage = "save" => FileOf(r) \in tried /\ Passed(FileOf(r))
                        /\ ~runs[r].again

(* What a run inserted: nothing of a file it has not come to, of the one   *)
(* it is at the rows it counts, of one it is done with those it tells.     *)
Told(result, rows) == /\ result.error = NULL => result.rows = rows
                      /\ result.error = "unread" => rows = {}
Counts(run, i, rows) ==
  /\ i > run.file => rows = {}
  /\ i = run.file /\ run.stage = "fetch" => rows = {}
  /\ i = run.file /\ run.stage = "save" => rows = run.saved
  /\ i <= Len(run.results) => Told(run.results[i], rows)
Booked(r) ==
  \A i \in 1..Len(r[1].files) :
    /\ runs[r] = NULL => InsertedBy(r, r[1].files[i]) = {}
    /\ runs[r] # NULL => Counts(runs[r], i, InsertedBy(r, r[1].files[i]))

(* What was mailed is what a run that is over found.                       *)
Mailed(report) ==
  /\ report.run \in Started /\ runs[report.run].stage = "over"
  /\ report.results = runs[report.run].results

(* No run starts before a worker takes the job.                            *)
Unstarted == \A j \in Jobs, i \in {1, 2} : queue[j] \in {"none", "waiting"} => runs[<<j, i>>] = NULL

AInv ==
  /\ ITypes /\ FilesFate /\ Unstarted
  /\ \A r \in Runs : Booked(r)
  /\ \A report \in reports : Mailed(report)

-----------------------------------------------------------------------------
LEMMA SettledInserts ==
  ASSUME NEW r, NEW x, NEW ok \in BOOLEAN, Settled(r, x, ok), NEW q, NEW v
  PROVE  /\ q # r \/ v # FileOf(r) \/ ~ok => InsertedBy(q, v)' = InsertedBy(q, v)
         /\ q = r /\ v = FileOf(r) /\ ok => InsertedBy(q, v)' = InsertedBy(q, v) \cup {x.row}
<1> DEFINE new == [run |-> r, version |-> FileOf(r), row |-> x.row]
<1>1. inserted' = inserted \cup (IF ok THEN {new} ELSE {})
  BY DEF Settled
<1>2. new.run = r /\ new.version = FileOf(r) /\ new.row = x.row
  OBVIOUS
<1> HIDE DEF new
<1> QED
  BY <1>1, <1>2 DEF InsertedBy

LEMMA OthersBooked ==
  ASSUME NEW r \in Runs, Booked(r), runs'[r] = runs[r],
         \A v : InsertedBy(r, v)' = InsertedBy(r, v)
  PROVE  Booked(r)'
BY DEF Booked

(* A run that goes on without inserting anything.                          *)
LEMMA RunBooked ==
  ASSUME AInv, NEW r \in Runs, NEW run \in Run, Goes(r, run), UNCHANGED inserted,
         \A i \in 1..Len(r[1].files) : Counts(run, i, InsertedBy(r, r[1].files[i]))
  PROVE  \A q \in Runs : Booked(q)'
<1> SUFFICES ASSUME NEW q \in Runs PROVE Booked(q)'
  OBVIOUS
<1>1. \A v : InsertedBy(q, v)' = InsertedBy(q, v)
  BY DEF InsertedBy
<1>2. CASE q # r
  BY <1>1, <1>2, GoesOn, OthersBooked DEF AInv
<1>3. CASE q = r
  <2>1. runs'[q] = run /\ run # NULL
    BY <1>3, GoesOn, RunsAssumption DEF AInv
  <2> QED
    BY <1>1, <1>3, <2>1 DEF Booked
<1> QED
  BY <1>2, <1>3

LEMMA FilesDiffer ==
  ASSUME NEW j \in Jobs, NEW i \in 1..Len(j.files), NEW k \in 1..Len(j.files), i # k
  PROVE  j.files[i] # j.files[k]
BY ImportsAssumption

LEMMA NextFileBooked ==
  ASSUME AInv, NEW r \in Started, runs[r].file <= Len(r[1].files), UNCHANGED inserted,
         NEW error \in {NULL, "unread", "undeleted"}, NEW rows \in SUBSET (CoinRow \cup CsvRow),
         NextFile(r, [error |-> error, rows |-> rows]),
         Told([error |-> error, rows |-> rows], InsertedBy(r, FileOf(r)))
  PROVE  \A q \in Runs : Booked(q)'
<1> DEFINE result == [error |-> error, rows |-> rows]
           run == [runs[r] EXCEPT !.file = @ + 1, !.stage = "fetch", !.left = {},
                                  !.saved = {}, !.results = Append(@, result)]
<1>1. result \in [error: {NULL, "unread", "undeleted"}, rows: SUBSET (CoinRow \cup CsvRow)]
  OBVIOUS
<1>2. /\ ITypes /\ r \in Runs /\ runs[r] # NULL /\ Booked(r) /\ runs[r].file \in Nat
      /\ Len(r[1].files) \in Nat /\ Len(runs[r].results) = runs[r].file - 1
      /\ runs[r].results \in Seq([error: {NULL, "unread", "undeleted"},
                                  rows: SUBSET (CoinRow \cup CsvRow)])
  BY RunTyped DEF AInv, Started, RunOK
<1>3. Goes(r, run) /\ Told(result, InsertedBy(r, FileOf(r)))
  BY DEF NextFile
<1> HIDE DEF result
<1>4. /\ run \in Run /\ run.file = runs[r].file + 1 /\ run.stage = "fetch"
      /\ run.results = Append(runs[r].results, result)
  BY <1>1, <1>2, NextFileOK
<1> HIDE DEF run
<1>5. ASSUME NEW i \in 1..Len(r[1].files)
      PROVE  Counts(run, i, InsertedBy(r, r[1].files[i]))
  <2> DEFINE rs == InsertedBy(r, r[1].files[i])
  <2>1. Counts(runs[r], i, rs)
    BY <1>2 DEF Booked
  <2>2. Len(run.results) = runs[r].file
        /\ (i < runs[r].file => run.results[i] = runs[r].results[i])
        /\ (i = runs[r].file => run.results[i] = result)
    BY <1>1, <1>2, <1>4
  <2>3. i = runs[r].file => Told(result, rs)
    BY <1>3 DEF FileOf
  <2> HIDE DEF rs
  <2>4. i \in Nat /\ runs[r].file \in Nat /\ Len(runs[r].results) = runs[r].file - 1
    BY <1>2
  <2>5. i > run.file \/ (i = run.file /\ run.stage = "fetch") => rs = {}
    BY <1>4, <2>1, <2>4 DEF Counts
  <2>6. i <= Len(run.results) => Told(run.results[i], rs)
    <3>1. CASE i = runs[r].file
      BY <2>2, <2>3, <3>1
    <3>2. CASE i < runs[r].file
      BY <2>1, <2>2, <2>4, <3>2 DEF Counts
    <3> QED
      BY <2>2, <2>4, <3>1, <3>2
  <2> QED
    BY <1>4, <2>5, <2>6 DEF Counts, rs
<1> QED
  BY <1>2, <1>3, <1>4, <1>5, RunBooked

LEMMA FetchBooked ==
  ASSUME AInv, NEW r \in Started, Fetch(r)
  PROVE  \A q \in Runs : Booked(q)'
<1>1. /\ ITypes /\ r \in Runs /\ runs[r] # NULL /\ Booked(r) /\ runs[r].file \in Nat
      /\ RunOK(r[1], runs[r]) /\ Len(runs[r].results) = runs[r].file - 1
      /\ runs[r].file \in 1..Len(r[1].files) /\ runs[r].stage = "fetch"
      /\ Len(r[1].files) \in Nat /\ UNCHANGED inserted
  BY RunTyped DEF AInv, Started, RunOK, Fetch, At
<1>2. Counts(runs[r], runs[r].file, InsertedBy(r, FileOf(r)))
  BY <1>1 DEF Booked, FileOf
<1>3. InsertedBy(r, FileOf(r)) = {}
  BY <1>1, <1>2 DEF Counts
<1>4. CASE NextFile(r, [error |-> "unread", rows |-> {}])
  <2>1. Told([error |-> "unread", rows |-> {}], InsertedBy(r, FileOf(r)))
    BY <1>3 DEF Told
  <2> QED
    BY <1>1, <1>4, <2>1, NextFileBooked
<1>5. CASE ~NextFile(r, [error |-> "unread", rows |-> {}])
  <2>1. PICK run \in Run :
          /\ Goes(r, run) /\ run.stage = "save" /\ run.saved = {}
          /\ run.file = runs[r].file /\ run.results = runs[r].results
    BY <1>1, <1>5, FetchReads
  <2>2. ASSUME NEW i \in 1..Len(r[1].files)
        PROVE  Counts(run, i, InsertedBy(r, r[1].files[i]))
    BY <1>1, <2>1 DEF Booked, Counts
  <2> QED
    BY <1>1, <2>1, <2>2, RunBooked
<1> QED
  BY <1>4, <1>5

LEMMA SettledBooked ==
  ASSUME AInv, NEW r \in Started, runs[r].stage = "save", NEW x \in runs[r].left,
         NEW ok \in BOOLEAN, Settled(r, x, ok)
  PROVE  \A q \in Runs : Booked(q)'
<1> SUFFICES ASSUME NEW q \in Runs PROVE Booked(q)'
  OBVIOUS
<1> DEFINE run == SettledRun(runs[r], x, ok)
<1>1. /\ ITypes /\ r \in Runs /\ runs[r] # NULL /\ Booked(r) /\ Booked(q)
      /\ runs[r].file \in Nat /\ RunOK(r[1], runs[r])
      /\ Len(runs[r].results) = runs[r].file - 1 /\ r[1] \in Jobs
      /\ runs[r].file \in 1..Len(r[1].files) /\ Len(r[1].files) \in Nat
  BY RunTyped, SavingFile DEF AInv, Started, RunOK
<1>2. Goes(r, run)
  BY DEF Settled, SettledRun
<1>3. /\ run \in Run /\ run.stage = "save" /\ run.file = runs[r].file
      /\ run.results = runs[r].results
      /\ run.saved = IF ok THEN runs[r].saved \cup {x.row} ELSE runs[r].saved
  <2>1. ITypes
    BY <1>1
  <2> QED
    BY <2>1, SettledOK
<1> HIDE DEF run
<1>4. runs'[r] = run /\ run # NULL /\ \A p \in Runs \ {r} : runs'[p] = runs[p]
  BY <1>1, <1>2, <1>3, GoesOn, RunsAssumption
<1>5. CASE q # r
  <2>1. \A v : InsertedBy(q, v)' = InsertedBy(q, v)
    BY <1>5, SettledInserts
  <2> QED
    BY <1>1, <1>4, <1>5, <2>1, OthersBooked
<1>6. CASE q = r
  <2>1. ASSUME NEW i \in 1..Len(q[1].files)
        PROVE  Counts(run, i, InsertedBy(q, q[1].files[i])')
    <3>1. Counts(runs[r], i, InsertedBy(q, q[1].files[i]))
      BY <1>1, <1>6, <2>1 DEF Booked
    <3>2. CASE i = runs[r].file
      <4>1. q[1].files[i] = FileOf(r)
        BY <1>6, <3>2 DEF FileOf
      <4>2. /\ ~ok => InsertedBy(q, q[1].files[i])' = InsertedBy(q, q[1].files[i])
            /\ ok => InsertedBy(q, q[1].files[i])' = InsertedBy(q, q[1].files[i]) \cup {x.row}
        BY <1>6, <4>1, SettledInserts
      <4>3. InsertedBy(q, q[1].files[i]) = runs[r].saved
        BY <3>1, <3>2 DEF Counts
      <4>4. InsertedBy(q, q[1].files[i])' = run.saved
        BY <1>3, <4>2, <4>3
      <4> QED
        BY <1>1, <1>3, <3>2, <4>4 DEF Counts
    <3>3. CASE i # runs[r].file
      <4>1. q[1].files[i] # FileOf(r)
        BY <1>1, <1>6, <3>3, FilesDiffer DEF FileOf
      <4>2. InsertedBy(q, q[1].files[i])' = InsertedBy(q, q[1].files[i])
        BY <4>1, SettledInserts
      <4> QED
        BY <1>1, <1>3, <3>1, <3>3, <4>2 DEF Counts
    <3> QED
      BY <3>2, <3>3
  <2> QED
    BY <1>4, <1>6, <2>1 DEF Booked
<1> QED
  BY <1>5, <1>6

LEMMA StepBooked ==
  ASSUME AInv, ImportsNext
  PROVE  \A q \in Runs : Booked(q)'
<1> DEFINE Ok == \A q \in Runs : Booked(q)'
<1>1. ASSUME NEW j \in Jobs, Take(j) \/ Stall(j) PROVE Ok
  <2>1. NewRun \in Run /\ <<j, 1>> \in Runs /\ <<j, 2>> \in Runs
    BY NewRunOK DEF Runs
  <2>2. ASSUME NEW r \in Runs, runs[r] = NULL, Goes(r, NewRun), UNCHANGED inserted PROVE Ok
    <3>1. ASSUME NEW i \in 1..Len(r[1].files)
          PROVE Counts(NewRun, i, InsertedBy(r, r[1].files[i]))
      <4>1. InsertedBy(r, r[1].files[i]) = {}
        BY <2>2 DEF AInv, Booked
      <4>2. NewRun.saved = {} /\ Len(NewRun.results) = 0 /\ i \in Nat /\ i # 0
        <5>1. r[1] \in Jobs
          BY DEF Runs
        <5>2. Len(r[1].files) \in Nat
          BY <5>1, ImportsAssumption
        <5> QED
          BY <5>2 DEF NewRun
      <4> QED
        BY <4>1, <4>2 DEF Counts
    <3> QED
      BY <2>1, <2>2, <3>1, RunBooked
  <2>3. Take(j) => runs[<<j, 1>>] = NULL
    BY DEF AInv, Unstarted, Take
  <2>4. CASE UNCHANGED <<runs, inserted>>
    BY <2>4 DEF AInv, Booked, InsertedBy
  <2> QED
    BY <1>1, <2>1, <2>2, <2>3, <2>4 DEF Take, Stall
<1>2. ASSUME NEW r \in Started, Finish(r) \/ Die(r) \/ Abort(r) PROVE Ok
  <2> DEFINE run == [runs[r] EXCEPT !.stage = "over"]
  <2>1. Goes(r, run) /\ UNCHANGED inserted /\ r \in Runs /\ runs[r] # NULL
    BY <1>2 DEF Finish, Die, Abort, Started
  <2>2. run \in Run /\ run.file = runs[r].file /\ run.results = runs[r].results
        /\ run.stage = "over"
    BY StoppedOK DEF AInv
  <2> HIDE DEF run
  <2>3. ASSUME NEW i \in 1..Len(r[1].files)
        PROVE Counts(run, i, InsertedBy(r, r[1].files[i]))
    BY <2>1, <2>2 DEF AInv, Booked, Counts
  <2> QED
    BY <2>1, <2>2, <2>3, RunBooked
<1>3. ASSUME NEW r \in Started, DeleteFile(r) \/ DeleteFails(r) PROVE Ok
  <2>1. runs[r].saved \in SUBSET (CoinRow \cup CsvRow) /\ {} \in SUBSET (CoinRow \cup CsvRow)
    BY RunTyped DEF Run, AInv
  <2>2. runs[r].file \in 1..Len(r[1].files) /\ runs[r].stage = "save" /\ UNCHANGED inserted
    BY <1>3, SavingFile DEF AInv, DeleteFile, DeleteFails, Settling, At
  <2>3. Booked(r) /\ runs[r] # NULL
    BY DEF AInv, Started
  <2>4. Counts(runs[r], runs[r].file, InsertedBy(r, FileOf(r)))
    BY <2>2, <2>3 DEF Booked, FileOf
  <2>5. InsertedBy(r, FileOf(r)) = runs[r].saved
    BY <2>2, <2>4 DEF Counts
  <2>6. /\ Told([error |-> NULL, rows |-> runs[r].saved], InsertedBy(r, FileOf(r)))
        /\ Told([error |-> "undeleted", rows |-> {}], InsertedBy(r, FileOf(r)))
    BY <2>5, RunsAssumption DEF Told
  <2> QED
    BY <1>3, <2>1, <2>2, <2>6, NextFileBooked DEF DeleteFile, DeleteFails
<1>4. ASSUME NEW r \in Started, NEW x \in runs[r].left,
             SaveCoin(r, x) \/ SaveMember(r, x) \/ SaveFails(r, x)
      PROVE Ok
  <2>1. runs[r].stage = "save" /\ \E ok \in BOOLEAN : Settled(r, x, ok)
    BY <1>4 DEF SaveCoin, SaveMember, SaveFails, At
  <2> QED
    BY <2>1, SettledBooked
<1>5. ASSUME UNCHANGED <<runs, inserted>> PROVE Ok
  BY <1>5 DEF AInv, Booked, InsertedBy
<1> QED
  BY <1>1, <1>2, <1>3, <1>4, <1>5, FetchBooked
  DEF ImportsNext, Upload, Request, StoreLead, ReadLead, Change

(* A mailed result stays what its run found: a run that is over is over.   *)
LEMMA OverStays ==
  ASSUME ITypes, ImportsNext, Unstarted, NEW r \in Started, runs[r].stage = "over"
  PROVE  r \in Started' /\ runs'[r] = runs[r]
<1> USE DEF Unstarted
<1>1. r \in Runs /\ runs \in [Runs -> Run \cup {NULL}] /\ runs[r] # NULL
  BY DEF Started, ITypes, ImportsTypeOK
<1>2. ASSUME NEW q \in Runs, q # r, NEW run, Goes(q, run) PROVE runs'[r] = runs[r]
  BY <1>1, <1>2 DEF Goes
<1>3. ASSUME NEW j \in Jobs, Take(j) \/ Stall(j) PROVE runs'[r] = runs[r]
  <2>1. Take(j) => runs[<<j, 1>>] = NULL
    BY DEF Take
  <2>2. <<j, 1>> \in Runs /\ <<j, 2>> \in Runs
    BY DEF Runs
  <2> QED
    BY <1>1, <1>2, <1>3, <2>1, <2>2 DEF Take, Stall
<1>4. ASSUME NEW q \in Started, Finish(q) \/ Die(q) \/ Abort(q) \/ Fetch(q)
             \/ DeleteFile(q) \/ DeleteFails(q)
      PROVE runs'[r] = runs[r]
  <2>1. q # r
    BY <1>4 DEF Finish, Die, Abort, Fetch, DeleteFile, DeleteFails, Settling, At, NewRun
  <2>2. q \in Runs /\ \E run : Goes(q, run)
    BY <1>4 DEF Started, Finish, Die, Abort, Fetch, DeleteFile, DeleteFails, NextFile
  <2> QED
    BY <1>2, <2>1, <2>2
<1>5. ASSUME NEW q \in Started, NEW x \in runs[q].left,
             SaveCoin(q, x) \/ SaveMember(q, x) \/ SaveFails(q, x)
      PROVE runs'[r] = runs[r]
  <2>1. q # r
    BY <1>5 DEF SaveCoin, SaveMember, SaveFails, At
  <2>2. q \in Runs /\ \E run : Goes(q, run)
    BY <1>5 DEF Started, SaveCoin, SaveMember, SaveFails, Settled
  <2> QED
    BY <1>2, <2>1, <2>2
<1>6. runs'[r] = runs[r]
  BY <1>3, <1>4, <1>5 DEF ImportsNext, Upload, Request, StoreLead, ReadLead, Change
<1> QED
  BY <1>1, <1>6 DEF Started

LEMMA StepMailed ==
  ASSUME AInv, ImportsNext
  PROVE  \A report \in reports' : Mailed(report)'
<1>1. ASSUME NEW report \in reports PROVE Mailed(report)'
  <2>1. Mailed(report)
    BY DEF AInv
  <2> QED
    BY <2>1, OverStays DEF Mailed, AInv
<1>2. ASSUME NEW r \in Started, Finish(r), NEW report \in reports', report \notin reports
      PROVE Mailed(report)'
  <2>1. report = [run |-> r, results |-> runs[r].results]
        /\ Goes(r, [runs[r] EXCEPT !.stage = "over"])
    BY <1>2 DEF Finish
  <2>2. /\ [runs[r] EXCEPT !.stage = "over"] \in Run
        /\ [runs[r] EXCEPT !.stage = "over"].stage = "over"
        /\ [runs[r] EXCEPT !.stage = "over"].results = runs[r].results
    BY StoppedOK DEF AInv
  <2>3. r \in Runs
    BY DEF Started
  <2>4. runs'[r] = [runs[r] EXCEPT !.stage = "over"] /\ r \in Started'
    BY <2>1, <2>2, <2>3, GoesOn DEF AInv
  <2> QED
    BY <2>1, <2>2, <2>4 DEF Mailed
<1>3. reports' = reports \/ \E r \in Started : Finish(r)
  BY DEF ImportsNext, Upload, Request, Take, Stall, Die, Abort, Fetch, DeleteFile, DeleteFails,
       SaveCoin, SaveMember, SaveFails, StoreLead, ReadLead, Change
<1> QED
  BY <1>1, <1>2, <1>3

LEMMA StepUnstarted ==
  ASSUME ITypes, Unstarted, ImportsNext
  PROVE  Unstarted'
<1> SUFFICES ASSUME NEW j \in Jobs, NEW i \in {1, 2}, queue'[j] \in {"none", "waiting"}
             PROVE  runs'[<<j, i>>] = NULL
  BY DEF Unstarted
<1> DEFINE r == <<j, i>>
<1>1. /\ queue \in [Jobs -> {"none", "waiting", "active", "over"}]
      /\ runs \in [Runs -> Run \cup {NULL}] /\ r \in Runs
      /\ queue[j] \in {"none", "waiting"} => runs[r] = NULL
  BY DEF ITypes, ImportsTypeOK, Unstarted, Runs
<1> DEFINE Ok == queue[j] \in {"none", "waiting"} /\ runs'[r] = runs[r]
<1>2. ASSUME NEW k \in Jobs, Take(k) \/ Stall(k) PROVE Ok
  <2>1. queue[k] \in {"waiting", "active"}
        /\ queue' \in {queue, [queue EXCEPT ![k] = "over"], [queue EXCEPT ![k] = "active"]}
        /\ (queue' = queue => queue[k] = "active")
    BY <1>1, <1>2 DEF Take, Stall
  <2>2. k # j /\ queue'[j] = queue[j]
    BY <1>1, <2>1
  <2>3. UNCHANGED runs \/ \E l \in {1, 2} : Goes(<<k, l>>, NewRun)
    BY <1>2 DEF Take, Stall
  <2>4. \A l \in {1, 2} : <<k, l>> # r
    BY <2>2
  <2>5. runs'[r] = runs[r]
    BY <1>1, <2>3, <2>4 DEF Goes
  <2> QED
    BY <1>1, <2>2, <2>5
<1>3. ASSUME NEW q \in Runs, runs[q] # NULL, NEW run, Goes(q, run) \/ UNCHANGED runs,
             queue'[j] \in {"none", "waiting"} => queue[j] \in {"none", "waiting"}
      PROVE Ok
  BY <1>1, <1>3 DEF Goes
<1>4. ASSUME NEW q \in Started, Finish(q) \/ Abort(q) PROVE Ok
  <2>1. q \in Runs /\ runs[q] # NULL /\ q[1] \in Jobs /\ \E run : Goes(q, run)
    BY <1>4 DEF Started, Runs, Finish, Abort
  <2>2. queue' \in {queue, [queue EXCEPT ![q[1]] = "over"]}
    BY <1>4 DEF Finish, Abort
  <2> QED
    BY <1>1, <1>3, <2>1, <2>2
<1>5. ASSUME NEW q \in Started, Die(q) \/ Fetch(q) \/ DeleteFile(q) \/ DeleteFails(q) PROVE Ok
  <2>1. q \in Runs /\ runs[q] # NULL /\ (\E run : Goes(q, run)) /\ UNCHANGED queue
    BY <1>5 DEF Started, Die, Fetch, DeleteFile, DeleteFails, NextFile
  <2> QED
    BY <1>3, <2>1
<1>6. ASSUME NEW q \in Started, NEW x \in runs[q].left,
             SaveCoin(q, x) \/ SaveMember(q, x) \/ SaveFails(q, x)
      PROVE Ok
  <2>1. q \in Runs /\ runs[q] # NULL /\ (\E run : Goes(q, run)) /\ UNCHANGED queue
    BY <1>6 DEF Started, SaveCoin, SaveMember, SaveFails, Settled
  <2> QED
    BY <1>3, <2>1
<1>7. ASSUME NEW k \in Jobs, Request(k) PROVE Ok
  BY <1>1, <1>7 DEF Request
<1>8. ASSUME UNCHANGED <<queue, runs>> PROVE Ok
  BY <1>8
<1>9. Ok
  BY <1>2, <1>4, <1>5, <1>6, <1>7, <1>8 DEF ImportsNext, Upload, StoreLead, ReadLead, Change
<1> QED
  BY <1>1, <1>9

(* The files stay as they are, and a run goes on with the one it is at, or *)
(* with none.                                                              *)
LEMMA FilesAlone ==
  ASSUME ITypes, FilesFate, UNCHANGED <<bucket, uploaded, tried, cleared, shadowed>>,
         NEW r \in Runs, NEW run \in Run, Goes(r, run), ~run.again,
         run.stage = "save" => r \in Started /\ runs[r].stage = "save" /\ run.file = runs[r].file
  PROVE  FilesFate'
<1>1. /\ runs'[r] = run /\ \A q \in Runs \ {r} : runs'[q] = runs[q]
      /\ Started' = Started \cup {r}
  BY GoesOn
<1>2. ASSUME NEW q \in Started'
      PROVE /\ runs'[q].stage = "save" => FileOf(q)' \in tried /\ Passed(FileOf(q))'
            /\ ~runs'[q].again
  <2>1. ASSUME runs'[q].stage = "save"
        PROVE  q \in Started /\ runs[q].stage = "save" /\ FileOf(q)' = FileOf(q)
    BY <1>1, <1>2, <2>1 DEF Started, FileOf
  <2>2. ~runs'[q].again
    BY <1>1, <1>2 DEF FilesFate, Started
  <2> QED
    BY <2>1, <2>2 DEF FilesFate, Passed
<1> QED
  BY <1>2 DEF FilesFate, Kept

LEMMA UploadFated ==
  ASSUME ITypes, FilesFate, NEW v \in Versions, Upload(v)
  PROVE  FilesFate'
<1>1. /\ v \notin uploaded /\ uploaded' = uploaded \cup {v} /\ bucket' = [bucket EXCEPT ![v.key] = v]
      /\ bucket[v.key] # NULL => bucket[v.key] \in shadowed'
      /\ (\E x \in Versions \ {v} : x.key = v.key /\ Importing(x)) => v \in shadowed'
      /\ shadowed \subseteq shadowed' /\ UNCHANGED <<tried, cleared, runs>>
  BY DEF Upload
<1>2. /\ bucket \in [Keys -> Versions \cup {NULL}] /\ v.key \in Keys /\ NULL \notin Versions
      /\ uploaded \subseteq Versions
  BY ImportsAssumption DEF ITypes, ImportsTypeOK, Keys
<1>3. /\ bucket'[v.key] = v /\ \A k \in Keys : k # v.key => bucket'[k] = bucket[k]
  BY <1>1, <1>2
<1>4. \A w \in uploaded' : Kept(w)'
  <2> SUFFICES ASSUME NEW w \in uploaded' PROVE Kept(w)'
    OBVIOUS
  <2>1. CASE w = v
    BY <1>3, <2>1 DEF Kept
  <2>2. CASE w # v
    <3>1. w \in uploaded /\ Kept(w) /\ w \in Versions /\ w.key \in Keys
      BY <1>1, <1>2, <2>2 DEF FilesFate, Keys
    <3> QED
      BY <1>1, <1>2, <1>3, <3>1 DEF Kept
  <2> QED
    BY <2>1, <2>2
<1>5. \A x \in cleared' : bucket'[x.key] # x
  <2> SUFFICES ASSUME NEW x \in cleared PROVE bucket'[x.key] # x
    BY <1>1
  <2>1. x \in uploaded /\ x.key \in Keys /\ bucket[x.key] # x
    BY <1>2 DEF FilesFate, Keys
  <2> QED
    BY <1>1, <1>3, <2>1
<1>6. ASSUME NEW q \in Started
      PROVE runs[q].stage = "save" => FileOf(q) \in tried' /\ Passed(FileOf(q))'
  <2>1. runs[q].stage = "save" => FileOf(q) \in tried /\ Passed(FileOf(q))
    BY DEF FilesFate
  <2>2. ASSUME runs[q].stage = "save", NEW w \in uploaded', w.key = FileOf(q).key
        PROVE  w \in tried' \cup shadowed'
    <3>1. CASE w \in uploaded
      BY <1>1, <2>1, <2>2, <3>1 DEF Passed
    <3>2. CASE w \notin uploaded
      <4>1. w = v /\ FileOf(q) \in uploaded
        BY <1>1, <2>1, <2>2, <3>2 DEF FilesFate
      <4>2. FileOf(q) \in Versions \ {v} /\ FileOf(q).key = v.key /\ Importing(FileOf(q))
        BY <1>1, <1>2, <2>2, <4>1 DEF Importing
      <4> QED
        BY <1>1, <4>1, <4>2
    <3> QED
      BY <3>1, <3>2
  <2>3. FileOf(q)' = FileOf(q)
    BY <1>1 DEF FileOf
  <2> QED
    BY <1>1, <2>1, <2>2, <2>3 DEF Passed
<1>7. \A k \in Keys : bucket'[k] \in uploaded' \cup {NULL}
  BY <1>1, <1>3 DEF FilesFate
<1>8. ASSUME NEW q \in Started' PROVE q \in Started /\ runs'[q] = runs[q] /\ FileOf(q)' = FileOf(q)
  BY <1>1, <1>8 DEF Started, FileOf
<1>9. \A q \in Started' : runs'[q].stage = "save" => FileOf(q)' \in tried' /\ Passed(FileOf(q))'
  <2> SUFFICES ASSUME NEW q \in Started', runs'[q].stage = "save"
               PROVE  FileOf(q)' \in tried' /\ Passed(FileOf(q))'
    OBVIOUS
  <2> QED
    BY <1>6, <1>8
<1> QED
  BY <1>1, <1>4, <1>5, <1>7, <1>8, <1>9 DEF FilesFate

LEMMA FetchFated ==
  ASSUME ITypes, FilesFate, NEW r \in Started, Fetch(r)
  PROVE  FilesFate'
<1>1. r \in Runs /\ ~runs[r].again /\ runs[r].file <= Len(r[1].files)
      /\ UNCHANGED <<bucket, uploaded, cleared, shadowed>>
  BY DEF Started, FilesFate, Fetch, At
<1> DEFINE v == FileOf(r)
           run == [runs[r] EXCEPT !.file = @ + 1, !.stage = "fetch", !.left = {}, !.saved = {},
                                  !.results = Append(@, [error |-> "unread", rows |-> {}])]
<1>2. ASSUME NextFile(r, [error |-> "unread", rows |-> {}])
      PROVE  run \in Run /\ Goes(r, run) /\ run.stage = "fetch" /\ ~run.again
  <2>1. [error |-> "unread", rows |-> {}] \in
          [error: {NULL, "unread", "undeleted"}, rows: SUBSET (CoinRow \cup CsvRow)]
    OBVIOUS
  <2> QED
    BY <1>1, <1>2, <2>1, NextFileOK DEF NextFile
<1> HIDE DEF run
<1>3. /\ uploaded \subseteq Versions /\ tried \subseteq Versions
  BY DEF ITypes, ImportsTypeOK
<1>4. CASE ~NextFile(r, [error |-> "unread", rows |-> {}])
  <2>1. PICK new \in Run : /\ Goes(r, new) /\ new.stage = "save" /\ new.file = runs[r].file
                           /\ new.again => runs[r].again \/ v \in cleared
    BY <1>4, FetchReads
  <2>2. v \in Versions /\ bucket[v.key] = v /\ tried' = tried \cup {v}
    BY <1>4, FetchReads
  <2>3. v \in uploaded /\ v \notin cleared
    BY <2>2, ImportsAssumption DEF FilesFate, Keys
  <2>4. \A w \in uploaded : w.key = v.key => w \in tried' \cup shadowed'
    BY <1>1, <2>2 DEF FilesFate, Kept
  <2>5. /\ runs'[r] = new /\ \A q \in Runs \ {r} : runs'[q] = runs[q]
        /\ Started' = Started \cup {r}
    BY <1>1, <2>1, GoesOn
  <2>6. ~new.again
    BY <1>1, <2>1, <2>3
  <2>7. ASSUME NEW q \in Started'
        PROVE  FileOf(q)' = FileOf(q) /\ ~runs'[q].again
               /\ (runs'[q].stage = "save" => FileOf(q) \in tried' /\ Passed(FileOf(q))')
    <3>1. CASE q = r
      <4>1. FileOf(q)' = FileOf(q) /\ FileOf(q)' = v
        BY <2>1, <2>5, <3>1 DEF FileOf
      <4> QED
        BY <1>1, <2>2, <2>4, <2>5, <2>6, <3>1, <4>1 DEF Passed
    <3>2. CASE q # r
      <4>1. q \in Started /\ runs'[q] = runs[q] /\ FileOf(q)' = FileOf(q)
        BY <2>5, <2>7, <3>2 DEF Started, FileOf
      <4> QED
        BY <1>1, <2>2, <4>1 DEF FilesFate, Passed
    <3> QED
      BY <3>1, <3>2
  <2>8. /\ cleared' \subseteq tried' /\ tried' \subseteq uploaded'
        /\ \A k \in Keys : bucket'[k] \in uploaded' \cup {NULL}
        /\ \A x \in cleared' : bucket'[x.key] # x
        /\ \A x \in uploaded' : Kept(x)'
    BY <1>1, <2>2, <2>3 DEF FilesFate, Kept
  <2>9. \A q \in Started' : /\ runs'[q].stage = "save" => FileOf(q)' \in tried' /\ Passed(FileOf(q))'
                            /\ ~runs'[q].again
    <3> SUFFICES ASSUME NEW q \in Started'
                 PROVE  /\ runs'[q].stage = "save" => FileOf(q)' \in tried' /\ Passed(FileOf(q))'
                        /\ ~runs'[q].again
      OBVIOUS
    <3> QED
      BY <2>7
  <2> QED
    BY <2>8, <2>9 DEF FilesFate
<1>5. CASE NextFile(r, [error |-> "unread", rows |-> {}])
  <2>1. run \in Run /\ Goes(r, run) /\ run.stage = "fetch" /\ ~run.again
    BY <1>2, <1>5
  <2>2. CASE UNCHANGED tried
    BY <1>1, <2>1, <2>2, FilesAlone
  <2>3. CASE tried' = tried \cup {v} /\ bucket[v.key] = v
    <3>1. v \in uploaded
      <4>1. v \in Versions
        <5>1. runs[r].file \in 1..Len(r[1].files)
          BY <1>1, RunTyped DEF RunOK
        <5> QED
          BY <5>1, RunTyped, JobFiles DEF FileOf
      <4> QED
        BY <2>3, <4>1, ImportsAssumption DEF FilesFate, Keys
    <3>2. /\ runs'[r] = run /\ \A q \in Runs \ {r} : runs'[q] = runs[q]
          /\ Started' = Started \cup {r}
      BY <1>1, <2>1, GoesOn
    <3>3. \A q \in Started' : /\ runs'[q].stage = "save" => FileOf(q)' \in tried' /\ Passed(FileOf(q))'
                              /\ ~runs'[q].again
      <4> SUFFICES ASSUME NEW q \in Started'
                   PROVE  /\ runs'[q].stage = "save" => FileOf(q)' \in tried' /\ Passed(FileOf(q))'
                          /\ ~runs'[q].again
        OBVIOUS
      <4>1. CASE q = r
        BY <2>1, <3>2, <4>1
      <4>2. CASE q # r
        <5>1. q \in Started /\ runs'[q] = runs[q] /\ FileOf(q)' = FileOf(q)
          BY <3>2, <4>2 DEF Started, FileOf
        <5> QED
          BY <1>1, <2>3, <5>1 DEF FilesFate, Passed
      <4> QED
        BY <4>1, <4>2
    <3> QED
      BY <1>1, <2>3, <3>1, <3>3 DEF FilesFate, Kept
  <2> QED
    BY <1>5, <2>2, <2>3 DEF Fetch
<1> QED
  BY <1>4, <1>5

LEMMA DeleteFated ==
  ASSUME ITypes, FilesFate, NEW r \in Started, DeleteFile(r)
  PROVE  FilesFate'
<1> DEFINE v == FileOf(r)
           run == [runs[r] EXCEPT !.file = @ + 1, !.stage = "fetch", !.left = {}, !.saved = {},
                                  !.results = Append(@, [error |-> NULL, rows |-> runs[r].saved])]
<1>1. /\ r \in Runs /\ ~runs[r].again /\ runs[r].file <= Len(r[1].files) /\ runs[r].stage = "save"
      /\ bucket' = [bucket EXCEPT ![v.key] = NULL] /\ cleared' = cleared \cup {v}
      /\ UNCHANGED <<uploaded, tried, shadowed>> /\ Goes(r, run)
  BY DEF Started, FilesFate, DeleteFile, Settling, At, NextFile
<1>2. run \in Run /\ run.stage = "fetch" /\ ~run.again
  <2>1. runs[r].saved \in SUBSET (CoinRow \cup CsvRow)
    BY RunTyped DEF Run
  <2>2. [error |-> NULL, rows |-> runs[r].saved] \in
          [error: {NULL, "unread", "undeleted"}, rows: SUBSET (CoinRow \cup CsvRow)]
    BY <2>1
  <2> QED
    BY <1>1, <2>2, NextFileOK
<1> HIDE DEF run
<1>3. /\ v \in Versions /\ v.key \in Keys /\ v \in tried /\ Passed(v) /\ NULL \notin Versions
      /\ bucket \in [Keys -> Versions \cup {NULL}] /\ uploaded \subseteq Versions
  BY <1>1, SavingFile, ImportsAssumption DEF FilesFate, ITypes, ImportsTypeOK
<1> HIDE DEF v
<1>4. bucket'[v.key] = NULL /\ \A k \in Keys : k # v.key => bucket'[k] = bucket[k]
  BY <1>1, <1>3
<1>5. /\ runs'[r] = run /\ \A q \in Runs \ {r} : runs'[q] = runs[q]
      /\ Started' = Started \cup {r}
  BY <1>1, <1>2, GoesOn
<1>6. \A q \in Started' : /\ runs'[q].stage = "save" => FileOf(q)' \in tried' /\ Passed(FileOf(q))'
                          /\ ~runs'[q].again
  <2> SUFFICES ASSUME NEW q \in Started'
               PROVE  /\ runs'[q].stage = "save" => FileOf(q)' \in tried' /\ Passed(FileOf(q))'
                      /\ ~runs'[q].again
    OBVIOUS
  <2>1. CASE q = r
    BY <1>2, <1>5, <2>1
  <2>2. CASE q # r
    <3>1. q \in Started /\ runs'[q] = runs[q] /\ FileOf(q)' = FileOf(q)
      BY <1>5, <2>2 DEF Started, FileOf
    <3> QED
      BY <1>1, <3>1 DEF FilesFate, Passed
  <2> QED
    BY <2>1, <2>2
<1>7. \A w \in uploaded' : Kept(w)'
  <2> SUFFICES ASSUME NEW w \in uploaded PROVE Kept(w)'
    BY <1>1
  <2>1. w \in Versions /\ w.key \in Keys /\ Kept(w)
    BY <1>3 DEF FilesFate, Keys
  <2> QED
    BY <1>1, <1>3, <1>4, <2>1 DEF Kept, Passed
<1>8. \A x \in cleared' : bucket'[x.key] # x
  <2> SUFFICES ASSUME NEW x \in cleared' PROVE bucket'[x.key] # x
    OBVIOUS
  <2>1. x \in Versions /\ x.key \in Keys /\ (x = v \/ bucket[x.key] # x)
    BY <1>1, <1>3 DEF FilesFate, Keys
  <2> QED
    BY <1>3, <1>4, <2>1
<1>9. \A k \in Keys : bucket'[k] \in uploaded' \cup {NULL}
  BY <1>1, <1>4 DEF FilesFate
<1> QED
  BY <1>1, <1>3, <1>6, <1>7, <1>8, <1>9 DEF FilesFate

LEMMA StepFated ==
  ASSUME ITypes, FilesFate, ImportsNext
  PROVE  FilesFate'
<1>1. ASSUME NEW j \in Jobs, Take(j) \/ Stall(j) PROVE FilesFate'
  <2>1. NewRun \in Run /\ ~NewRun.again /\ NewRun.stage = "fetch"
        /\ <<j, 1>> \in Runs /\ <<j, 2>> \in Runs
    BY NewRunOK DEF Runs, NewRun
  <2>2. UNCHANGED <<bucket, uploaded, tried, cleared, shadowed>>
        /\ (UNCHANGED runs \/ Goes(<<j, 1>>, NewRun) \/ Goes(<<j, 2>>, NewRun))
    BY <1>1 DEF Take, Stall
  <2>3. CASE UNCHANGED runs
    BY <2>2, <2>3 DEF FilesFate, Kept, Passed, Started, FileOf
  <2> QED
    BY <2>1, <2>2, <2>3, FilesAlone
<1>2. ASSUME NEW r \in Started, Finish(r) \/ Die(r) \/ Abort(r) PROVE FilesFate'
  <2> DEFINE run == [runs[r] EXCEPT !.stage = "over"]
  <2>1. Goes(r, run) /\ r \in Runs /\ UNCHANGED <<bucket, uploaded, tried, cleared, shadowed>>
    BY <1>2 DEF Finish, Die, Abort, Started
  <2>2. run \in Run /\ run.again = runs[r].again /\ run.stage = "over" /\ ~runs[r].again
    BY StoppedOK DEF FilesFate
  <2> HIDE DEF run
  <2> QED
    BY <2>1, <2>2, FilesAlone
<1>3. ASSUME NEW r \in Started, DeleteFails(r) PROVE FilesFate'
  <2> DEFINE result == [error |-> "undeleted", rows |-> {}]
             run == [runs[r] EXCEPT !.file = @ + 1, !.stage = "fetch", !.left = {},
                                    !.saved = {}, !.results = Append(@, result)]
  <2>1. Goes(r, run) /\ r \in Runs /\ UNCHANGED <<bucket, uploaded, tried, cleared, shadowed>>
        /\ runs[r].file <= Len(r[1].files) /\ ~runs[r].again
    BY <1>3 DEF DeleteFails, Settling, At, NextFile, Started, FilesFate
  <2>2. result \in [error: {NULL, "unread", "undeleted"}, rows: SUBSET (CoinRow \cup CsvRow)]
    OBVIOUS
  <2> HIDE DEF result
  <2>3. run \in Run /\ run.again = runs[r].again /\ run.stage = "fetch"
    BY <2>1, <2>2, NextFileOK
  <2> HIDE DEF run
  <2> QED
    BY <2>1, <2>3, FilesAlone
<1>4. ASSUME NEW r \in Started, NEW x \in runs[r].left,
             SaveCoin(r, x) \/ SaveMember(r, x) \/ SaveFails(r, x)
      PROVE FilesFate'
  <2>1. runs[r].stage = "save" /\ UNCHANGED <<bucket, uploaded, tried, cleared, shadowed>>
        /\ r \in Runs /\ ~runs[r].again
        /\ \E ok \in BOOLEAN : Goes(r, SettledRun(runs[r], x, ok))
    BY <1>4 DEF SaveCoin, SaveMember, SaveFails, At, Settled, SettledRun, Started, FilesFate
  <2>2. PICK ok \in BOOLEAN : Goes(r, SettledRun(runs[r], x, ok))
    BY <2>1
  <2> DEFINE run == SettledRun(runs[r], x, ok)
  <2>3. run \in Run /\ run.again = runs[r].again /\ run.file = runs[r].file
    BY <2>1, SettledOK
  <2>4. Goes(r, run)
    BY <2>2
  <2> HIDE DEF run
  <2> QED
    BY <2>1, <2>3, <2>4, FilesAlone
<1>5. ASSUME UNCHANGED <<bucket, uploaded, tried, cleared, shadowed, runs>> PROVE FilesFate'
  BY <1>5 DEF FilesFate, Kept, Passed, Started, FileOf
<1> QED
  BY <1>1, <1>2, <1>3, <1>4, <1>5, UploadFated, FetchFated, DeleteFated
  DEF ImportsNext, Request, StoreLead, ReadLead, Change

-----------------------------------------------------------------------------
(* What an import leaves of a member.  A row that waits to be saved, and a *)
(* lead, hold the name the member has, or a new one, unless he was changed *)
(* since they were read.                                                   *)
Pending == UNION {runs[r].left :
                    r \in {q \in Started : runs[q].stage = "save" /\ FileOf(q).category = "member"}}
HasName(m, name) == members[m] # NULL /\ members[m].name = name
RowFits(x) == IF x.row.name # NULL THEN x.read.name = x.row.name
              ELSE x.read.id \in MemberIds
                   /\ (x.read.id \notin midway => HasName(x.read.id, x.read.name))
LeadFits ==
  webhook # NULL =>
    /\ webhook.member = NULL <=> webhook.row = NULL
    /\ webhook.member \in MemberIds \ midway => HasName(webhook.member, webhook.row.name)

KInv == /\ ITypes /\ ImportKeepsMembers /\ LeadFits
        /\ \A x \in Pending : RowFits(x)

LEMMA PendingAwaited ==
  ASSUME NEW x \in Pending
  PROVE  /\ \A m, y : x # y /\ x.read.id = m => Awaited(m, {y})
         /\ \A m : x.read.id = m => Imported(m, {}) /\ Awaited(m, {})
BY DEF Pending, Imported, Awaited

LEMMA PendingShrinks ==
  ASSUME ITypes, NEW r \in Runs, NEW run \in Run, Goes(r, run),
         run.stage = "save" => /\ r \in Started /\ runs[r].stage = "save"
                               /\ run.file = runs[r].file /\ run.left \subseteq runs[r].left
  PROVE  Pending' \subseteq Pending
<1>1. /\ runs'[r] = run /\ \A q \in Runs \ {r} : runs'[q] = runs[q]
      /\ Started' = Started \cup {r}
  BY GoesOn
<1> SUFFICES ASSUME NEW x \in Pending' PROVE x \in Pending
  OBVIOUS
<1>2. PICK q \in Started' : /\ runs'[q].stage = "save" /\ FileOf(q)'.category = "member"
                            /\ x \in runs'[q].left
  BY DEF Pending
<1>3. q \in Started /\ runs[q].stage = "save" /\ FileOf(q).category = "member" /\ x \in runs[q].left
  <2>1. CASE q = r
    <3>1. FileOf(q)' = FileOf(q)
      BY <1>1, <1>2, <2>1 DEF FileOf
    <3> QED
      BY <1>1, <1>2, <2>1, <3>1
  <2>2. CASE q # r
    <3>1. q \in Started /\ runs'[q] = runs[q] /\ FileOf(q)' = FileOf(q)
      BY <1>1, <2>2 DEF Started, FileOf
    <3> QED
      BY <1>2, <3>1
  <2> QED
    BY <2>1, <2>2
<1> QED
  BY <1>3 DEF Pending

LEMMA SettledShrinks ==
  ASSUME ITypes, NEW r \in Started, NEW x \in runs[r].left,
         SaveCoin(r, x) \/ SaveMember(r, x) \/ SaveFails(r, x)
  PROVE  Pending' \subseteq Pending
<1>1. runs[r].stage = "save" /\ r \in Runs
      /\ \E ok \in BOOLEAN : Goes(r, SettledRun(runs[r], x, ok))
  BY DEF SaveCoin, SaveMember, SaveFails, At, Settled, SettledRun, Started
<1>2. PICK ok \in BOOLEAN : Goes(r, SettledRun(runs[r], x, ok))
  BY <1>1
<1> DEFINE run == SettledRun(runs[r], x, ok)
<1>3. run \in Run /\ run.left \subseteq runs[r].left /\ run.file = runs[r].file
  <2>1. runs[r].stage = "save"
    BY <1>1
  <2>2. /\ run \in Run /\ RunOK(r[1], run) /\ run.stage = "save"
        /\ run.left = runs[r].left \ {x} /\ run.again = runs[r].again
        /\ run.file = runs[r].file /\ run.results = runs[r].results
        /\ run.saved = IF ok THEN runs[r].saved \cup {x.row} ELSE runs[r].saved
    BY <2>1, SettledOK
  <2> HIDE DEF run
  <2> QED
    BY <2>2
<1>4. Goes(r, run)
  BY <1>2
<1> HIDE DEF run
<1> QED
  BY <1>1, <1>3, <1>4, PendingShrinks

LEMMA StepPending ==
  ASSUME ITypes, ImportsNext
  PROVE  Pending' \subseteq Pending \/ \E r \in Started : Fetch(r)
<1> DEFINE Ok == Pending' \subseteq Pending
<1>1. ASSUME NEW j \in Jobs, Take(j) \/ Stall(j) PROVE Ok
  <2>1. NewRun \in Run /\ NewRun.stage = "fetch" /\ <<j, 1>> \in Runs /\ <<j, 2>> \in Runs
    BY NewRunOK DEF Runs, NewRun
  <2>2. UNCHANGED runs \/ Goes(<<j, 1>>, NewRun) \/ Goes(<<j, 2>>, NewRun)
    BY <1>1 DEF Take, Stall
  <2>3. CASE UNCHANGED runs
    BY <2>3 DEF Pending, Started, FileOf
  <2> QED
    BY <2>1, <2>2, <2>3, PendingShrinks
<1>2. ASSUME NEW r \in Started, Finish(r) \/ Die(r) \/ Abort(r) PROVE Ok
  <2> DEFINE run == [runs[r] EXCEPT !.stage = "over"]
  <2>1. Goes(r, run) /\ r \in Runs
    BY <1>2 DEF Finish, Die, Abort, Started
  <2>2. run \in Run /\ run.stage = "over"
    BY StoppedOK
  <2> HIDE DEF run
  <2> QED
    BY <2>1, <2>2, PendingShrinks
<1>3. ASSUME NEW r \in Started, runs[r].file <= Len(r[1].files),
             NEW error \in {NULL, "unread", "undeleted"}, NEW rows \in SUBSET (CoinRow \cup CsvRow),
             NextFile(r, [error |-> error, rows |-> rows])
      PROVE Ok
  <2> DEFINE result == [error |-> error, rows |-> rows]
             run == [runs[r] EXCEPT !.file = @ + 1, !.stage = "fetch", !.left = {},
                                    !.saved = {}, !.results = Append(@, result)]
  <2>1. Goes(r, run) /\ r \in Runs
    BY <1>3 DEF NextFile, Started
  <2>2. result \in [error: {NULL, "unread", "undeleted"}, rows: SUBSET (CoinRow \cup CsvRow)]
    OBVIOUS
  <2> HIDE DEF result
  <2>3. run \in Run /\ run.stage = "fetch"
    BY <1>3, <2>2, NextFileOK
  <2> HIDE DEF run
  <2> QED
    BY <2>1, <2>3, PendingShrinks
<1>4. ASSUME NEW r \in Started, DeleteFile(r) \/ DeleteFails(r) PROVE Ok
  <2>1. runs[r].saved \in SUBSET (CoinRow \cup CsvRow) /\ {} \in SUBSET (CoinRow \cup CsvRow)
    BY RunTyped DEF Run
  <2>2. runs[r].file <= Len(r[1].files)
        /\ (NextFile(r, [error |-> NULL, rows |-> runs[r].saved])
             \/ NextFile(r, [error |-> "undeleted", rows |-> {}]))
    BY <1>4 DEF DeleteFile, DeleteFails, Settling, At
  <2> QED
    BY <2>1, <2>2, <1>3
<1>5. ASSUME NEW r \in Started, NEW x \in runs[r].left,
             SaveCoin(r, x) \/ SaveMember(r, x) \/ SaveFails(r, x)
      PROVE Ok
  BY <1>5, SettledShrinks
<1>6. ASSUME UNCHANGED runs PROVE Ok
  BY <1>6 DEF Pending, Started, FileOf
<1> QED
  BY <1>1, <1>2, <1>4, <1>5, <1>6 DEF ImportsNext, Upload, Request, StoreLead, ReadLead, Change

(* A member is changed, and marked if a row or a lead was read of him.     *)
LEMMA MemberChanges ==
  ASSUME KInv, NEW m \in MemberIds, NEW row \in Row \cup {NULL}, NEW name, NEW x,
         members' = [members EXCEPT ![m] = row], given' = [given EXCEPT ![m] = name],
         Pending' \subseteq Pending, midway \subseteq midway',
         m \notin midway' => name = IF row = NULL THEN NULL ELSE row.name,
         \A y \in Pending : y # x /\ y.read.id = m => m \in midway',
         x.read.id = m => row # NULL /\ x.read.name = row.name,
         webhook' = NULL \/ (UNCHANGED webhook /\ (webhook.member = m => m \in midway'))
  PROVE  ImportKeepsMembers' /\ LeadFits' /\ \A y \in Pending' : RowFits(y)'
<1>1. /\ members \in [MemberIds -> Row \cup {NULL}] /\ given \in [MemberIds -> Maybe(Names)]
  BY DEF KInv, ITypes, MembersTypeOK, ImportsTypeOK
<1>2. /\ members'[m] = row /\ given'[m] = name
      /\ \A k \in MemberIds \ {m} : members'[k] = members[k] /\ given'[k] = given[k]
  BY <1>1
<1>3. ImportKeepsMembers'
  BY <1>2 DEF KInv, ImportKeepsMembers
<1>4. LeadFits'
  <2>1. webhook # NULL /\ webhook' # NULL =>
          (webhook.member \in MemberIds \ midway' => HasName(webhook.member, webhook.row.name)')
    BY <1>2 DEF KInv, LeadFits, HasName
  <2> QED
    BY <2>1 DEF KInv, LeadFits
<1>5. ASSUME NEW y \in Pending' PROVE RowFits(y)'
  <2>1. y \in Pending /\ RowFits(y)
    BY DEF KInv
  <2> QED
    BY <1>2, <2>1 DEF RowFits, HasName
<1> QED
  BY <1>3, <1>4, <1>5

LEMMA SaveMemberKeeps ==
  ASSUME KInv, NEW r \in Started, NEW x \in runs[r].left, SaveMember(r, x)
  PROVE  ImportKeepsMembers' /\ LeadFits' /\ \A y \in Pending' : RowFits(y)'
<1> DEFINE m == TargetId(x.read)
           new == Saved(x.read, members[m])
           name == IF x.row.name = NULL THEN given[m] ELSE x.row.name
<1>1. /\ members \in [MemberIds -> Row \cup {NULL}] /\ given \in [MemberIds -> Maybe(Names)]
      /\ ITypes /\ runs[r].stage = "save" /\ FileOf(r).category = "member"
      /\ UNCHANGED leadVars
  BY DEF KInv, ITypes, MembersTypeOK, ImportsTypeOK, SaveMember, At
<1>2. /\ x.read \in Read /\ m \in MemberIds /\ (x.read.id # NULL => m = x.read.id)
      /\ x.read.id = x.row.id /\ x \in Pending /\ RowFits(x)
  BY <1>1, SaveMemberDoes DEF Pending, KInv
<1>3. new \in Row /\ new.name = x.read.name
  BY <1>1, <1>2, SavedTyped
<1>4. Pending' \subseteq Pending
  BY <1>1, SettledShrinks
<1>5. CASE UNCHANGED <<members, given, midway>>
  BY <1>1, <1>4, <1>5 DEF KInv, ImportKeepsMembers, LeadFits, RowFits, HasName, leadVars
<1>6. CASE /\ members' = [members EXCEPT ![m] = new]
           /\ given' = IF x.row.name = NULL THEN given ELSE [given EXCEPT ![m] = x.row.name]
           /\ midway' = IF Awaited(m, {x}) THEN midway \cup {m} ELSE midway
  <2>1. given' = [given EXCEPT ![m] = name]
    BY <1>1, <1>2, <1>6
  <2>2. midway \subseteq midway' /\ (Awaited(m, {x}) => m \in midway')
    BY <1>6
  <2>3. new # NULL
    BY <1>3, MembersAssumption
  <2>4. m \notin midway' => name = new.name
    <3>1. CASE x.row.name # NULL
      BY <1>2, <1>3, <3>1 DEF RowFits
    <3>2. CASE x.row.name = NULL
      <4>1. x.read.id \in MemberIds /\ m = x.read.id
        BY <1>2, <3>2, MembersAssumption DEF RowFits
      <4> QED
        BY <1>2, <1>3, <2>2, <3>2, <4>1 DEF RowFits, HasName, KInv, ImportKeepsMembers
    <3> QED
      BY <3>1, <3>2
  <2>5. \A y \in Pending : y # x /\ y.read.id = m => m \in midway'
    BY <2>2, PendingAwaited
  <2>6. webhook' = NULL \/ (UNCHANGED webhook /\ (webhook.member = m => m \in midway'))
    BY <1>1, <2>2 DEF Awaited, leadVars
  <2>7. members' = [members EXCEPT ![m] = new]
    BY <1>6
  <2> HIDE DEF m, new, name
  <2> QED
    BY <1>2, <1>3, <1>4, <2>1, <2>2, <2>3, <2>4, <2>5, <2>6, <2>7, MemberChanges
<1> QED
  BY <1>1, <1>5, <1>6, SaveMemberDoes

LEMMA StoreLeadKeeps ==
  ASSUME KInv, StoreLead
  PROVE  ImportKeepsMembers' /\ LeadFits' /\ \A y \in Pending' : RowFits(y)'
<1>1. /\ members \in [MemberIds -> Row \cup {NULL}] /\ given \in [MemberIds -> Maybe(Names)]
      /\ ITypes /\ webhook # NULL /\ webhook' = NULL /\ UNCHANGED runs
  BY DEF KInv, ITypes, MembersTypeOK, ImportsTypeOK, StoreLead
<1>2. Pending' = Pending
  BY <1>1 DEF Pending, Started, FileOf
<1>3. PICK m \in MemberIds :
        /\ webhook.lead \in Lead /\ webhook.row \in Row \cup {NULL}
        /\ webhook.member # NULL => m = webhook.member
        /\ \/ UNCHANGED <<members, given, midway>>
           \/ /\ members' = [members EXCEPT ![m] = Led(webhook.lead, webhook.row, members[m])]
              /\ given' = IF webhook.row # NULL THEN given
                          ELSE [given EXCEPT ![m] = webhook.lead.name]
              /\ midway' = IF Imported(m, {}) THEN midway \cup {m} ELSE midway
  BY <1>1, StoreLeadDoes
<1> DEFINE new == Led(webhook.lead, webhook.row, members[m])
           name == IF webhook.row # NULL THEN given[m] ELSE webhook.lead.name
<1>4. new \in Row /\ new.name = IF webhook.row = NULL THEN webhook.lead.name ELSE webhook.row.name
  <2>1. members[m] \in Row \cup {NULL}
    BY <1>1, <1>3
  <2> QED
    BY <1>3, <2>1, LedTyped
<1>5. CASE UNCHANGED <<members, given, midway>>
  BY <1>1, <1>2, <1>5 DEF KInv, ImportKeepsMembers, LeadFits, RowFits, HasName
<1>6. CASE /\ members' = [members EXCEPT ![m] = new]
           /\ given' = IF webhook.row # NULL THEN given
                       ELSE [given EXCEPT ![m] = webhook.lead.name]
           /\ midway' = IF Imported(m, {}) THEN midway \cup {m} ELSE midway
  <2>1. given' = [given EXCEPT ![m] = name] /\ members' = [members EXCEPT ![m] = new]
    BY <1>1, <1>3, <1>6
  <2>2. midway \subseteq midway' /\ (Imported(m, {}) => m \in midway')
    BY <1>6
  <2>3. new # NULL
    BY <1>4, MembersAssumption
  <2>4. m \notin midway' => name = new.name
    <3>1. CASE webhook.row = NULL
      BY <1>4, <3>1
    <3>2. CASE webhook.row # NULL
      <4>1. webhook.member # NULL /\ m = webhook.member
        BY <1>1, <1>3, <3>2 DEF KInv, LeadFits
      <4> QED
        BY <1>1, <1>4, <2>2, <3>2, <4>1 DEF KInv, LeadFits, HasName, ImportKeepsMembers
    <3> QED
      BY <3>1, <3>2
  <2>5. \A y \in Pending : y.read.id = m => m \in midway'
    BY <2>2, PendingAwaited
  <2>6. \A y \in Pending : y # NULL /\ y.read.id = m => m \in midway'
    BY <2>5
  <2> DEFINE nobody == [read |-> [id |-> NULL]]
  <2>7. nobody.read.id = NULL /\ m # NULL
    BY MembersAssumption
  <2> HIDE DEF new, name, nobody
  <2> QED
    BY <1>1, <1>2, <1>3, <1>4, <2>1, <2>2, <2>3, <2>4, <2>5, <2>7, MemberChanges
<1> QED
  BY <1>3, <1>5, <1>6

LEMMA ChangeKeeps ==
  ASSUME KInv, NEW m \in Restless, NEW name \in Renames \cup {NULL}, Change(m, name)
  PROVE  ImportKeepsMembers' /\ LeadFits' /\ \A y \in Pending' : RowFits(y)'
<1> DEFINE new == IF name = NULL THEN NULL ELSE [members[m] EXCEPT !.name = name]
           nobody == [read |-> [id |-> NULL]]
<1>1. /\ members \in [MemberIds -> Row \cup {NULL}] /\ m \in MemberIds /\ members[m] \in Row
      /\ name \in Maybe(Names)
  BY ImportsAssumption DEF KInv, ITypes, MembersTypeOK, Change, Existing, Maybe
<1>2. new \in Row \cup {NULL} /\ (name # NULL => new # NULL /\ new.name = name)
  <2>1. name # NULL => [members[m] EXCEPT !.name = name] \in Row
                       /\ [members[m] EXCEPT !.name = name].name = name
    BY <1>1 DEF Row, Maybe
  <2> QED
    BY <2>1, MembersAssumption
<1>3. /\ members' = [members EXCEPT ![m] = new] /\ given' = [given EXCEPT ![m] = name]
      /\ midway' = IF Awaited(m, {}) THEN midway \cup {m} ELSE midway
      /\ UNCHANGED <<webhook, runs>>
  BY DEF Change, leadVars
<1>4. Pending' = Pending
  BY <1>3 DEF Pending, Started, FileOf
<1>5. midway \subseteq midway' /\ (Awaited(m, {}) => m \in midway')
  BY <1>3
<1>6. name = IF new = NULL THEN NULL ELSE new.name
  BY <1>2
<1>7. \A y \in Pending : y.read.id = m => m \in midway'
  BY <1>5, PendingAwaited
<1>8. nobody.read.id = NULL /\ m # NULL
  BY <1>1, MembersAssumption
<1>9. webhook' = NULL \/ (UNCHANGED webhook /\ (webhook.member = m => m \in midway'))
  BY <1>3, <1>5 DEF Awaited
<1>10. members' = [members EXCEPT ![m] = new] /\ given' = [given EXCEPT ![m] = name]
  BY <1>3
<1> HIDE DEF new, nobody
<1> QED
  BY <1>1, <1>2, <1>4, <1>5, <1>6, <1>7, <1>8, <1>9, <1>10, MemberChanges

LEMMA FetchKeeps ==
  ASSUME KInv, NEW r \in Started, Fetch(r)
  PROVE  ImportKeepsMembers' /\ LeadFits' /\ \A y \in Pending' : RowFits(y)'
<1>1. ITypes /\ r \in Runs /\ UNCHANGED <<members, given, midway, leadVars>>
  BY DEF KInv, Started, Fetch
<1>2. ImportKeepsMembers' /\ LeadFits'
  BY <1>1 DEF KInv, ImportKeepsMembers, LeadFits, HasName, leadVars
<1>3. \A y \in Pending : RowFits(y)'
  BY <1>1 DEF KInv, RowFits, HasName
<1>4. CASE NextFile(r, [error |-> "unread", rows |-> {}])
  <2> DEFINE result == [error |-> "unread", rows |-> {}]
             run == [runs[r] EXCEPT !.file = @ + 1, !.stage = "fetch", !.left = {},
                                    !.saved = {}, !.results = Append(@, result)]
  <2>1. Goes(r, run) /\ runs[r].file <= Len(r[1].files)
    BY <1>4 DEF NextFile, Fetch, At
  <2>2. result \in [error: {NULL, "unread", "undeleted"}, rows: SUBSET (CoinRow \cup CsvRow)]
    OBVIOUS
  <2> HIDE DEF result
  <2>3. run \in Run /\ run.stage = "fetch"
    BY <1>1, <2>1, <2>2, NextFileOK
  <2> HIDE DEF run
  <2>4. Pending' \subseteq Pending
    BY <1>1, <2>1, <2>3, PendingShrinks
  <2> QED
    BY <1>2, <1>3, <2>4
<1>5. CASE ~NextFile(r, [error |-> "unread", rows |-> {}])
  <2> DEFINE v == FileOf(r)
  <2>1. /\ v \in Versions /\ (v.category = "member" => \A row \in v.rows : ~Unreadable(row))
        /\ \E run \in Run : /\ Goes(r, run) /\ run.left = RowsToImport(v)
                            /\ run.file = runs[r].file
    BY <1>1, <1>5, FetchReads
  <2>2. PICK run \in Run : Goes(r, run) /\ run.left = RowsToImport(v) /\ run.file = runs[r].file
    BY <2>1
  <2>3. /\ runs'[r] = run /\ \A q \in Runs \ {r} : runs'[q] = runs[q]
        /\ Started' = Started \cup {r}
    BY <1>1, <2>2, GoesOn
  <2>4. ASSUME NEW y \in Pending' PROVE y \in Pending \/ (v.category = "member" /\ y \in RowsToImport(v))
    <3>1. PICK q \in Started' : /\ runs'[q].stage = "save" /\ FileOf(q)'.category = "member"
                                /\ y \in runs'[q].left
      BY <2>4 DEF Pending
    <3>2. FileOf(q)' = FileOf(q)
      BY <2>2, <2>3, <3>1 DEF FileOf, Started
    <3>3. CASE q = r
      BY <2>2, <2>3, <3>1, <3>2, <3>3
    <3>4. CASE q # r
      <4>1. q \in Started /\ runs'[q] = runs[q]
        BY <2>3, <3>1, <3>4 DEF Started
      <4> QED
        BY <3>1, <3>2, <4>1 DEF Pending
    <3> QED
      BY <3>3, <3>4
  <2>5. ASSUME v.category = "member", NEW y \in RowsToImport(v) PROVE RowFits(y)
    <3>1. PICK row \in v.rows : y = [row |-> row, read |-> RawCsvToMember(row)]
      BY <2>5 DEF RowsToImport
    <3>2. /\ RawCsvToMember(row).id = row.id
          /\ row.name # NULL => RawCsvToMember(row).name = row.name
          /\ row.name = NULL => /\ row.id \in MemberIds /\ members[row.id] # NULL
                                /\ RawCsvToMember(row).name = members[row.id].name
      BY <1>1, <2>1, <2>5, RawCsvTyped DEF ITypes
    <3>3. y.row = row /\ y.read = RawCsvToMember(row)
      BY <3>1
    <3> QED
      BY <3>2, <3>3 DEF RowFits, HasName
  <2>6. ASSUME v.category = "member", NEW y \in RowsToImport(v) PROVE RowFits(y)'
    BY <1>1, <2>5, <2>6 DEF RowFits, HasName
  <2> QED
    BY <1>2, <1>3, <2>4, <2>6
<1> QED
  BY <1>4, <1>5

LEMMA ReadLeadKeeps ==
  ASSUME KInv, NEW lead \in Leads, ReadLead(lead)
  PROVE  ImportKeepsMembers' /\ LeadFits' /\ \A y \in Pending' : RowFits(y)'
<1>1. UNCHANGED <<members, given, midway, runs>>
  BY DEF ReadLead
<1>2. PICK m \in IF Emailed(lead.email) = {} THEN {NULL} ELSE Emailed(lead.email) :
        webhook' = [lead |-> lead, member |-> m, row |-> IF m = NULL THEN NULL ELSE members[m]]
  BY DEF ReadLead
<1>3. m = NULL \/ (m \in MemberIds /\ members[m] # NULL)
  BY <1>2 DEF Emailed, Existing
<1>4. webhook'.member = m /\ webhook'.row = IF m = NULL THEN NULL ELSE members[m]
  BY <1>2
<1>5. LeadFits'
  BY <1>1, <1>3, <1>4, MembersAssumption DEF LeadFits, HasName
<1>6. Pending' = Pending
  BY <1>1 DEF Pending, Started, FileOf
<1> QED
  BY <1>1, <1>5, <1>6 DEF KInv, ImportKeepsMembers, RowFits, HasName

LEMMA StepKeepsMembers ==
  ASSUME KInv, ImportsNext
  PROVE  ImportKeepsMembers' /\ LeadFits' /\ \A y \in Pending' : RowFits(y)'
<1> DEFINE Ok == ImportKeepsMembers' /\ LeadFits' /\ \A y \in Pending' : RowFits(y)'
<1>1. ASSUME UNCHANGED <<members, given, midway, leadVars>> PROVE Ok
  <2>1. CASE Pending' \subseteq Pending
    BY <1>1, <2>1 DEF KInv, ImportKeepsMembers, LeadFits, RowFits, HasName, leadVars
  <2> QED
    BY <2>1, StepPending, FetchKeeps DEF KInv
<1> HIDE DEF Ok
<1>2. Ok
  <2>1. ASSUME NEW j \in Jobs, Request(j) \/ Take(j) \/ Stall(j) PROVE Ok
    BY <1>1, <2>1 DEF Request, Take, Stall
  <2>2. ASSUME NEW r \in Started, Fetch(r) \/ DeleteFile(r) \/ DeleteFails(r) \/ Finish(r)
               \/ Die(r) \/ Abort(r)
        PROVE Ok
    BY <1>1, <2>2 DEF Fetch, DeleteFile, DeleteFails, Finish, Die, Abort
  <2>3. ASSUME NEW r \in Started, NEW x \in runs[r].left, SaveCoin(r, x) \/ SaveFails(r, x)
        PROVE Ok
    BY <1>1, <2>3 DEF SaveCoin, SaveFails
  <2>4. ASSUME NEW v \in Versions, Upload(v) PROVE Ok
    BY <1>1, <2>4 DEF Upload
  <2>5. ASSUME NEW r \in Started, NEW x \in runs[r].left, SaveMember(r, x) PROVE Ok
    BY <2>5, SaveMemberKeeps DEF Ok
  <2>6. ASSUME StoreLead PROVE Ok
    BY <2>6, StoreLeadKeeps DEF Ok
  <2>7. ASSUME NEW lead \in Leads, ReadLead(lead) PROVE Ok
    BY <2>7, ReadLeadKeeps DEF Ok
  <2>8. ASSUME NEW m \in Restless, NEW name \in Renames \cup {NULL}, Change(m, name) PROVE Ok
    BY <2>8, ChangeKeeps DEF Ok
  <2> QED
    BY <2>1, <2>2, <2>3, <2>4, <2>5, <2>6, <2>7, <2>8 DEF ImportsNext
<1> QED
  BY <1>2 DEF Ok

-----------------------------------------------------------------------------
LEMMA ImportsBegin ==
  ASSUME NEW wanted, ImportsInit(wanted)
  PROVE  AInv /\ KInv
<1>1. /\ members \in [MemberIds -> Row \cup {NULL}]
      /\ bucket = [k \in Keys |-> NULL] /\ uploaded = {}
      /\ queue = [j \in Jobs |-> IF j \in wanted THEN "none" ELSE "over"]
      /\ runs = [r \in Runs |-> NULL]
      /\ inserted = {} /\ reports = {} /\ changes = 0
      /\ given = [m \in MemberIds |-> IF members[m] = NULL THEN NULL ELSE members[m].name]
      /\ webhook = NULL /\ leads = {} /\ midway = {} /\ tried = {} /\ cleared = {} /\ shadowed = {}
  BY MembersAssumption DEF ImportsInit
<1>2. Started = {}
  BY <1>1 DEF Started
<1>3. given \in [MemberIds -> Maybe(Names)]
  <2>1. ASSUME NEW m \in MemberIds, members[m] # NULL PROVE members[m].name \in Names
    BY <1>1, <2>1 DEF Row
  <2> QED
    BY <1>1, <2>1 DEF Maybe
<1>4. ITypes
  <2>1. bucket \in [Keys -> Versions \cup {NULL}] /\ runs \in [Runs -> Run \cup {NULL}]
    BY <1>1
  <2>2. queue \in [Jobs -> {"none", "waiting", "active", "over"}]
    BY <1>1
  <2>3. UNION {uploaded, tried, cleared, shadowed} \subseteq Versions
    BY <1>1
  <2> QED
    BY <1>1, <1>2, <1>3, <2>1, <2>2, <2>3, ImportsAssumption DEF ITypes, ImportsTypeOK, MembersTypeOK
<1>5. FilesFate /\ Unstarted
  BY <1>1, <1>2 DEF FilesFate, Unstarted, Runs
<1>6. \A r \in Runs : Booked(r)
  BY <1>1 DEF Booked, InsertedBy
<1>7. ImportKeepsMembers /\ LeadFits /\ Pending = {}
  BY <1>1, <1>2 DEF ImportKeepsMembers, LeadFits, Pending
<1> QED
  BY <1>1, <1>4, <1>5, <1>6, <1>7 DEF AInv, KInv

LEMMA ImportsStill ==
  /\ AInv /\ UNCHANGED importVars => AInv'
  /\ KInv /\ UNCHANGED importVars => KInv'
<1>1. ITypes /\ UNCHANGED importVars => ITypes'
  BY DEF importVars, leadVars, ITypes, MembersTypeOK, ImportsTypeOK, Started
<1>2. AInv /\ UNCHANGED importVars => AInv'
  <2>1. FilesFate /\ Unstarted /\ UNCHANGED importVars => FilesFate' /\ Unstarted'
    BY DEF importVars, FilesFate, Kept, Passed, Started, FileOf, Unstarted
  <2>2. (\A r \in Runs : Booked(r)) /\ UNCHANGED importVars => \A r \in Runs : Booked(r)'
    BY DEF importVars, Booked, InsertedBy
  <2>3. (\A report \in reports : Mailed(report)) /\ UNCHANGED importVars
          => \A report \in reports' : Mailed(report)'
    BY DEF importVars, Mailed, Started
  <2> QED
    BY <1>1, <2>1, <2>2, <2>3 DEF AInv
<1>3. KInv /\ UNCHANGED importVars => KInv'
  BY <1>1 DEF importVars, leadVars, KInv, ImportKeepsMembers, LeadFits, RowFits, HasName,
       Pending, Started, FileOf
<1> QED
  BY <1>2, <1>3

LEMMA FilesStep == AInv /\ [Next]_vars => AInv'
<1>1. AInv /\ ImportsNext => AInv'
  BY ITypesStay, StepFated, StepUnstarted, StepBooked, StepMailed DEF AInv
<1> QED
  BY <1>1, ImportsStill DEF Next, ImportsStep, DeletionStep, ExportsStep, vars

(* What becomes of an uploaded file: no version is imported again after a  *)
(* run imported and deleted it, a mailed result tells the rows its run     *)
(* inserted, and a version is lost untried only if it was shadowed.        *)
THEOREM ImportsAllAccounted == Spec => []ImportsAccounted
<1>1. Init => AInv
  BY ImportsBegin DEF Init
<1>2. AInv /\ [Next]_vars => AInv'
  BY FilesStep
<1>3. AInv => ImportsAccounted
  <2> SUFFICES ASSUME AInv PROVE ImportsAccounted
    OBVIOUS
  <2>1. \A r \in Started : ~runs[r].again
    BY DEF AInv, FilesFate
  <2>2. \A v \in uploaded \ (tried \cup shadowed) : bucket[v.key] = v
    BY DEF AInv, FilesFate, Kept
  <2>3. ASSUME NEW report \in reports, NEW i \in 1..Len(report.results)
        PROVE Told(report.results[i], InsertedBy(report.run, report.run[1].files[i]))
    <3> DEFINE r == report.run
    <3>1. r \in Started /\ r \in Runs /\ report.results = runs[r].results /\ ITypes /\ Booked(r)
          /\ runs[r] # NULL
      BY DEF AInv, Mailed, Started
    <3>2. /\ runs[r].file \in 1..(Len(r[1].files) + 1) /\ Len(runs[r].results) = runs[r].file - 1
          /\ Len(r[1].files) \in Nat
      BY <3>1, RunTyped DEF RunOK
    <3>3. i \in 1..Len(r[1].files)
      BY <3>1, <3>2
    <3> HIDE DEF r
    <3>4. Counts(runs[r], i, InsertedBy(r, r[1].files[i]))
      BY <3>1, <3>3 DEF Booked
    <3> QED
      BY <2>3, <3>1, <3>4 DEF Counts, r
  <2> QED
    BY <2>1, <2>2, <2>3 DEF ImportsAccounted, Told
<1> QED
  BY <1>1, <1>2, <1>3, PTL DEF Spec

(* What an import leaves of a member: he is there exactly if nobody        *)
(* deleted him since, under the name he was last given, unless he was      *)
(* changed between the reading of a row and its saving.                    *)
THEOREM ImportsKeepMembers == Spec => []ImportKeepsMembers
<1>1. Init => KInv
  BY ImportsBegin DEF Init
<1>2. KInv /\ [Next]_vars => KInv'
  <2>1. KInv /\ ImportsNext => KInv'
    BY ITypesStay, StepKeepsMembers DEF KInv
  <2> QED
    BY <2>1, ImportsStill DEF Next, ImportsStep, DeletionStep, ExportsStep, vars
<1>3. KInv => ImportKeepsMembers
  BY DEF KInv
<1> QED
  BY <1>1, <1>2, <1>3, PTL DEF Spec

-----------------------------------------------------------------------------
(* The statements of the deletion, by number: the order's and what hangs   *)
(* on it, then what goes by the member, and the member himself last.       *)
Early == <<"notification", "notification", "order_contact", "order_executor",
           "order_product", "order_discount", "payment_log", "invoice",
           "order_log", "order_log", "order_log">>
Talk == <<"attend", "practice", "voucher", "exercise", "issue_reply_reaction",
          "issue_reaction", "issue_reply", "issue", "comment_reply_reaction",
          "comment_reply", "comment_reaction", "comment">>
Own == <<"coin_log", "podcast_program_progress", "post_role", "program_timetable",
         "program_tempo_delivery", "program_content_log",
         "program_content_progress", "coupon", "review_reaction", "review_reply",
         "review", "member_contract", "member_card", "member_tag",
         "member_oauth", "member_category", "member_device",
         "member_tracking_log", "member_note", "member_task", "member_phone",
         "member_property", "member_permission_extra">>
Deletes == {"mine", "ordered", "remove"}

Statement ==
  [kind: {"mine", "ordered", "find", "unlink", "remove", "member"},
   table: {Early[i] : i \in 1..11} \cup {Talk[i] : i \in 1..12} \cup {Own[i] : i \in 1..23}
            \cup {"member"},
   column: {"member_id", "target_member_id", "source_member_id", "order_id",
            "parent_order_id", "id"}]

LEMMA Concatenated ==
  ASSUME NEW S, NEW s \in Seq(S), NEW t \in Seq(S)
  PROVE  /\ s \o t \in Seq(S) /\ Len(s \o t) = Len(s) + Len(t)
         /\ \A i \in 1..(Len(s) + Len(t)) :
              (s \o t)[i] = IF i <= Len(s) THEN s[i] ELSE t[i - Len(s)]
<1>1. s \o t \in Seq(S) /\ Len(s \o t) = Len(s) + Len(t)
  OBVIOUS
<1>2. \A i \in 1..Len(s) : (s \o t)[i] = s[i]
  OBVIOUS
<1>3. ASSUME NEW i \in (Len(s) + 1)..(Len(s) + Len(t)) PROVE (s \o t)[i] = t[i - Len(s)]
  <2>1. \A j \in 1..Len(t) : (s \o t)[Len(s) + j] = t[j]
    OBVIOUS
  <2>2. i - Len(s) \in 1..Len(t) /\ Len(s) + (i - Len(s)) = i
    BY <1>3
  <2> QED
    BY <2>1, <2>2
<1> QED
  BY <1>1, <1>2, <1>3

LEMMA TalkIs ==
  TalkStatements = [i \in 1..12 |-> [kind |-> "mine", table |-> Talk[i], column |-> "member_id"]]
<1>1. Len(Talk) = 12
  BY DEF Talk
<1>2. TalkStatements = All(Mine, Talk)
  BY DEF TalkStatements, Talk
<1>3. All(Mine, Talk) = [i \in 1..Len(Talk) |-> Mine(Talk[i])]
  BY DEF All
<1> QED
  BY <1>1, <1>2, <1>3 DEF Mine, Stmt

LEMMA OwnIs ==
  OwnStatements = [i \in 1..23 |-> [kind |-> "mine", table |-> Own[i], column |-> "member_id"]]
<1>1. Len(Own) = 23
  BY DEF Own
<1>2. OwnStatements = All(Mine, Own)
  BY DEF OwnStatements, Own
<1>3. All(Mine, Own) = [i \in 1..Len(Own) |-> Mine(Own[i])]
  BY DEF All
<1> QED
  BY <1>1, <1>2, <1>3 DEF Mine, Stmt

LEMMA OrdersIs ==
  /\ OrderStatements \in Seq(Statement) /\ Len(OrderStatements) = 11
  /\ \A i \in 1..11 : OrderStatements[i].table = Early[i]
  /\ \A i \in 1..4 : OrderStatements[i].kind = "mine" /\ OrderStatements[i].column # "parent_order_id"
  /\ \A i \in 5..8 : OrderStatements[i].kind = "ordered" /\ OrderStatements[i].column = "order_id"
  /\ OrderStatements[9].kind = "find" /\ OrderStatements[9].column = "member_id"
  /\ OrderStatements[10].kind = "unlink" /\ OrderStatements[11].kind = "remove"
<1> DEFINE A == <<Stmt("mine", "notification", "target_member_id"),
                  Stmt("mine", "notification", "source_member_id"),
                  Mine("order_contact"), Mine("order_executor")>>
           T == <<"order_product", "order_discount", "payment_log", "invoice">>
           B == All(Ordered, T)
           C == <<Stmt("find", "order_log", "member_id"),
                  Stmt("unlink", "order_log", "parent_order_id"),
                  Stmt("remove", "order_log", "id")>>
<1>1. B = [i \in 1..4 |-> [kind |-> "ordered", table |-> T[i], column |-> "order_id"]]
  <2>1. B = [i \in 1..Len(T) |-> Ordered(T[i])]
    BY DEF All
  <2>2. Len(T) = 4
    OBVIOUS
  <2> QED
    BY <2>1, <2>2 DEF Ordered, Stmt
<1>2. OrderStatements = A \o B \o C
  BY DEF OrderStatements
<1>3. /\ A[1] = Stmt("mine", "notification", "target_member_id")
      /\ A[2] = Stmt("mine", "notification", "source_member_id")
      /\ A[3] = Mine("order_contact") /\ A[4] = Mine("order_executor")
      /\ T[1] = "order_product" /\ T[2] = "order_discount" /\ T[3] = "payment_log" /\ T[4] = "invoice"
      /\ C[1] = Stmt("find", "order_log", "member_id")
      /\ C[2] = Stmt("unlink", "order_log", "parent_order_id")
      /\ C[3] = Stmt("remove", "order_log", "id")
  OBVIOUS
<1>4. /\ Early[1] = "notification" /\ Early[2] = "notification" /\ Early[3] = "order_contact"
      /\ Early[4] = "order_executor" /\ Early[5] = "order_product" /\ Early[6] = "order_discount"
      /\ Early[7] = "payment_log" /\ Early[8] = "invoice" /\ Early[9] = "order_log"
      /\ Early[10] = "order_log" /\ Early[11] = "order_log"
  BY DEF Early
<1>5. /\ Stmt("mine", "notification", "target_member_id") \in Statement
      /\ Stmt("mine", "notification", "source_member_id") \in Statement
      /\ Mine("order_contact") \in Statement /\ Mine("order_executor") \in Statement
      /\ Stmt("find", "order_log", "member_id") \in Statement
      /\ Stmt("unlink", "order_log", "parent_order_id") \in Statement
      /\ Stmt("remove", "order_log", "id") \in Statement
  <2>1. {"notification", "order_contact", "order_executor", "order_log"}
          \subseteq {Early[i] : i \in 1..11}
    BY <1>4
  <2> QED
    BY <2>1 DEF Statement, Stmt, Mine
<1>6. A \in Seq(Statement) /\ Len(A) = 4
  BY <1>5
<1>7. C \in Seq(Statement) /\ Len(C) = 3
  BY <1>5
<1>8. B \in Seq(Statement) /\ Len(B) = 4
  <2>1. \A i \in 1..4 : T[i] \in {Early[k] : k \in 1..11}
    BY <1>3, <1>4
  <2>2. \A i \in 1..4 : [kind |-> "ordered", table |-> T[i], column |-> "order_id"] \in Statement
    BY <2>1 DEF Statement
  <2> DEFINE e(i) == [kind |-> "ordered", table |-> T[i], column |-> "order_id"]
  <2>3. \A i \in 1..4 : e(i) \in Statement
    BY <2>2
  <2>4. B = [i \in 1..4 |-> e(i)]
    BY <1>1
  <2> HIDE DEF e
  <2>5. [i \in 1..4 |-> e(i)] \in Seq(Statement) /\ Len([i \in 1..4 |-> e(i)]) = 4
    BY <2>3
  <2> QED
    BY <2>4, <2>5
<1>9. \A i \in 1..4 : B[i].kind = "ordered" /\ B[i].table = T[i] /\ B[i].column = "order_id"
  BY <1>1
<1> HIDE DEF A, B, C, T
<1> DEFINE D == A \o B
<1>15. D \in Seq(Statement) /\ Len(D) = 8 /\ (\A i \in 1..4 : D[i] = A[i])
       /\ (\A i \in 5..8 : D[i] = B[i - 4])
  <2>1. /\ D \in Seq(Statement) /\ Len(D) = Len(A) + Len(B)
        /\ \A i \in 1..(Len(A) + Len(B)) : D[i] = IF i <= Len(A) THEN A[i] ELSE B[i - Len(A)]
    BY <1>6, <1>8, Concatenated
  <2> HIDE DEF D
  <2> QED
    BY <1>6, <1>8, <2>1
<1>16. OrderStatements = D \o C
  BY <1>2
<1> HIDE DEF D
<1> DEFINE E == D \o C
<1>10. /\ OrderStatements \in Seq(Statement) /\ Len(OrderStatements) = 11
       /\ \A i \in 1..8 : OrderStatements[i] = D[i]
       /\ \A i \in 9..11 : OrderStatements[i] = C[i - 8]
  <2>1. /\ E \in Seq(Statement) /\ Len(E) = Len(D) + Len(C)
        /\ \A i \in 1..(Len(D) + Len(C)) : E[i] = IF i <= Len(D) THEN D[i] ELSE C[i - Len(D)]
    BY <1>7, <1>15, Concatenated
  <2>2. OrderStatements = E
    BY <1>16
  <2> HIDE DEF E
  <2> QED
    BY <1>7, <1>15, <2>1, <2>2
<1>11. /\ \A i \in 1..4 : OrderStatements[i] = A[i]
       /\ \A i \in 5..8 : OrderStatements[i] = B[i - 4]
       /\ \A i \in 9..11 : OrderStatements[i] = C[i - 8]
  BY <1>10, <1>15
<1>12. \A i \in 1..4 : /\ OrderStatements[i].kind = "mine" /\ OrderStatements[i].table = Early[i]
                       /\ OrderStatements[i].column # "parent_order_id"
  BY <1>3, <1>4, <1>11 DEF Stmt, Mine
<1>13. \A i \in 5..8 : /\ OrderStatements[i].kind = "ordered" /\ OrderStatements[i].table = Early[i]
                       /\ OrderStatements[i].column = "order_id"
  <2>1. \A i \in 5..8 : i - 4 \in 1..4 /\ T[i - 4] = Early[i]
    BY <1>3, <1>4
  <2> QED
    BY <1>9, <1>11, <2>1
<1>14. /\ \A i \in 9..11 : OrderStatements[i].table = Early[i]
       /\ OrderStatements[9].kind = "find" /\ OrderStatements[9].column = "member_id"
       /\ OrderStatements[10].kind = "unlink" /\ OrderStatements[11].kind = "remove"
  BY <1>3, <1>4, <1>11 DEF Stmt
<1> QED
  BY <1>10, <1>12, <1>13, <1>14

StatementOf(kind, table) == [kind |-> kind, table |-> table, column |-> "member_id"]

LEMMA TalkTyped ==
  /\ TalkStatements \in Seq(Statement) /\ Len(TalkStatements) = 12
  /\ \A i \in 1..12 : TalkStatements[i] = StatementOf("mine", Talk[i])
<1>1. \A i \in 1..12 : StatementOf("mine", Talk[i]) \in Statement
  BY DEF Statement, StatementOf
<1>2. TalkStatements = [i \in 1..12 |-> StatementOf("mine", Talk[i])]
  BY TalkIs DEF StatementOf
<1> QED
  BY <1>1, <1>2

LEMMA OwnTyped ==
  /\ OwnStatements \in Seq(Statement) /\ Len(OwnStatements) = 23
  /\ \A i \in 1..23 : OwnStatements[i] = StatementOf("mine", Own[i])
<1>1. \A i \in 1..23 : StatementOf("mine", Own[i]) \in Statement
  BY DEF Statement, StatementOf
<1>2. OwnStatements = [i \in 1..23 |-> StatementOf("mine", Own[i])]
  BY OwnIs DEF StatementOf
<1> QED
  BY <1>1, <1>2

LEMMA StatementsAre ==
  /\ Statements \in Seq(Statement) /\ Len(Statements) = 47
  /\ \A i \in 1..11 : Statements[i] = OrderStatements[i]
  /\ \A i \in 12..23 : Statements[i] = StatementOf("mine", Talk[i - 11])
  /\ \A i \in 24..46 : Statements[i] = StatementOf("mine", Own[i - 23])
  /\ Statements[47] = Stmt("member", "member", "id")
<1> DEFINE Last == <<Stmt("member", "member", "id")>>
<1>1. Last \in Seq(Statement) /\ Len(Last) = 1 /\ Last[1] = Stmt("member", "member", "id")
  <2>1. Stmt("member", "member", "id") \in Statement
    BY DEF Statement, Stmt
  <2> QED
    BY <2>1
<1>2. Statements = OrderStatements \o TalkStatements \o OwnStatements \o Last
  BY DEF Statements
<1> HIDE DEF Last
<1> DEFINE D == OrderStatements \o TalkStatements
<1>3. Statements = D \o OwnStatements \o Last
  BY <1>2
<1>4. D \in Seq(Statement) /\ Len(D) = 23 /\ (\A i \in 1..11 : D[i] = OrderStatements[i])
      /\ (\A i \in 12..23 : D[i] = TalkStatements[i - 11])
  <2>1. /\ D \in Seq(Statement) /\ Len(D) = Len(OrderStatements) + Len(TalkStatements)
        /\ \A i \in 1..(Len(OrderStatements) + Len(TalkStatements)) :
             D[i] = IF i <= Len(OrderStatements) THEN OrderStatements[i]
                                                 ELSE TalkStatements[i - Len(OrderStatements)]
    <3>1. OrderStatements \in Seq(Statement) /\ TalkStatements \in Seq(Statement)
      BY OrdersIs, TalkTyped
    <3> QED
      BY <3>1, Concatenated
  <2> HIDE DEF D
  <2> QED
    BY OrdersIs, TalkTyped, <2>1
<1> HIDE DEF D
<1> DEFINE E == D \o OwnStatements
<1>5. Statements = E \o Last
  BY <1>3
<1>6. E \in Seq(Statement) /\ Len(E) = 46 /\ (\A i \in 1..23 : E[i] = D[i])
      /\ (\A i \in 24..46 : E[i] = OwnStatements[i - 23])
  <2>1. /\ E \in Seq(Statement) /\ Len(E) = Len(D) + Len(OwnStatements)
        /\ \A i \in 1..(Len(D) + Len(OwnStatements)) :
             E[i] = IF i <= Len(D) THEN D[i] ELSE OwnStatements[i - Len(D)]
    BY <1>4, OwnTyped, Concatenated
  <2> HIDE DEF E
  <2> QED
    BY <1>4, OwnTyped, <2>1
<1> HIDE DEF E
<1> DEFINE F == E \o Last
<1>7. F \in Seq(Statement) /\ Len(F) = 47 /\ (\A i \in 1..46 : F[i] = E[i]) /\ F[47] = Last[1]
  <2>1. /\ F \in Seq(Statement) /\ Len(F) = Len(E) + Len(Last)
        /\ \A i \in 1..(Len(E) + Len(Last)) :
             F[i] = IF i <= Len(E) THEN E[i] ELSE Last[i - Len(E)]
    <3>1. E \in Seq(Statement) /\ Last \in Seq(Statement)
      BY <1>1, <1>6
    <3> QED
      BY <3>1, Concatenated
  <2> HIDE DEF F
  <2> QED
    BY <1>1, <1>6, <2>1
<1>8. Statements = F
  BY <1>5
<1> HIDE DEF F
<1>9. \A i \in 1..46 : Statements[i] = E[i]
  <2> SUFFICES ASSUME NEW i \in 1..46 PROVE F[i] = E[i]
    BY <1>8
  <2> QED
    BY <1>7
<1>10. \A i \in 1..23 : Statements[i] = D[i]
  <2> SUFFICES ASSUME NEW i \in 1..23 PROVE Statements[i] = D[i]
    OBVIOUS
  <2>1. i \in 1..46
    OBVIOUS
  <2>2. E[i] = D[i]
    BY <1>6
  <2> QED
    BY <1>9, <2>1, <2>2
<1>11. \A i \in 1..11 : Statements[i] = OrderStatements[i]
  <2> SUFFICES ASSUME NEW i \in 1..11 PROVE Statements[i] = OrderStatements[i]
    OBVIOUS
  <2>1. i \in 1..23
    OBVIOUS
  <2>2. D[i] = OrderStatements[i]
    BY <1>4
  <2> QED
    BY <1>10, <2>1, <2>2
<1>12. \A i \in 12..23 : Statements[i] = StatementOf("mine", Talk[i - 11])
  <2> SUFFICES ASSUME NEW i \in 12..23
               PROVE Statements[i] = StatementOf("mine", Talk[i - 11])
    OBVIOUS
  <2>1. i \in 1..23 /\ i - 11 \in 1..12
    OBVIOUS
  <2>2. D[i] = TalkStatements[i - 11]
    BY <1>4
  <2>3. TalkStatements[i - 11] = StatementOf("mine", Talk[i - 11])
    BY <2>1, TalkTyped
  <2> QED
    BY <1>10, <2>1, <2>2, <2>3
<1>13. \A i \in 24..46 : Statements[i] = StatementOf("mine", Own[i - 23])
  <2> SUFFICES ASSUME NEW i \in 24..46
               PROVE Statements[i] = StatementOf("mine", Own[i - 23])
    OBVIOUS
  <2>1. i \in 1..46 /\ i - 23 \in 1..23
    OBVIOUS
  <2>2. E[i] = OwnStatements[i - 23]
    BY <1>6
  <2>3. OwnStatements[i - 23] = StatementOf("mine", Own[i - 23])
    BY <2>1, OwnTyped
  <2> QED
    BY <1>9, <2>1, <2>2, <2>3
<1>14. Statements[47] = Stmt("member", "member", "id")
  BY <1>1, <1>7, <1>8
<1> QED
  BY <1>7, <1>8, <1>11, <1>12, <1>13, <1>14

LEMMA KindsAre ==
  /\ \A i \in 1..47 : Statements[i] \in Statement
  /\ \A i \in 1..4 : Statements[i].kind = "mine" /\ Statements[i].column # "parent_order_id"
  /\ \A i \in 5..8 : Statements[i].kind = "ordered" /\ Statements[i].column = "order_id"
  /\ Statements[9].kind = "find" /\ Statements[9].column = "member_id"
  /\ Statements[9].table = "order_log" /\ Statements[11].table = "order_log"
  /\ Statements[10].kind = "unlink" /\ Statements[11].kind = "remove"
  /\ \A i \in 12..46 : Statements[i].kind = "mine" /\ Statements[i].column = "member_id"
  /\ Statements[47].kind = "member" /\ Statements[47].table = "member"
<1>1. \A i \in 1..47 : Statements[i] \in Statement
  <2>1. Statements \in Seq(Statement) /\ Len(Statements) = 47
    BY StatementsAre
  <2>2. \A S, s : s \in Seq(S) => \A i \in 1..Len(s) : s[i] \in S
    OBVIOUS
  <2>3. \A i \in 1..Len(Statements) : Statements[i] \in Statement
    BY <2>1, <2>2
  <2> QED
    BY <2>1, <2>3
<1>2. \A i \in 1..11 : Statements[i] = OrderStatements[i]
  BY StatementsAre
<1>3. ASSUME NEW i \in 12..23
      PROVE  Statements[i].kind = "mine" /\ Statements[i].column = "member_id"
  <2>1. Statements[i] = StatementOf("mine", Talk[i - 11])
    BY StatementsAre
  <2> QED
    BY <2>1 DEF StatementOf
<1>4. ASSUME NEW i \in 24..46
      PROVE  Statements[i].kind = "mine" /\ Statements[i].column = "member_id"
  <2>1. Statements[i] = StatementOf("mine", Own[i - 23])
    BY StatementsAre
  <2> QED
    BY <2>1 DEF StatementOf
<1>5. \A i \in 12..46 : i \in 12..23 \/ i \in 24..46
  OBVIOUS
<1>6. Statements[47].kind = "member" /\ Statements[47].table = "member"
  BY StatementsAre DEF Stmt
<1>7. Early[9] = "order_log" /\ Early[11] = "order_log"
  BY DEF Early
<1>8. /\ \A i \in 1..4 : Statements[i].kind = "mine" /\ Statements[i].column # "parent_order_id"
      /\ \A i \in 5..8 : Statements[i].kind = "ordered" /\ Statements[i].column = "order_id"
  <2>1. (1..4) \subseteq 1..11 /\ (5..8) \subseteq 1..11
    OBVIOUS
  <2>2. \A i \in 1..4 : OrderStatements[i].kind = "mine" /\ OrderStatements[i].column # "parent_order_id"
    BY OrdersIs
  <2>3. \A i \in 5..8 : OrderStatements[i].kind = "ordered" /\ OrderStatements[i].column = "order_id"
    BY OrdersIs
  <2> QED
    BY <1>2, <2>1, <2>2, <2>3
<1>9. /\ Statements[9].kind = "find" /\ Statements[9].column = "member_id"
      /\ Statements[9].table = "order_log" /\ Statements[11].table = "order_log"
      /\ Statements[10].kind = "unlink" /\ Statements[11].kind = "remove"
  BY <1>2, <1>7, OrdersIs
<1>10. \A i \in 12..46 : Statements[i].kind = "mine" /\ Statements[i].column = "member_id"
  BY <1>3, <1>4, <1>5
<1> QED
  BY <1>1, <1>6, <1>8, <1>9, <1>10

LEMMA TablesAre ==
  /\ \A i \in 1..11 : Statements[i].table = Early[i]
  /\ \A i \in 12..23 : Statements[i].table = Talk[i - 11]
  /\ \A i \in 24..46 : Statements[i].table = Own[i - 23]
  /\ Statements[47].table = "member"
<1>1. \A i \in 1..11 : Statements[i].table = Early[i]
  BY StatementsAre, OrdersIs
<1>2. ASSUME NEW i \in 12..23 PROVE Statements[i].table = Talk[i - 11]
  <2>1. Statements[i] = StatementOf("mine", Talk[i - 11])
    BY StatementsAre
  <2> QED
    BY <2>1 DEF StatementOf
<1>3. ASSUME NEW i \in 24..46 PROVE Statements[i].table = Own[i - 23]
  <2>1. Statements[i] = StatementOf("mine", Own[i - 23])
    BY StatementsAre
  <2> QED
    BY <2>1 DEF StatementOf
<1> QED
  BY <1>1, <1>2, <1>3, KindsAre


(* Which statements go by a table that another table hangs on, or that     *)
(* hangs on another.                                                       *)
LEMMA EarlyPlaces ==
  ASSUME NEW i \in 1..11
  PROVE  /\ Early[i] = "order_contact" => i = 3
         /\ Early[i] = "order_executor" => i = 4
         /\ Early[i] = "order_product" => i = 5
         /\ Early[i] = "order_discount" => i = 6
         /\ Early[i] = "payment_log" => i = 7
         /\ Early[i] = "invoice" => i = 8
         /\ Early[i] = "order_log" => i \in 9..11
         /\ Early[i] \in {"notification", "order_contact", "order_executor", "order_product",
                          "order_discount", "payment_log", "invoice", "order_log"}
<1>1. i \in {1, 2, 3, 4, 5, 6, 7, 8, 9, 10, 11}
  OBVIOUS
<1> QED
  BY <1>1 DEF Early

LEMMA TalkPlaces ==
  ASSUME NEW i \in 1..12
  PROVE  /\ Talk[i] = "issue_reply_reaction" => i = 5
         /\ Talk[i] = "issue_reaction" => i = 6
         /\ Talk[i] = "issue_reply" => i = 7
         /\ Talk[i] = "issue" => i = 8
         /\ Talk[i] = "comment_reply_reaction" => i = 9
         /\ Talk[i] = "comment_reply" => i = 10
         /\ Talk[i] = "comment_reaction" => i = 11
         /\ Talk[i] = "comment" => i = 12
         /\ Talk[i] \in {"attend", "practice", "voucher", "exercise", "issue_reply_reaction",
              "issue_reaction", "issue_reply", "issue", "comment_reply_reaction",
              "comment_reply", "comment_reaction", "comment"}
<1>1. i \in {1, 2, 3, 4, 5, 6, 7, 8, 9, 10, 11, 12}
  OBVIOUS
<1> QED
  BY <1>1 DEF Talk

LEMMA OwnPlaces ==
  ASSUME NEW i \in 1..23
  PROVE  /\ Own[i] = "coupon" => i = 8
         /\ Own[i] = "review_reaction" => i = 9
         /\ Own[i] = "review_reply" => i = 10
         /\ Own[i] = "review" => i = 11
         /\ Own[i] \in {"coin_log", "podcast_program_progress", "post_role", "program_timetable",
              "program_tempo_delivery", "program_content_log",
              "program_content_progress", "coupon", "review_reaction", "review_reply",
              "review", "member_contract", "member_card", "member_tag",
              "member_oauth", "member_category", "member_device",
              "member_tracking_log", "member_note", "member_task", "member_phone",
              "member_property", "member_permission_extra"}
<1>1. i \in {1, 2, 3, 4, 5, 6, 7, 8, 9, 10, 11, 12, 13, 14, 15, 16, 17, 18, 19, 20, 21, 22, 23}
  OBVIOUS
<1> QED
  BY <1>1 DEF Own

InnerRefs == {
  Ref("order_log", "discount_coupon_id", "coupon"),
  Ref("order_log", "parent_order_id", "order_log"),
  Ref("order_product", "order_id", "order_log"),
  Ref("order_discount", "order_id", "order_log"),
  Ref("payment_log", "order_id", "order_log"), Ref("invoice", "order_id", "order_log"),
  Ref("order_contact", "order_id", "order_log"),
  Ref("order_executor", "order_id", "order_log"),
  Ref("order_product_file", "order_product_id", "order_product"),
  Ref("activity_attendance", "order_product_id", "order_product"),
  Ref("issue_reaction", "issue_id", "issue"), Ref("issue_reply", "issue_id", "issue"),
  Ref("issue_reply_reaction", "issue_reply_id", "issue_reply"),
  Ref("comment_reaction", "comment_id", "comment"),
  Ref("comment_reply", "comment_id", "comment"),
  Ref("comment_reply_reaction", "comment_reply_id", "comment_reply"),
  Ref("review_reaction", "review_id", "review"), Ref("review_reply", "review_id", "review"),
  Ref("merchandise", "member_shop_id", "member_shop")}

LEMMA InnerKeys ==
  ASSUME NEW k \in Columns
  PROVE  k.parent = "member" \/ k \in InnerRefs
BY DEF Columns, Ref, InnerRefs,
  OrderLog, OrderProduct, OrderDiscount, PaymentLog, Invoice,
  OrderContact, OrderExecutor, OrderProductFile, ActivityAttendance,
  Coupon, Voucher, CoinLog, Issue, IssueReaction, IssueReply,
  IssueReplyReaction, Comment, CommentReaction, CommentReply,
  CommentReplyReaction, Review, ReviewReaction, ReviewReply, Notification,
  Attend, Practice, Exercise, ProgramContentLog, ProgramContentProgress,
  ProgramTempoDelivery, ProgramTimetable, PodcastProgramProgress,
  PostRole, MemberCard, MemberContract, MemberNote, MemberPermissionExtra,
  MemberTask, MemberTrackingLog, Member, MemberCategory, MemberDevice,
  MemberOauth, MemberPhone, MemberProperty, MemberTag, Activity, AppPage,
  AppPageTemplate, AppointmentPlan, CreatorCategory, CreatorDisplay,
  Media, MemberShop, MemberSocial, MemberSpeciality, Playlist, Podcast,
  PodcastPlan, PodcastProgramRole, PointLog, ProgramRole, ProjectRole,
  QuestionGroup, QuestionLibrary, Attachment, MemberPermissionGroup,
  Merchandise, PodcastAlbum, PodcastProgram

LEMMA PlacesAre ==
  ASSUME NEW i \in 1..47
  PROVE  /\ Statements[i].table = "order_contact" => i = 3
         /\ Statements[i].table = "order_executor" => i = 4
         /\ Statements[i].table = "order_product" => i = 5
         /\ Statements[i].table = "order_discount" => i = 6
         /\ Statements[i].table = "payment_log" => i = 7
         /\ Statements[i].table = "invoice" => i = 8
         /\ Statements[i].table = "order_log" => i \in 9..11
         /\ Statements[i].table = "issue_reply_reaction" => i = 16
         /\ Statements[i].table = "issue_reaction" => i = 17
         /\ Statements[i].table = "issue_reply" => i = 18
         /\ Statements[i].table = "issue" => i = 19
         /\ Statements[i].table = "comment_reply_reaction" => i = 20
         /\ Statements[i].table = "comment_reply" => i = 21
         /\ Statements[i].table = "comment_reaction" => i = 22
         /\ Statements[i].table = "comment" => i = 23
         /\ Statements[i].table = "coupon" => i = 31
         /\ Statements[i].table = "review_reaction" => i = 32
         /\ Statements[i].table = "review_reply" => i = 33
         /\ Statements[i].table = "review" => i = 34
         /\ Statements[i].table \notin {"order_product_file", "activity_attendance",
                                        "member_shop", "merchandise"}
<1>1. CASE i \in 1..11
  BY <1>1, EarlyPlaces, TablesAre
<1>2. CASE i \in 12..23
  <2> DEFINE j == i - 11
  <2>1. j \in 1..12 /\ i = j + 11
    BY <1>2
  <2>2. Statements[i].table = Talk[j]
    BY <1>2, TablesAre
  <2> HIDE DEF j
  <2> QED
    BY <2>1, <2>2, TalkPlaces
<1>3. CASE i \in 24..46
  <2> DEFINE j == i - 23
  <2>1. j \in 1..23 /\ i = j + 23
    BY <1>3
  <2>2. Statements[i].table = Own[j]
    BY <1>3, TablesAre
  <2> HIDE DEF j
  <2> QED
    BY <2>1, <2>2, OwnPlaces
<1>4. CASE i = 47
  BY <1>4, TablesAre
<1> QED
  BY <1>1, <1>2, <1>3, <1>4

(* The order of the statements is one the foreign keys allow: a table that *)
(* hangs on another is cleared before it, but for the orders themselves.   *)
LEMMA OrderFits ==
  ASSUME NEW k \in Columns, k \notin Parents, k.parent # "member",
         NEW i \in 1..47, Statements[i].kind \in Deletes, Statements[i].table = k.parent,
         NEW j \in 1..47, Statements[j].table = k.table
  PROVE  j < i
<1>1. k \in InnerRefs
  BY InnerKeys
<1>2. i \notin {9, 10}
  BY KindsAre DEF Deletes
<1>3. /\ k.parent \in {"coupon", "order_log", "issue", "issue_reply", "comment",
                       "comment_reply", "review", "order_product", "member_shop"}
      /\ k.parent = "coupon" => k.table = "order_log"
      /\ k.parent = "order_log" =>
           k.table \in {"order_product", "order_discount", "payment_log", "invoice",
                        "order_contact", "order_executor"}
      /\ k.parent = "order_product" => k.table \in {"order_product_file", "activity_attendance"}
      /\ k.parent = "issue" => k.table \in {"issue_reaction", "issue_reply"}
      /\ k.parent = "issue_reply" => k.table = "issue_reply_reaction"
      /\ k.parent = "comment" => k.table \in {"comment_reaction", "comment_reply"}
      /\ k.parent = "comment_reply" => k.table = "comment_reply_reaction"
      /\ k.parent = "review" => k.table \in {"review_reaction", "review_reply"}
      /\ k.parent = "member_shop" => k.table = "merchandise"
  BY <1>1 DEF InnerRefs, Parents, Ref
<1>4. /\ k.parent = "coupon" => i = 31
      /\ k.parent = "order_log" => i = 11
      /\ k.parent = "issue" => i = 19
      /\ k.parent = "issue_reply" => i = 18
      /\ k.parent = "comment" => i = 23
      /\ k.parent = "comment_reply" => i = 21
      /\ k.parent = "review" => i = 34
      /\ k.parent # "member_shop"
  <2>1. /\ Statements[i].table = "coupon" => i = 31
        /\ Statements[i].table = "order_log" => i \in 9..11
        /\ Statements[i].table = "issue" => i = 19
        /\ Statements[i].table = "issue_reply" => i = 18
        /\ Statements[i].table = "comment" => i = 23
        /\ Statements[i].table = "comment_reply" => i = 21
        /\ Statements[i].table = "review" => i = 34
        /\ Statements[i].table # "member_shop"
    BY PlacesAre
  <2> QED
    BY <1>2, <2>1
<1>5. /\ k.table = "order_log" => j \in 9..11
      /\ k.table \in {"order_product", "order_discount", "payment_log", "invoice",
                        "order_contact", "order_executor"} => j \in 3..8
      /\ k.table \notin {"order_product_file", "activity_attendance"}
      /\ k.table \in {"issue_reaction", "issue_reply"} => j \in 17..18
      /\ k.table = "issue_reply_reaction" => j = 16
      /\ k.table \in {"comment_reaction", "comment_reply"} => j \in 21..22
      /\ k.table = "comment_reply_reaction" => j = 20
      /\ k.table \in {"review_reaction", "review_reply"} => j \in 32..33
  BY PlacesAre
<1> QED
  BY <1>3, <1>4, <1>5

(* The columns of a table, and those the deletion goes through an order    *)
(* by.                                                                     *)
LEMMA ColumnsAre ==
  /\ \A t \in Tables : ColumnsOf[t] = {k \in Columns : k.table = t}
  /\ \A t \in Tables : KeysOf[t] \subseteq ColumnsOf[t]
  /\ \A t \in Tables : \A k \in ColumnsOf[t] \ KeysOf[t] : k.parent = "member"
  /\ \A k \in Columns : k.table \in Tables
<1>1. \A t \in Tables : KeysOf[t] = ColumnsOf[t] \ {Ref("review_reply", "member_id", "member")}
  BY DEF KeysOf
<1>2. \A t \in Tables : ColumnsOf[t] = {k \in Columns : k.table = t}
  BY DEF ColumnsOf
<1>3. Ref("review_reply", "member_id", "member").parent = "member"
  BY DEF Ref
<1> QED
  BY <1>1, <1>2, <1>3 DEF Tables

LEMMA ParentColumn ==
  ASSUME NEW k \in Columns, k.column = "parent_order_id"
  PROVE  k = Ref("order_log", "parent_order_id", "order_log")
BY DEF Columns, Ref,
  OrderLog, OrderProduct, OrderDiscount, PaymentLog, Invoice,
  OrderContact, OrderExecutor, OrderProductFile, ActivityAttendance,
  Coupon, Voucher, CoinLog, Issue, IssueReaction, IssueReply,
  IssueReplyReaction, Comment, CommentReaction, CommentReply,
  CommentReplyReaction, Review, ReviewReaction, ReviewReply, Notification,
  Attend, Practice, Exercise, ProgramContentLog, ProgramContentProgress,
  ProgramTempoDelivery, ProgramTimetable, PodcastProgramProgress,
  PostRole, MemberCard, MemberContract, MemberNote, MemberPermissionExtra,
  MemberTask, MemberTrackingLog, Member, MemberCategory, MemberDevice,
  MemberOauth, MemberPhone, MemberProperty, MemberTag, Activity, AppPage,
  AppPageTemplate, AppointmentPlan, CreatorCategory, CreatorDisplay,
  Media, MemberShop, MemberSocial, MemberSpeciality, Playlist, Podcast,
  PodcastPlan, PodcastProgramRole, PointLog, ProgramRole, ProjectRole,
  QuestionGroup, QuestionLibrary, Attachment, MemberPermissionGroup,
  Merchandise, PodcastAlbum, PodcastProgram

LEMMA OrderColumns ==
  {Ref("order_product", "order_id", "order_log"), Ref("order_discount", "order_id", "order_log"),
   Ref("payment_log", "order_id", "order_log"), Ref("invoice", "order_id", "order_log"),
   Ref("order_log", "member_id", "member"), Ref("order_log", "parent_order_id", "order_log")}
    \subseteq Columns
<1>1. OrderLog \subseteq Columns /\ OrderProduct \subseteq Columns
      /\ OrderDiscount \subseteq Columns /\ PaymentLog \subseteq Columns /\ Invoice \subseteq Columns
  BY DEF Columns
<1> QED
  BY <1>1 DEF OrderLog, OrderProduct, OrderDiscount, PaymentLog, Invoice
-----------------------------------------------------------------------------
(* What a row of a table holds, and where its columns lead when the rows   *)
(* of S are there.                                                         *)
Entry(t) == [{k.column : k \in ColumnsOf[t]} -> RowIds \cup {Doomed, Other, NULL}]

Points(k, x, S) ==
  IF k.parent = "member" THEN x \in {Doomed, Other}
  ELSE \/ x = NULL
       \/ x \in S /\ x[1] = k.parent

Hold(d, S) ==
  \A r \in DOMAIN d :
    /\ d[r] \in Entry(r[1])
    /\ \A k \in ColumnsOf[r[1]] : Points(k, d[r][k.column], S)

OrdersOf(d) == {o \in DOMAIN d : o[1] = "order_log" /\ d[o]["member_id"] = Doomed}

(* A row is as it was, but for the parent of an order.                     *)
Alike(t, new, old) ==
  /\ t # "order_log" => new = old
  /\ \A k \in ColumnsOf[t] : k.column # "parent_order_id" => new[k.column] = old[k.column]

DeletionTypes ==
  /\ at \in 0..47 /\ written \in 0..MaxRows
  /\ UNION {DOMAIN db, DOMAIN before, DOMAIN start, found} \subseteq Tables \X (1..written)
  /\ outcome \in {NULL, "deleted", "refused", "failed"}
  /\ audit \in [member: {NULL, "id", "entity"}, result: {NULL, "SUCCESS", "ERROR"}]
  /\ at > 0 => outcome = NULL
  /\ at = 0 /\ outcome = NULL => start = Empty /\ before = Empty /\ found = {}
  /\ audit.result = "SUCCESS" => Gone
  /\ audit.result = "ERROR" => outcome \in {"refused", "failed"}

(* Every key leads to a row that is there, now, after a rollback and when  *)
(* the deletion began.                                                     *)
KeysLead ==
  /\ Hold(db, DOMAIN db)
  /\ Hold(before, DOMAIN db \cup DOMAIN before)
  /\ Hold(start, DOMAIN start)
  /\ Gone => \A r \in DOMAIN db : \A k \in KeysOf[r[1]] : db[r][k.column] # Doomed

Restores ==
  /\ at > 0 => \A r \in DOMAIN start :
       IF r \in DOMAIN before THEN before[r] = start[r]
                              ELSE r \in DOMAIN db /\ db[r] = start[r]
  /\ outcome \in {"refused", "failed"} =>
       \A r \in DOMAIN start : r \in DOMAIN db /\ db[r] = start[r]

(* What the statements have deleted is what they were to.                  *)
SparesOthers ==
  /\ \A r \in DOMAIN db \cap DOMAIN start : Alike(r[1], db[r], start[r])
  /\ DOMAIN start \ Swept(start) \subseteq DOMAIN db
  /\ at > 0 \/ Gone => found \cap DOMAIN db \subseteq OrdersOf(db)

(* What statement i leaves of the rows of the start.                       *)
Done(i) ==
  \A r \in DOMAIN db \cap DOMAIN start :
    /\ Statements[i].kind = "mine" /\ r[1] = Statements[i].table
         => start[r][Statements[i].column] # Doomed
    /\ Statements[i].kind = "ordered" /\ r[1] = Statements[i].table
         => start[r]["order_id"] \notin OrdersOf(start)
    /\ Statements[i].kind = "find" /\ r \in OrdersOf(start) => r \in found
    /\ Statements[i].kind = "unlink" /\ r[1] = "order_log"
         => db[r]["parent_order_id"] \notin found
    /\ Statements[i].kind = "remove" => r \notin found

Behind(i) == (at > 0 /\ i < at) \/ Gone

ClearsAll == \A i \in 1..47 : Behind(i) => Done(i)

RefusedRightly == outcome = "refused" => Hanging(start) \/ DOMAIN db # DOMAIN start

DInv == DeletionTypes /\ KeysLead /\ Restores /\ SparesOthers /\ ClearsAll /\ RefusedRightly

-----------------------------------------------------------------------------
LEMMA StatementIs ==
  ASSUME NEW i \in 1..47
  PROVE  /\ Statements[i].kind \in {"mine", "ordered", "find", "unlink", "remove", "member"}
         /\ Statements[i].kind = "mine" =>
              i < 47 /\ Statements[i].table # "order_log"
         /\ Statements[i].kind = "ordered" =>
              /\ i \in 5..8 /\ Statements[i].column = "order_id"
              /\ Statements[i].table # "order_log" /\ Statements[i].table \in Tables
              /\ Ref(Statements[i].table, "order_id", "order_log") \in ColumnsOf[Statements[i].table]
         /\ Statements[i].kind = "find" =>
              i = 9 /\ Statements[i].table = "order_log" /\ Statements[i].column = "member_id"
         /\ Statements[i].kind = "unlink" => i = 10
         /\ Statements[i].kind = "remove" => i = 11 /\ Statements[i].table = "order_log"
         /\ Statements[i].kind = "member" => i = 47
<1>1. CASE i \in 1..4
  <2>1. Statements[i].kind = "mine"
    BY <1>1, KindsAre
  <2>2. Statements[i].table # "order_log"
    BY <1>1, PlacesAre
  <2> QED
    BY <1>1, <2>1, <2>2
<1>2. CASE i \in 5..8
  <2>1. Statements[i].kind = "ordered" /\ Statements[i].column = "order_id"
    BY <1>2, KindsAre
  <2>2. Statements[i].table \in {"order_product", "order_discount", "payment_log", "invoice"}
    BY <1>2, TablesAre DEF Early
  <2>3. Ref(Statements[i].table, "order_id", "order_log") \in Columns
    BY <2>2, OrderColumns
  <2>4. Ref(Statements[i].table, "order_id", "order_log").table = Statements[i].table
    BY DEF Ref
  <2>5. /\ Statements[i].table \in Tables
        /\ Ref(Statements[i].table, "order_id", "order_log") \in ColumnsOf[Statements[i].table]
    BY <2>3, <2>4, ColumnsAre
  <2> QED
    BY <1>2, <2>1, <2>2, <2>5
<1>3. CASE i \in {9, 10, 11}
  BY <1>3, KindsAre
<1>4. CASE i \in 12..46
  <2>1. Statements[i].kind = "mine"
    BY <1>4, KindsAre
  <2>2. Statements[i].table # "order_log"
    BY <1>4, PlacesAre
  <2> QED
    BY <1>4, <2>1, <2>2
<1>5. CASE i = 47
  BY <1>5, KindsAre
<1> QED
  BY <1>1, <1>2, <1>3, <1>4, <1>5

LEMMA OrderRefs ==
  /\ "order_log" \in Tables
  /\ Ref("order_log", "member_id", "member") \in ColumnsOf["order_log"]
  /\ Ref("order_log", "parent_order_id", "order_log") \in ColumnsOf["order_log"]
<1>1. /\ Ref("order_log", "member_id", "member") \in Columns
      /\ Ref("order_log", "parent_order_id", "order_log") \in Columns
  BY OrderColumns
<1>2. /\ Ref("order_log", "member_id", "member").table = "order_log"
      /\ Ref("order_log", "parent_order_id", "order_log").table = "order_log"
  BY DEF Ref
<1> QED
  BY <1>1, <1>2, ColumnsAre

(* What is swept out, statement by statement.                              *)
ByMember(d, r) ==
  \E i \in 1..47 : /\ Statements[i].kind = "mine" /\ r[1] = Statements[i].table
                   /\ d[r][Statements[i].column] = Doomed
ByOrder(d, r) ==
  \E i \in 1..47 : /\ Statements[i].kind = "ordered" /\ r[1] = Statements[i].table
                   /\ d[r]["order_id"] \in OrdersOf(d)

LEMMA SweptIs ==
  ASSUME NEW d, DOMAIN d \subseteq RowIds, Hold(d, DOMAIN d)
  PROVE  Swept(d) = {r \in DOMAIN d : ByMember(d, r) \/ r \in OrdersOf(d) \/ ByOrder(d, r)}
<1> DEFINE All47 == {Statements[i] : i \in 1..Len(Statements)}
           mine == {r \in DOMAIN d : \E s \in {x \in All47 : x.kind = "mine"}
                                                \cup {x \in All47 : x.kind = "find"} :
                      r[1] = s.table /\ d[r][s.column] = Doomed}
<1>1. Swept(d) = mine \cup {r \in DOMAIN d : \E s \in {x \in All47 : x.kind = "ordered"} :
                              r[1] = s.table /\ d[r][s.column] \in mine}
  BY DEF Swept
<1>2. All47 = {Statements[i] : i \in 1..47}
  BY StatementsAre
<1> HIDE DEF All47
<1>3. mine = {r \in DOMAIN d : ByMember(d, r) \/ r \in OrdersOf(d)}
  <2>1. ASSUME NEW r \in mine PROVE ByMember(d, r) \/ r \in OrdersOf(d)
    <3>1. PICK i \in 1..47 : /\ Statements[i].kind \in {"mine", "find"}
                             /\ r[1] = Statements[i].table
                             /\ d[r][Statements[i].column] = Doomed
      BY <1>2
    <3> QED
      BY <3>1, StatementIs DEF ByMember, OrdersOf
  <2>2. ASSUME NEW r \in DOMAIN d, ByMember(d, r) PROVE r \in mine
    BY <1>2, <2>2 DEF ByMember
  <2>3. ASSUME NEW r \in OrdersOf(d) PROVE r \in mine
    BY <1>2, KindsAre DEF OrdersOf
  <2> QED
    BY <2>1, <2>2, <2>3
<1> HIDE DEF mine
<1>4. ASSUME NEW r \in DOMAIN d, NEW i \in 1..47, Statements[i].kind = "ordered",
             r[1] = Statements[i].table
      PROVE  d[r][Statements[i].column] \in mine <=> d[r]["order_id"] \in OrdersOf(d)
  <2>1. /\ Statements[i].column = "order_id" /\ Statements[i].table \in Tables
        /\ Ref(Statements[i].table, "order_id", "order_log") \in ColumnsOf[r[1]]
    BY <1>4, StatementIs
  <2> DEFINE k == Ref(Statements[i].table, "order_id", "order_log")
             x == d[r]["order_id"]
  <2>2. Points(k, x, DOMAIN d)
    BY <2>1 DEF Hold, Ref
  <2>3. x = NULL \/ x[1] = "order_log"
    BY <2>2 DEF Points, Ref
  <2> HIDE DEF x
  <2>4. ~ByMember(d, x) \/ x \notin DOMAIN d
    <3>1. x = NULL => x \notin DOMAIN d
      BY RowIdsAssumption
    <3>2. x[1] = "order_log" => ~ByMember(d, x)
      BY StatementIs DEF ByMember
    <3> QED
      BY <2>3, <3>1, <3>2
  <2> QED
    BY <1>3, <2>1, <2>4 DEF x, OrdersOf
<1>5. ASSUME NEW r \in DOMAIN d
      PROVE  (\E s \in {x \in All47 : x.kind = "ordered"} :
                r[1] = s.table /\ d[r][s.column] \in mine) <=> ByOrder(d, r)
  BY <1>2, <1>4 DEF ByOrder
<1> QED
  BY <1>1, <1>3, <1>5
-----------------------------------------------------------------------------
LEMMA TargetsLead ==
  ASSUME NEW t \in Tables, NEW k \in ColumnsOf[t], NEW x \in Targets(k), DOMAIN db \subseteq RowIds
  PROVE  Points(k, x, DOMAIN db) /\ (Gone => x # Doomed)
<1>1. k \in Optional => k.parent # "member"
  BY DEF Optional, Ref
<1>2. CASE k \in Optional
  BY <1>1, <1>2, RowIdsAssumption DEF Targets, Points
<1>3. CASE k \notin Optional /\ k.parent = "member"
  BY <1>3, DeletionAssumption DEF Targets, Points
<1>4. CASE k \notin Optional /\ k.parent # "member"
  BY <1>4, RowIdsAssumption DEF Targets, Points
<1> QED
  BY <1>2, <1>3, <1>4

LEMMA WriteAdds ==
  ASSUME DInv, Write
  PROVE  \E new, refs :
           /\ new \in Tables \X (1..written') /\ new \notin Tables \X (1..written)
           /\ DOMAIN db' = DOMAIN db \cup {new} /\ db'[new] = refs
           /\ \A r \in DOMAIN db : db'[r] = db[r]
           /\ refs \in Entry(new[1])
           /\ \A k \in ColumnsOf[new[1]] : Points(k, refs[k.column], DOMAIN db)
           /\ Gone => \A k \in ColumnsOf[new[1]] : refs[k.column] # Doomed
<1>1. PICK t \in Tables : \E refs \in Contents(t) : db' = Over(db, [r \in {<<t, written'>>} |-> refs])
  BY DEF Write
<1>2. PICK refs \in Contents(t) : db' = Over(db, [r \in {<<t, written'>>} |-> refs])
  BY <1>1
<1>3. /\ written \in Nat /\ written' = written + 1 /\ MaxRows \in Nat /\ written <= MaxRows
      /\ DOMAIN db \subseteq Tables \X (1..written)
  BY DeletionAssumption DEF Write, DInv, DeletionTypes
<1> DEFINE new == <<t, written'>>
<1>4. new \in Tables \X (1..written') /\ new \notin Tables \X (1..written) /\ new[1] = t
  BY <1>3
<1>5. DOMAIN db \subseteq RowIds
  BY <1>3 DEF RowIds
<1>6. db' = Over(db, [r \in {new} |-> refs])
  BY <1>2
<1> HIDE DEF new
<1>7. new \notin DOMAIN db
  BY <1>3, <1>4
<1>8. /\ DOMAIN db' = DOMAIN db \cup {new} /\ db'[new] = refs
      /\ \A r \in DOMAIN db : db'[r] = db[r]
  BY <1>6, <1>7 DEF Over
<1>9. \A k \in ColumnsOf[t] : refs[k.column] \in Targets(k)
  BY <1>2 DEF Contents, Held
<1>10. refs \in Entry(t)
  BY <1>2, <1>5 DEF Contents, Entry
<1> QED
  BY <1>4, <1>5, <1>8, <1>9, <1>10, TargetsLead

LEMMA WriteKeeps ==
  ASSUME DInv, Write
  PROVE  DInv'
<1>1. PICK new, refs :
        /\ new \in Tables \X (1..written') /\ new \notin Tables \X (1..written)
        /\ DOMAIN db' = DOMAIN db \cup {new} /\ db'[new] = refs
        /\ \A r \in DOMAIN db : db'[r] = db[r]
        /\ refs \in Entry(new[1])
        /\ \A k \in ColumnsOf[new[1]] : Points(k, refs[k.column], DOMAIN db)
        /\ Gone => \A k \in ColumnsOf[new[1]] : refs[k.column] # Doomed
  BY WriteAdds
<1>2. UNCHANGED <<at, found, before, start, outcome, audit>> /\ Gone' = Gone
      /\ written' = written + 1 /\ written < MaxRows
  BY DEF Write, Gone
<1>3. DeletionTypes /\ KeysLead /\ Restores /\ SparesOthers /\ ClearsAll /\ RefusedRightly
  BY DEF DInv
<1>4. Tables \X (1..written) \subseteq Tables \X (1..written')
  BY <1>2, <1>3 DEF DeletionTypes
<1>5. DeletionTypes'
  <2>1. at' \in 0..47 /\ written' \in 0..MaxRows
    BY <1>2, <1>3, DeletionAssumption DEF DeletionTypes
  <2>2. UNION {DOMAIN db, DOMAIN before, DOMAIN start, found}' \subseteq Tables \X (1..written')
    BY <1>1, <1>2, <1>3, <1>4 DEF DeletionTypes
  <2> QED
    BY <1>2, <1>3, <2>1, <2>2 DEF DeletionTypes
<1>6. new \notin DOMAIN before /\ new \notin DOMAIN start /\ new \notin found /\ new \notin DOMAIN db
  BY <1>1, <1>3 DEF DeletionTypes
<1>7. KeysLead'
  <2>1. Hold(db', DOMAIN db')
    BY <1>1, <1>3 DEF KeysLead, Hold, Points
  <2>2. Hold(before', DOMAIN db' \cup DOMAIN before') /\ Hold(start', DOMAIN start')
    BY <1>1, <1>2, <1>3 DEF KeysLead, Hold, Points
  <2>3. ASSUME Gone, NEW r \in DOMAIN db', NEW k \in KeysOf[r[1]]
        PROVE  db'[r][k.column] # Doomed
    <3>1. CASE r \in DOMAIN db
      BY <1>1, <1>3, <2>3, <3>1 DEF KeysLead
    <3>2. CASE r = new
      <4>1. new[1] \in Tables
        BY <1>1
      <4> QED
        BY <1>1, <2>3, <3>2, <4>1, ColumnsAre
    <3> QED
      BY <1>1, <3>1, <3>2
  <2> QED
    BY <1>2, <2>1, <2>2, <2>3 DEF KeysLead
<1>8. Restores'
  BY <1>1, <1>2, <1>3, <1>6 DEF Restores
<1>9. DOMAIN db' \cap DOMAIN start' = DOMAIN db \cap DOMAIN start
      /\ \A r \in DOMAIN db \cap DOMAIN start : db'[r] = db[r]
  BY <1>1, <1>2, <1>6
<1>10. SparesOthers'
  <2>1. OrdersOf(db) \subseteq OrdersOf(db')
    BY <1>1 DEF OrdersOf
  <2>2. found \cap DOMAIN db' = found \cap DOMAIN db
    BY <1>1, <1>6
  <2> QED
    BY <1>1, <1>2, <1>3, <1>9, <2>1, <2>2 DEF SparesOthers
<1>11. ClearsAll'
  BY <1>2, <1>3, <1>9 DEF ClearsAll, Done, Behind
<1>12. RefusedRightly'
  <2>1. ASSUME outcome = "refused" PROVE DOMAIN db' # DOMAIN start
    BY <1>1, <1>6
  <2> QED
    BY <1>2, <2>1 DEF RefusedRightly
<1> QED
  BY <1>5, <1>7, <1>8, <1>10, <1>11, <1>12 DEF DInv

LEMMA BeginKeeps ==
  ASSUME DInv, Begin
  PROVE  DInv'
<1>1. /\ at = 0 /\ outcome = NULL /\ at' = 1 /\ start' = db
      /\ UNCHANGED <<db, written, found, before, outcome, audit>> /\ Gone' = Gone /\ ~Gone
  BY DeletionAssumption DEF Begin, Gone
<1>2. DeletionTypes /\ KeysLead
  BY DEF DInv
<1>3. DeletionTypes'
  BY <1>1, <1>2 DEF DeletionTypes, Begin
<1>4. before = Empty /\ found = {} /\ DOMAIN before = {}
  BY <1>1, <1>2 DEF DeletionTypes, Empty
<1>5. KeysLead'
  BY <1>1, <1>2 DEF KeysLead
<1>6. Restores'
  BY <1>1, <1>4, DeletionAssumption DEF Restores
<1>7. SparesOthers'
  BY <1>1, <1>4 DEF SparesOthers, Alike
<1>8. ClearsAll'
  BY <1>1 DEF ClearsAll, Behind
<1>9. RefusedRightly'
  BY <1>1, DeletionAssumption DEF RefusedRightly
<1> QED
  BY <1>3, <1>5, <1>6, <1>7, <1>8, <1>9 DEF DInv

LEMMA LogKeeps ==
  ASSUME DInv, LogDeletion
  PROVE  DInv'
<1>1. /\ outcome # NULL /\ audit.result = NULL
      /\ audit' = [member |-> IF Gone THEN "entity" ELSE "id",
                   result |-> IF Gone THEN "SUCCESS" ELSE "ERROR"]
      /\ UNCHANGED <<db, written, at, found, before, start, outcome>>
  BY DEF LogDeletion
<1>2. DeletionTypes /\ KeysLead /\ Restores /\ SparesOthers /\ ClearsAll /\ RefusedRightly
  BY DEF DInv
<1>3. DeletionTypes'
  BY <1>1, <1>2 DEF DeletionTypes, Gone
<1>4. KeysLead' /\ Restores' /\ SparesOthers'
  BY <1>1, <1>2 DEF KeysLead, Restores, SparesOthers, Gone
<1>5. ClearsAll' /\ RefusedRightly'
  BY <1>1, <1>2 DEF ClearsAll, Behind, Done, RefusedRightly, Gone
<1> QED
  BY <1>3, <1>4, <1>5 DEF DInv
LEMMA OrdersAlike ==
  ASSUME SparesOthers, NEW r \in DOMAIN db \cap DOMAIN start
  PROVE  r \in OrdersOf(db) <=> r \in OrdersOf(start)
<1> DEFINE k == Ref("order_log", "member_id", "member")
<1>1. k \in ColumnsOf["order_log"] /\ k.column = "member_id"
  BY OrderRefs DEF Ref
<1>2. Alike(r[1], db[r], start[r])
  BY DEF SparesOthers
<1>3. r[1] = "order_log" => db[r]["member_id"] = start[r]["member_id"]
  BY <1>1, <1>2 DEF Alike
<1> QED
  BY <1>3 DEF OrdersOf

LEMMA FindKeeps ==
  ASSUME DInv, FindOrders
  PROVE  DInv'
<1>1. /\ at > 0 /\ Statements[at].kind = "find" /\ found' = MyOrders /\ at' = at + 1
      /\ UNCHANGED <<db, written, before, start, outcome, audit>> /\ Gone' = Gone
  BY DEF FindOrders, Gone
<1>2. DeletionTypes /\ KeysLead /\ Restores /\ SparesOthers /\ ClearsAll /\ RefusedRightly
  BY DEF DInv
<1>3. at \in 1..47
  BY <1>1, <1>2 DEF DeletionTypes
<1>4. at = 9 /\ at' = 10
  BY <1>1, <1>3, StatementIs
<1>5. found' = OrdersOf(db)
  BY <1>1 DEF MyOrders, OrdersOf
<1>6. found' \subseteq DOMAIN db
  BY <1>5 DEF OrdersOf
<1>7. outcome = NULL /\ ~Gone
  BY <1>1, <1>2, DeletionAssumption DEF DeletionTypes, Gone
<1>8. DeletionTypes'
  BY <1>1, <1>2, <1>4, <1>6 DEF DeletionTypes, Gone
<1>9. KeysLead' /\ Restores'
  BY <1>1, <1>2, <1>4 DEF KeysLead, Restores
<1>10. SparesOthers'
  BY <1>1, <1>2, <1>5 DEF SparesOthers
<1>11. ASSUME NEW i \in 1..47, Behind(i)' PROVE Done(i)'
  <2>1. i < 10
    BY <1>1, <1>4, <1>7, <1>11 DEF Behind
  <2>2. Statements[i].kind \notin {"unlink", "remove"}
    BY <2>1, StatementIs
  <2>3. CASE i = 9
    <3>1. Statements[i].kind = "find"
      BY <2>3, KindsAre
    <3>2. \A r \in DOMAIN db \cap DOMAIN start : r \in OrdersOf(start) => r \in OrdersOf(db)
      BY <1>2, OrdersAlike
    <3> QED
      BY <1>1, <1>5, <3>1, <3>2 DEF Done
  <2>4. CASE i < 9
    <3>1. Statements[i].kind # "find"
      BY <2>4, StatementIs
    <3>2. Done(i)
      BY <1>1, <1>2, <1>4, <2>4 DEF ClearsAll, Behind
    <3> QED
      BY <1>1, <2>2, <3>1, <3>2 DEF Done
  <2> QED
    BY <2>1, <2>3, <2>4
<1>12. ClearsAll'
  BY <1>11 DEF ClearsAll
<1>13. RefusedRightly'
  BY <1>1, <1>7, DeletionAssumption DEF RefusedRightly
<1> QED
  BY <1>8, <1>9, <1>10, <1>12, <1>13 DEF DInv

LEMMA UnlinkKeeps ==
  ASSUME DInv, UnlinkChildren
  PROVE  DInv'
<1> DEFINE children == {r \in DOMAIN db : /\ r[1] = "order_log"
                                          /\ db[r]["parent_order_id"] \in found}
<1>1. /\ at > 0 /\ Statements[at].kind = "unlink" /\ at' = at + 1
      /\ UNCHANGED <<written, found, start, outcome, audit>> /\ Gone' = Gone
      /\ db' = [r \in DOMAIN db |->
                  IF r \in children THEN [db[r] EXCEPT !["parent_order_id"] = NULL] ELSE db[r]]
      /\ before' = Over(before, [r \in children |-> db[r]])
  BY DEF UnlinkChildren, Gone
<1>2. DeletionTypes /\ KeysLead /\ Restores /\ SparesOthers /\ ClearsAll /\ RefusedRightly
  BY DEF DInv
<1>3. at \in 1..47
  BY <1>1, <1>2 DEF DeletionTypes
<1>4. at = 10 /\ at' = 11
  BY <1>1, <1>3, StatementIs
<1>5. outcome = NULL /\ ~Gone
  BY <1>1, <1>2, DeletionAssumption DEF DeletionTypes, Gone
<1>6. DOMAIN db' = DOMAIN db /\ DOMAIN before' = DOMAIN before \cup children
      /\ children \subseteq DOMAIN db
  BY <1>1 DEF Over
<1>7. \A r \in DOMAIN before' : before'[r] = IF r \in DOMAIN before THEN before[r] ELSE db[r]
  BY <1>1, <1>6 DEF Over
<1>8. DOMAIN db \subseteq RowIds
  BY <1>2, DeletionAssumption DEF DeletionTypes, RowIds
<1>9. ASSUME NEW r \in DOMAIN db
      PROVE  /\ db'[r] \in Entry(r[1])
             /\ r[1] # "order_log" => db'[r] = db[r]
             /\ \A k \in ColumnsOf[r[1]] :
                  IF k.column = "parent_order_id" THEN db'[r][k.column] \in {NULL, db[r][k.column]}
                                                  ELSE db'[r][k.column] = db[r][k.column]
             /\ r[1] = "order_log" /\ NULL \notin found => db'[r]["parent_order_id"] \notin found
  <2>1. db[r] \in Entry(r[1])
    BY <1>2 DEF KeysLead, Hold
  <2>2. CASE r \notin children
    BY <1>1, <2>1, <2>2
  <2>3. CASE r \in children
    <3>1. db'[r] = [db[r] EXCEPT !["parent_order_id"] = NULL] /\ r[1] = "order_log"
      BY <1>1, <2>3
    <3>2. "parent_order_id" \in {k.column : k \in ColumnsOf[r[1]]}
      BY <3>1, OrderRefs DEF Ref
    <3> DEFINE C == {k.column : k \in ColumnsOf[r[1]]}
    <3>3. db[r] \in [C -> RowIds \cup {Doomed, Other, NULL}]
      BY <2>1 DEF Entry
    <3>4. \A k \in ColumnsOf[r[1]] : k.column \in C
      OBVIOUS
    <3>5. "parent_order_id" \in C
      BY <3>2
    <3>6. Entry(r[1]) = [C -> RowIds \cup {Doomed, Other, NULL}]
      BY DEF Entry
    <3> HIDE DEF C
    <3>7. /\ db'[r] \in [C -> RowIds \cup {Doomed, Other, NULL}]
          /\ db'[r]["parent_order_id"] = NULL
          /\ \A c \in C : c # "parent_order_id" => db'[r][c] = db[r][c]
      BY <3>1, <3>3, <3>5
    <3> QED
      BY <3>1, <3>4, <3>6, <3>7
  <2> QED
    BY <2>2, <2>3
<1> HIDE DEF children
<1>10. DeletionTypes'
  <2>1. UNION {DOMAIN db, DOMAIN before, DOMAIN start, found}' \subseteq Tables \X (1..written')
    BY <1>1, <1>2, <1>6 DEF DeletionTypes
  <2> QED
    BY <1>1, <1>2, <1>4, <1>5, <2>1 DEF DeletionTypes, Gone
<1>11. KeysLead'
  <2>1. ASSUME NEW r \in DOMAIN db, NEW k \in ColumnsOf[r[1]]
        PROVE  Points(k, db'[r][k.column], DOMAIN db)
    <3>1. Points(k, db[r][k.column], DOMAIN db)
      BY <1>2 DEF KeysLead, Hold
    <3>2. ASSUME k.column = "parent_order_id" PROVE k.parent # "member"
      <4>1. r[1] \in Tables
        BY <1>8 DEF RowIds
      <4>2. k \in Columns
        BY <4>1, ColumnsAre
      <4> QED
        BY <3>2, <4>2, ParentColumn DEF Ref
    <3> QED
      BY <1>9, <3>1, <3>2 DEF Points
  <2>2. Hold(db', DOMAIN db')
    BY <1>6, <1>9, <2>1 DEF Hold
  <2>3. Hold(before', DOMAIN db' \cup DOMAIN before')
    BY <1>2, <1>6, <1>7 DEF KeysLead, Hold, Points
  <2> QED
    BY <1>1, <1>2, <1>5, <2>2, <2>3 DEF KeysLead
<1>12. Restores'
  <2>1. ASSUME NEW r \in DOMAIN start
        PROVE  IF r \in DOMAIN before' THEN before'[r] = start[r]
                                       ELSE r \in DOMAIN db' /\ db'[r] = start[r]
    <3>1. IF r \in DOMAIN before THEN before[r] = start[r]
                                 ELSE r \in DOMAIN db /\ db[r] = start[r]
      BY <1>1, <1>2 DEF Restores
    <3>2. r \in DOMAIN db /\ r \notin children => db'[r] = db[r]
      BY <1>1 DEF children
    <3> QED
      BY <1>6, <1>7, <3>1, <3>2
  <2> QED
    BY <1>1, <1>5, <2>1, DeletionAssumption DEF Restores
<1>13. SparesOthers'
  <2>1. \A r \in DOMAIN db \cap DOMAIN start : Alike(r[1], db'[r], start[r])
    BY <1>2, <1>9 DEF SparesOthers, Alike
  <2>2. OrdersOf(db) \subseteq OrdersOf(db')
    <3>1. \A r \in DOMAIN db : r[1] = "order_log" => db'[r]["member_id"] = db[r]["member_id"]
      <4> DEFINE k == Ref("order_log", "member_id", "member")
      <4>1. k \in ColumnsOf["order_log"] /\ k.column = "member_id"
        BY OrderRefs DEF Ref
      <4> QED
        BY <1>9, <4>1
    <3> QED
      BY <1>6, <3>1 DEF OrdersOf
  <2> QED
    BY <1>1, <1>2, <1>6, <2>1, <2>2 DEF SparesOthers
<1>14. ASSUME NEW i \in 1..47, Behind(i)' PROVE Done(i)'
  <2>1. i < 11
    BY <1>1, <1>4, <1>5, <1>14 DEF Behind
  <2>2. CASE i = 10
    <3>1. Statements[i].kind = "unlink"
      BY <2>2, KindsAre
    <3>2. NULL \notin found
      BY <1>2, RowIdsAssumption, DeletionAssumption DEF DeletionTypes, RowIds
    <3>3. \A r \in DOMAIN db' : r[1] = "order_log" => db'[r]["parent_order_id"] \notin found'
      BY <1>1, <1>6, <1>9, <3>2
    <3> QED
      BY <3>1, <3>3 DEF Done
  <2>3. CASE i < 10
    <3>1. Statements[i].kind # "unlink"
      BY <2>3, StatementIs
    <3>2. Done(i)
      BY <1>1, <1>2, <1>4, <2>3 DEF ClearsAll, Behind
    <3> QED
      BY <1>1, <1>6, <3>1, <3>2 DEF Done
  <2> QED
    BY <2>1, <2>2, <2>3
<1>15. ClearsAll'
  BY <1>14 DEF ClearsAll
<1>16. RefusedRightly'
  BY <1>1, <1>5, DeletionAssumption DEF RefusedRightly
<1> QED
  BY <1>10, <1>11, <1>12, <1>13, <1>15, <1>16 DEF DInv
-----------------------------------------------------------------------------
(* What a statement deletes of the rows of the start is to be swept out.   *)
LEMMA MatchedSwept ==
  ASSUME DInv, at > 0,
         NEW r \in Matched(Statements[at]) \cap DOMAIN db \cap DOMAIN start
  PROVE  r \in Swept(start)
<1>1. DeletionTypes /\ KeysLead /\ SparesOthers
  BY DEF DInv
<1>2. at \in 1..47
  BY <1>1 DEF DeletionTypes
<1>3. DOMAIN start \subseteq RowIds /\ DOMAIN db \subseteq RowIds
  BY <1>1, DeletionAssumption DEF DeletionTypes, RowIds
<1>4. Swept(start) = {x \in DOMAIN start : ByMember(start, x) \/ x \in OrdersOf(start)
                                             \/ ByOrder(start, x)}
  BY <1>1, <1>3, SweptIs DEF KeysLead
<1>5. r[1] # "order_log" => db[r] = start[r]
  BY <1>1 DEF SparesOthers, Alike
<1>6. CASE Statements[at].kind = "mine"
  <2>1. r[1] = Statements[at].table /\ db[r][Statements[at].column] = Doomed
        /\ r[1] # "order_log"
    BY <1>2, <1>6, StatementIs DEF Matched
  <2>2. ByMember(start, r)
    BY <1>2, <1>5, <1>6, <2>1 DEF ByMember
  <2> QED
    BY <1>4, <2>2
<1>7. CASE Statements[at].kind = "ordered"
  <2>1. r[1] = Statements[at].table /\ db[r][Statements[at].column] \in MyOrders
    BY <1>7 DEF Matched
  <2>2. /\ Statements[at].column = "order_id" /\ r[1] # "order_log"
        /\ Ref(r[1], "order_id", "order_log") \in ColumnsOf[r[1]]
    BY <1>2, <1>7, <2>1, StatementIs
  <2> DEFINE o == start[r]["order_id"]
             k == Ref(r[1], "order_id", "order_log")
  <2>3. o \in OrdersOf(db)
    BY <1>5, <2>1, <2>2 DEF MyOrders, OrdersOf
  <2>4. Points(k, o, DOMAIN start)
    BY <1>1, <2>2 DEF KeysLead, Hold, Ref
  <2>5. o \in DOMAIN start
    BY <1>3, <2>3, <2>4, RowIdsAssumption DEF Points, Ref, OrdersOf
  <2>6. o \in OrdersOf(start)
    BY <1>1, <2>3, <2>5, OrdersAlike DEF OrdersOf
  <2> HIDE DEF o
  <2>7. ByOrder(start, r)
    BY <1>2, <1>7, <2>1, <2>6 DEF ByOrder, o
  <2> QED
    BY <1>4, <2>7
<1>8. CASE Statements[at].kind = "remove"
  <2>1. r \in found
    BY <1>8 DEF Matched
  <2>2. r \in OrdersOf(db)
    BY <1>1, <2>1 DEF SparesOthers
  <2> QED
    BY <1>1, <1>4, <2>2, OrdersAlike
<1>9. CASE Statements[at].kind = "member"
  <2>1. r = Doomed
    BY <1>9 DEF Matched
  <2> QED
    BY <1>3, <2>1, RowIdsAssumption
<1>10. CASE Statements[at].kind \in {"find", "unlink"}
  BY <1>10 DEF Matched
<1> QED
  BY <1>2, <1>6, <1>7, <1>8, <1>9, <1>10, StatementIs

(* What a statement leaves.                                                *)
LEMMA MatchedDone ==
  ASSUME DInv, at > 0, Statements[at].kind \in {"mine", "ordered", "remove", "member"},
         NEW r \in DOMAIN db \cap DOMAIN start, r \notin Matched(Statements[at])
  PROVE  /\ Statements[at].kind = "mine" /\ r[1] = Statements[at].table
              => start[r][Statements[at].column] # Doomed
         /\ Statements[at].kind = "ordered" /\ r[1] = Statements[at].table
              => start[r]["order_id"] \notin OrdersOf(start)
         /\ Statements[at].kind = "remove" => r \notin found
<1>1. DeletionTypes /\ KeysLead /\ SparesOthers
  BY DEF DInv
<1>2. at \in 1..47
  BY <1>1 DEF DeletionTypes
<1>3. DOMAIN start \subseteq RowIds /\ DOMAIN db \subseteq RowIds
  BY <1>1, DeletionAssumption DEF DeletionTypes, RowIds
<1>4. r[1] # "order_log" => db[r] = start[r]
  BY <1>1 DEF SparesOthers, Alike
<1>5. CASE Statements[at].kind = "mine"
  BY <1>2, <1>4, <1>5, StatementIs DEF Matched
<1>6. CASE Statements[at].kind = "remove"
  BY <1>6 DEF Matched
<1>7. ASSUME Statements[at].kind = "ordered", r[1] = Statements[at].table,
             start[r]["order_id"] \in OrdersOf(start)
      PROVE  FALSE
  <2>1. /\ Statements[at].column = "order_id" /\ r[1] # "order_log"
        /\ Ref(r[1], "order_id", "order_log") \in ColumnsOf[r[1]]
    BY <1>2, <1>7, StatementIs
  <2> DEFINE o == db[r]["order_id"]
             k == Ref(r[1], "order_id", "order_log")
  <2>2. o \in OrdersOf(start) /\ o \in DOMAIN start
    BY <1>4, <1>7, <2>1 DEF OrdersOf
  <2>3. Points(k, o, DOMAIN db)
    BY <1>1, <2>1 DEF KeysLead, Hold, Ref
  <2>4. o \in DOMAIN db
    BY <1>3, <2>2, <2>3, RowIdsAssumption DEF Points, Ref
  <2>5. o \in OrdersOf(db)
    BY <1>1, <2>2, <2>4, OrdersAlike
  <2>6. o \in MyOrders
    BY <2>5 DEF MyOrders, OrdersOf
  <2> QED
    BY <1>7, <2>1, <2>6 DEF Matched
<1> QED
  BY <1>5, <1>6, <1>7

LEMMA ClearKeeps ==
  ASSUME DInv, Clear
  PROVE  DInv'
<1> DEFINE gone == Matched(Statements[at])
<1>1. /\ at > 0 /\ Statements[at].kind \in {"mine", "ordered", "remove", "member"}
      /\ ~Restricted(gone) /\ db' = [r \in DOMAIN db \ gone |-> db[r]]
      /\ before' = Over(before, [r \in gone \cap DOMAIN db |-> db[r]])
      /\ UNCHANGED <<written, found, start, audit>>
  BY DEF Clear
<1>2. DeletionTypes /\ KeysLead /\ Restores /\ SparesOthers /\ ClearsAll /\ RefusedRightly
  BY DEF DInv
<1>3. at \in 1..47 /\ outcome = NULL
  BY <1>1, <1>2 DEF DeletionTypes
<1>4. IF at = 47 THEN at' = 0 /\ outcome' = "deleted" ELSE at' = at + 1 /\ outcome' = NULL
  BY <1>3, StatementsAre DEF Clear
<1>5. Gone' <=> at = 47
  BY <1>4, DeletionAssumption DEF Gone
<1>6. ~Gone
  BY <1>3, DeletionAssumption DEF Gone
<1>7. gone \cap DOMAIN db \cap DOMAIN start \subseteq Swept(start)
  BY <1>1, MatchedSwept
<1>8. \A r \in (DOMAIN db \cap DOMAIN start) \ gone :
        /\ Statements[at].kind = "mine" /\ r[1] = Statements[at].table
             => start[r][Statements[at].column] # Doomed
        /\ Statements[at].kind = "ordered" /\ r[1] = Statements[at].table
             => start[r]["order_id"] \notin OrdersOf(start)
        /\ Statements[at].kind = "remove" => r \notin found
  BY <1>1, MatchedDone
<1>9. at = 47 => gone = {Doomed}
  BY KindsAre DEF Matched
<1>10. DOMAIN db \subseteq RowIds
  BY <1>2, DeletionAssumption DEF DeletionTypes, RowIds
<1> HIDE DEF gone
<1>11. DOMAIN db' = DOMAIN db \ gone /\ \A r \in DOMAIN db' : db'[r] = db[r]
  BY <1>1
<1>12. /\ DOMAIN before' = DOMAIN before \cup (gone \cap DOMAIN db)
       /\ \A r \in DOMAIN before' : before'[r] = IF r \in DOMAIN before THEN before[r] ELSE db[r]
  BY <1>1 DEF Over
<1>13. DeletionTypes'
  <2>1. UNION {DOMAIN db, DOMAIN before, DOMAIN start, found}' \subseteq Tables \X (1..written')
    BY <1>1, <1>2, <1>11, <1>12 DEF DeletionTypes
  <2>2. at' \in 0..47 /\ (at' > 0 => outcome' = NULL) /\ outcome' \in {NULL, "deleted"}
        /\ ~(at' = 0 /\ outcome' = NULL)
    BY <1>3, <1>4, DeletionAssumption
  <2>3. audit.result \notin {"SUCCESS", "ERROR"}
    BY <1>2, <1>3, <1>6, DeletionAssumption DEF DeletionTypes
  <2> QED
    BY <1>1, <1>2, <2>1, <2>2, <2>3 DEF DeletionTypes
<1>14. ASSUME NEW r \in DOMAIN db', NEW k \in KeysOf[r[1]] PROVE db[r][k.column] \notin gone
  BY <1>1, <1>11 DEF Restricted, Held
<1>15. KeysLead'
  <2>1. ASSUME NEW r \in DOMAIN db', NEW k \in ColumnsOf[r[1]]
        PROVE  Points(k, db'[r][k.column], DOMAIN db')
    <3>1. Points(k, db[r][k.column], DOMAIN db)
      BY <1>2, <1>11 DEF KeysLead, Hold
    <3>2. k \notin KeysOf[r[1]] => k.parent = "member"
      BY <1>10, <1>11, ColumnsAre DEF RowIds
    <3> QED
      BY <1>11, <1>14, <3>1, <3>2 DEF Points
  <2>2. \A r \in DOMAIN db' : db'[r] \in Entry(r[1])
    BY <1>2, <1>11 DEF KeysLead, Hold
  <2>3. Hold(db', DOMAIN db')
    BY <2>1, <2>2 DEF Hold
  <2>4. Hold(before', DOMAIN db' \cup DOMAIN before')
    <3>1. DOMAIN db' \cup DOMAIN before' = DOMAIN db \cup DOMAIN before
      BY <1>11, <1>12
    <3> QED
      BY <1>2, <1>12, <3>1 DEF KeysLead, Hold, Points
  <2>5. ASSUME Gone', NEW r \in DOMAIN db', NEW k \in KeysOf[r[1]]
        PROVE  db'[r][k.column] # Doomed
    BY <1>5, <1>9, <1>11, <1>14, <2>5
  <2> QED
    BY <1>1, <1>2, <2>3, <2>4, <2>5 DEF KeysLead
<1>16. Restores'
  <2>1. ASSUME NEW r \in DOMAIN start
        PROVE  IF r \in DOMAIN before' THEN before'[r] = start[r]
                                       ELSE r \in DOMAIN db' /\ db'[r] = start[r]
    <3>1. IF r \in DOMAIN before THEN before[r] = start[r]
                                 ELSE r \in DOMAIN db /\ db[r] = start[r]
      BY <1>1, <1>2 DEF Restores
    <3> QED
      BY <1>11, <1>12, <3>1
  <2> QED
    BY <1>1, <1>4, <2>1, DeletionAssumption DEF Restores
<1>17. SparesOthers'
  <2>1. OrdersOf(db) \cap DOMAIN db' \subseteq OrdersOf(db')
    BY <1>11 DEF OrdersOf
  <2>2. found \cap DOMAIN db \subseteq OrdersOf(db)
    BY <1>1, <1>2 DEF SparesOthers
  <2>3. DOMAIN start \ Swept(start) \subseteq DOMAIN db'
    BY <1>2, <1>7, <1>11 DEF SparesOthers
  <2>4. \A r \in DOMAIN db' \cap DOMAIN start : Alike(r[1], db'[r], start[r])
    BY <1>2, <1>11 DEF SparesOthers
  <2> QED
    BY <1>1, <1>11, <2>1, <2>2, <2>3, <2>4 DEF SparesOthers
<1>18. ASSUME NEW i \in 1..47, Behind(i)' PROVE Done(i)'
  <2>1. i <= at
    BY <1>3, <1>4, <1>5, <1>18 DEF Behind
  <2>2. CASE i < at
    <3>1. Done(i)
      BY <1>1, <1>2, <2>2 DEF ClearsAll, Behind
    <3> QED
      BY <1>1, <1>11, <3>1 DEF Done
  <2>3. CASE i = at
    <3>1. Statements[i].kind \notin {"find", "unlink"}
      BY <1>1, <2>3
    <3> QED
      BY <1>1, <1>8, <1>11, <2>3, <3>1 DEF Done
  <2> QED
    BY <1>3, <2>1, <2>2, <2>3
<1>19. ClearsAll'
  BY <1>18 DEF ClearsAll
<1>20. RefusedRightly'
  BY <1>4, DeletionAssumption DEF RefusedRightly
<1> QED
  BY <1>13, <1>15, <1>16, <1>17, <1>19, <1>20 DEF DInv
LEMMA MatchedRows ==
  ASSUME DInv, at > 0, NEW x \in Matched(Statements[at])
  PROVE  /\ Statements[at].kind \in {"mine", "ordered", "remove", "member"}
         /\ Statements[at].kind = "member" => x = Doomed
         /\ Statements[at].kind # "member" => x \in DOMAIN db /\ x[1] = Statements[at].table
<1>1. DeletionTypes /\ SparesOthers
  BY DEF DInv
<1>2. at \in 1..47
  BY <1>1 DEF DeletionTypes
<1>3. found \cap DOMAIN db \subseteq OrdersOf(db)
  BY <1>1 DEF SparesOthers
<1>4. Statements[at].kind \in {"mine", "ordered", "find", "unlink", "remove", "member"}
      /\ (Statements[at].kind = "remove" => Statements[at].table = "order_log")
  BY <1>2, StatementIs
<1>5. CASE Statements[at].kind \in {"mine", "ordered", "member"}
  BY <1>5 DEF Matched
<1>6. CASE Statements[at].kind \in {"find", "unlink"}
  BY <1>6 DEF Matched
<1>7. CASE Statements[at].kind = "remove"
  BY <1>3, <1>4, <1>7 DEF Matched, OrdersOf
<1> QED
  BY <1>4, <1>5, <1>6, <1>7

(* A row that is to be swept out and is still there is one that a later    *)
(* statement deletes.                                                      *)
LEMMA SweptLater ==
  ASSUME DInv, at > 0, Statements[at].kind \in {"mine", "ordered", "remove", "member"},
         NEW r \in DOMAIN db \cap DOMAIN start, r \notin Matched(Statements[at]),
         r \in Swept(start)
  PROVE  \E j \in 1..47 : j > at /\ Statements[j].table = r[1]
<1>1. DeletionTypes /\ KeysLead /\ ClearsAll
  BY DEF DInv
<1>2. at \in 1..47
  BY <1>1 DEF DeletionTypes
<1>3. DOMAIN start \subseteq RowIds
  BY <1>1, DeletionAssumption DEF DeletionTypes, RowIds
<1>4. ByMember(start, r) \/ r \in OrdersOf(start) \/ ByOrder(start, r)
  BY <1>1, <1>3, SweptIs DEF KeysLead
<1>5. \A j \in 1..47 : j < at => Done(j)
  BY <1>1 DEF ClearsAll, Behind
<1>6. /\ Statements[at].kind = "mine" /\ r[1] = Statements[at].table
           => start[r][Statements[at].column] # Doomed
      /\ Statements[at].kind = "ordered" /\ r[1] = Statements[at].table
           => start[r]["order_id"] \notin OrdersOf(start)
      /\ Statements[at].kind = "remove" => r \notin found
  BY MatchedDone
<1>7. CASE ByMember(start, r)
  <2>1. PICK j \in 1..47 : /\ Statements[j].kind = "mine" /\ r[1] = Statements[j].table
                           /\ start[r][Statements[j].column] = Doomed
    BY <1>7 DEF ByMember
  <2>2. ~Done(j)
    BY <2>1 DEF Done
  <2>3. j # at
    BY <1>6, <2>1
  <2>4. ~(j < at)
    BY <1>5, <2>2
  <2>5. j > at
    BY <1>2, <2>3, <2>4
  <2> QED
    BY <2>1, <2>5
<1>8. CASE ByOrder(start, r)
  <2>1. PICK j \in 1..47 : /\ Statements[j].kind = "ordered" /\ r[1] = Statements[j].table
                           /\ start[r]["order_id"] \in OrdersOf(start)
    BY <1>8 DEF ByOrder
  <2>2. ~Done(j)
    BY <2>1 DEF Done
  <2>3. j # at
    BY <1>6, <2>1
  <2>4. ~(j < at)
    BY <1>5, <2>2
  <2>5. j > at
    BY <1>2, <2>3, <2>4
  <2> QED
    BY <2>1, <2>5
<1>9. CASE r \in OrdersOf(start)
  <2>1. r[1] = "order_log" /\ Statements[11].table = "order_log"
    BY <1>9, KindsAre DEF OrdersOf
  <2>2. Statements[9].kind = "find" /\ Statements[11].kind = "remove"
    BY KindsAre
  <2>3. at > 9 => r \in found
    BY <1>5, <1>9, <2>2 DEF Done
  <2>4. at > 11 => r \notin found
    BY <1>5, <2>2 DEF Done
  <2>5. at # 11
    BY <1>6, <2>2, <2>3
  <2>6. at < 11
    BY <1>2, <2>3, <2>4, <2>5
  <2> QED
    BY <2>1, <2>6
<1> QED
  BY <1>4, <1>7, <1>8, <1>9

(* A refusal has a reason: when nothing was written since the start, a row *)
(* of others hangs on what the deletion sweeps out.                        *)
LEMMA RefusedHangs ==
  ASSUME DInv, at > 0, Restricted(Matched(Statements[at])), DOMAIN db \subseteq DOMAIN start
  PROVE  Hanging(start)
<1> DEFINE rows == Matched(Statements[at])
<1>1. PICK r \in DOMAIN db \ rows : \E k \in KeysOf[r[1]] : Held(k, db[r]) \in rows
  BY DEF Restricted
<1>2. PICK k \in KeysOf[r[1]] : Held(k, db[r]) \in rows
  BY <1>1
<1> DEFINE x == db[r][k.column]
<1>3. DeletionTypes /\ KeysLead /\ SparesOthers /\ ClearsAll
  BY DEF DInv
<1>4. at \in 1..47
  BY <1>3 DEF DeletionTypes
<1>5. DOMAIN start \subseteq RowIds /\ DOMAIN db \subseteq RowIds
  BY <1>3, DeletionAssumption DEF DeletionTypes, RowIds
<1>6. r[1] \in Tables
  BY <1>5 DEF RowIds
<1>7. k \in ColumnsOf[r[1]] /\ k \in Columns /\ k.table = r[1]
  BY <1>6, ColumnsAre
<1>8. x \in rows
  BY <1>2 DEF Held
<1>9. Points(k, x, DOMAIN db)
  BY <1>3, <1>7 DEF KeysLead, Hold
<1>10. /\ Statements[at].kind \in {"mine", "ordered", "remove", "member"}
       /\ Statements[at].kind = "member" => x = Doomed
       /\ Statements[at].kind # "member" => x \in DOMAIN db /\ x[1] = Statements[at].table
  BY <1>8, MatchedRows
<1>11. r \in DOMAIN start /\ r \in DOMAIN db
  OBVIOUS
<1>12. k.column # "parent_order_id"
  <2> SUFFICES ASSUME k.column = "parent_order_id" PROVE FALSE
    OBVIOUS
  <2>1. k = Ref("order_log", "parent_order_id", "order_log")
    BY <1>7, ParentColumn
  <2>2. k.parent = "order_log" /\ k.table = "order_log" /\ k.parent # "member"
    BY <2>1 DEF Ref
  <2>3. x # NULL
    BY <1>5, <1>10, RowIdsAssumption
  <2>4. x \in DOMAIN db /\ x[1] = "order_log"
    BY <1>9, <2>2, <2>3 DEF Points
  <2>5. Statements[at].kind = "remove" /\ at = 11
    BY <1>4, <1>5, <1>10, <2>4, StatementIs, RowIdsAssumption
  <2>6. x \in found
    BY <1>8, <2>5 DEF Matched
  <2>7. Done(10) /\ Statements[10].kind = "unlink"
    BY <1>3, <2>5, KindsAre DEF ClearsAll, Behind
  <2> QED
    BY <1>7, <1>11, <2>2, <2>6, <2>7 DEF Done
<1>13. start[r][k.column] = x
  BY <1>3, <1>7, <1>11, <1>12 DEF SparesOthers, Alike
<1>14. x \in Swept(start) \cup {Doomed}
  BY <1>8, <1>10, MatchedSwept
<1>15. k \notin Parents
  BY <1>12 DEF Parents, Ref
<1>16. r \in Swept(start) => FALSE
  <2> SUFFICES ASSUME r \in Swept(start) PROVE FALSE
    OBVIOUS
  <2>1. PICK j \in 1..47 : j > at /\ Statements[j].table = r[1]
    BY <1>10, <1>11, SweptLater
  <2>2. Statements[at].kind # "member"
    BY <1>4, <2>1, StatementIs
  <2>3. Statements[at].kind \in Deletes /\ x \in DOMAIN db /\ x[1] = Statements[at].table
    BY <1>10, <2>2 DEF Deletes
  <2>4. k.parent # "member" /\ Statements[at].table = k.parent
    BY <1>5, <1>9, <2>3, RowIdsAssumption DEF Points
  <2>5. /\ k \in Columns /\ k \notin Parents /\ k.parent # "member"
        /\ at \in 1..47 /\ Statements[at].kind \in Deletes /\ Statements[at].table = k.parent
        /\ j \in 1..47 /\ Statements[j].table = k.table
    BY <1>4, <1>7, <1>15, <2>1, <2>3, <2>4
  <2>6. j < at
    BY <2>5, OrderFits, Zenon
  <2> QED
    BY <1>4, <2>1, <2>6
<1> QED
  BY <1>11, <1>13, <1>14, <1>15, <1>16 DEF Hanging, Held

LEMMA RollBackKeeps ==
  ASSUME DInv, at > 0, NEW why \in {"refused", "failed"}, RollBack(why),
         why = "refused" => Hanging(start) \/ DOMAIN db' # DOMAIN start
  PROVE  DInv'
<1>1. /\ db' = Over(before, db) /\ at' = 0 /\ outcome' = why
      /\ UNCHANGED <<written, found, before, start, audit>>
  BY DEF RollBack
<1>2. DeletionTypes /\ KeysLead /\ Restores /\ SparesOthers
  BY DEF DInv
<1>3. /\ DOMAIN db' = DOMAIN before \cup DOMAIN db
      /\ \A r \in DOMAIN db' : db'[r] = IF r \in DOMAIN before THEN before[r] ELSE db[r]
  BY <1>1 DEF Over
<1>4. outcome = NULL /\ ~Gone /\ ~Gone'
  BY <1>1, <1>2, DeletionAssumption DEF DeletionTypes, Gone
<1>5. DeletionTypes'
  <2>1. UNION {DOMAIN db, DOMAIN before, DOMAIN start, found}' \subseteq Tables \X (1..written')
    BY <1>1, <1>2, <1>3 DEF DeletionTypes
  <2>2. audit.result \notin {"SUCCESS", "ERROR"}
    BY <1>2, <1>4, DeletionAssumption DEF DeletionTypes
  <2> QED
    BY <1>1, <1>2, <1>4, <2>1, <2>2, DeletionAssumption DEF DeletionTypes
<1>6. KeysLead'
  <2>1. Hold(db', DOMAIN db')
    BY <1>2, <1>3 DEF KeysLead, Hold, Points
  <2>2. Hold(before', DOMAIN db' \cup DOMAIN before')
    <3>1. DOMAIN db' \cup DOMAIN before' = DOMAIN db \cup DOMAIN before
      BY <1>1, <1>3
    <3> QED
      BY <1>1, <1>2, <3>1 DEF KeysLead
  <2> QED
    BY <1>1, <1>2, <1>4, <2>1, <2>2 DEF KeysLead
<1>7. \A r \in DOMAIN start : r \in DOMAIN db' /\ db'[r] = start[r]
  BY <1>2, <1>3 DEF Restores
<1>8. Restores'
  BY <1>1, <1>7 DEF Restores
<1>9. SparesOthers'
  BY <1>1, <1>4, <1>7 DEF SparesOthers, Alike
<1>10. ClearsAll'
  BY <1>1, <1>4 DEF ClearsAll, Behind
<1>11. RefusedRightly'
  BY <1>1 DEF RefusedRightly
<1> QED
  BY <1>5, <1>6, <1>8, <1>9, <1>10, <1>11 DEF DInv

LEMMA DeletionStays == DInv /\ DeletionNext => DInv'
<1> SUFFICES ASSUME DInv, DeletionNext PROVE DInv'
  OBVIOUS
<1>1. CASE Refuse
  <2>1. DOMAIN db' = DOMAIN before \cup DOMAIN db
    BY <1>1 DEF Refuse, RollBack, Over
  <2>2. Hanging(start) \/ DOMAIN db' # DOMAIN start
    BY <1>1, <2>1, RefusedHangs DEF Refuse
  <2> QED
    BY <1>1, <2>2, RollBackKeeps DEF Refuse
<1>2. CASE Fail
  BY <1>2, RollBackKeeps, DeletionAssumption DEF Fail
<1> QED
  BY <1>1, <1>2, WriteKeeps, BeginKeeps, ClearKeeps, FindKeeps, UnlinkKeeps, LogKeeps
     DEF DeletionNext

LEMMA DeletionBegins == DeletionInit => DInv
<1> SUFFICES ASSUME DeletionInit PROVE DInv
  OBVIOUS
<1>1. /\ db = Empty /\ written = 0 /\ at = 0 /\ found = {} /\ before = Empty /\ start = Empty
      /\ outcome = NULL /\ audit = [member |-> NULL, result |-> NULL]
  BY DEF DeletionInit
<1>2. DOMAIN Empty = {}
  BY DEF Empty
<1>3. ~Gone
  BY <1>1, DeletionAssumption DEF Gone
<1>4. DeletionTypes
  <2>1. UNION {DOMAIN db, DOMAIN before, DOMAIN start, found} \subseteq Tables \X (1..written)
    BY <1>1, <1>2
  <2>2. audit \in [member: {NULL, "id", "entity"}, result: {NULL, "SUCCESS", "ERROR"}]
        /\ audit.result = NULL
    BY <1>1
  <2> QED
    BY <1>1, <1>3, <2>1, <2>2, DeletionAssumption DEF DeletionTypes
<1>5. KeysLead
  BY <1>1, <1>2, <1>3 DEF KeysLead, Hold
<1>6. Restores /\ SparesOthers /\ ClearsAll /\ RefusedRightly
  BY <1>1, <1>2, <1>3, DeletionAssumption
     DEF Restores, SparesOthers, ClearsAll, Behind, RefusedRightly
<1> QED
  BY <1>4, <1>5, <1>6 DEF DInv

LEMMA DeletionStill == DInv /\ UNCHANGED deletionVars => DInv'
<1> SUFFICES ASSUME DInv, UNCHANGED deletionVars PROVE DInv'
  OBVIOUS
<1>1. UNCHANGED <<db, written, at, found, before, start, outcome, audit>>
  BY DEF deletionVars
<1>2. DeletionTypes' /\ KeysLead' /\ Restores'
  BY <1>1 DEF DInv, DeletionTypes, KeysLead, Restores, Gone
<1>3. SparesOthers' /\ ClearsAll' /\ RefusedRightly'
  BY <1>1 DEF DInv, SparesOthers, ClearsAll, Behind, Done, RefusedRightly, Gone
<1> QED
  BY <1>2, <1>3 DEF DInv

(* The deletion is all or nothing, and it is refused only when something   *)
(* of others hangs on what it sweeps out, or was written while it ran:     *)
(* whatever the rows and their writers, the order of the statements never  *)
(* stands in its way.                                                      *)
THEOREM DeletionsAreWhole == Spec => []DeletionIsWhole
<1>1. Init => DInv
  BY DeletionBegins DEF Init
<1>2. DInv /\ [Next]_vars => DInv'
  BY DeletionStays, DeletionStill DEF Next, ImportsStep, DeletionStep, ExportsStep, vars
<1>3. DInv => DeletionIsWhole
  <2> SUFFICES ASSUME DInv PROVE DeletionIsWhole
    OBVIOUS
  <2>1. DeletionTypes /\ KeysLead /\ Restores /\ SparesOthers /\ ClearsAll /\ RefusedRightly
    BY DEF DInv
  <2>2. DOMAIN start \subseteq RowIds /\ DOMAIN db \subseteq RowIds
    BY <2>1, DeletionAssumption DEF DeletionTypes, RowIds
  <2>3. ASSUME NEW r \in RowIds, NEW k \in KeysOf[r[1]]
        PROVE  k \in ColumnsOf[r[1]] /\ k \in Columns
    <3>1. r[1] \in Tables
      BY DEF RowIds
    <3> QED
      BY <3>1, ColumnsAre
  <2>4. ASSUME Gone, NEW r \in DOMAIN db, NEW k \in KeysOf[r[1]]
        PROVE  Held(k, db[r]) \in DOMAIN db \cup {Other, NULL}
    <3>1. Points(k, db[r][k.column], DOMAIN db) /\ db[r][k.column] # Doomed
      BY <2>1, <2>2, <2>3, <2>4 DEF KeysLead, Hold
    <3> QED
      BY <3>1 DEF Points, Held
  <2>5. ASSUME Gone PROVE DOMAIN db \cap Swept(start) = {}
    <3>1. \A i \in 1..47 : Done(i)
      BY <2>1, <2>5 DEF ClearsAll, Behind
    <3> SUFFICES ASSUME NEW r \in DOMAIN db \cap Swept(start) PROVE FALSE
      OBVIOUS
    <3>2. Swept(start) = {x \in DOMAIN start : ByMember(start, x) \/ x \in OrdersOf(start)
                                                 \/ ByOrder(start, x)}
      BY <2>1, <2>2, SweptIs DEF KeysLead
    <3>3. r \in DOMAIN db \cap DOMAIN start
          /\ (ByMember(start, r) \/ r \in OrdersOf(start) \/ ByOrder(start, r))
      BY <3>2
    <3>4. ~ByMember(start, r) /\ ~ByOrder(start, r)
      <4>1. ASSUME NEW i \in 1..47
            PROVE  /\ Statements[i].kind = "mine" /\ r[1] = Statements[i].table
                        => start[r][Statements[i].column] # Doomed
                   /\ Statements[i].kind = "ordered" /\ r[1] = Statements[i].table
                        => start[r]["order_id"] \notin OrdersOf(start)
        BY <3>1, <3>3 DEF Done
      <4> QED
        BY <4>1 DEF ByMember, ByOrder
    <3>5. Done(9) /\ Done(11) /\ Statements[9].kind = "find" /\ Statements[11].kind = "remove"
      BY <3>1, KindsAre
    <3> QED
      BY <3>3, <3>4, <3>5 DEF Done
  <2>6. ASSUME NEW r \in DOMAIN db \cap DOMAIN start, NEW k \in KeysOf[r[1]] \ Parents
        PROVE  Held(k, db[r]) = Held(k, start[r])
    <3>1. k \in ColumnsOf[r[1]] /\ k \in Columns
      BY <2>2, <2>3
    <3>2. k.column # "parent_order_id"
      BY <2>6, <3>1, ParentColumn DEF Parents
    <3> QED
      BY <2>1, <3>1, <3>2 DEF SparesOthers, Alike, Held
  <2>7. outcome = "deleted" =>
          /\ \A r \in DOMAIN db : \A k \in KeysOf[r[1]] :
               Held(k, db[r]) \in DOMAIN db \cup {Other, NULL}
          /\ DOMAIN start \ Swept(start) \subseteq DOMAIN db
          /\ DOMAIN db \cap Swept(start) = {}
          /\ \A r \in DOMAIN db \cap DOMAIN start : \A k \in KeysOf[r[1]] \ Parents :
               Held(k, db[r]) = Held(k, start[r])
    BY <2>1, <2>4, <2>5, <2>6 DEF SparesOthers, Gone
  <2>8. outcome \in {"refused", "failed"} =>
          \A r \in DOMAIN start : r \in DOMAIN db /\ db[r] = start[r]
    BY <2>1 DEF Restores
  <2>9. outcome = "refused" => Hanging(start) \/ DOMAIN db # DOMAIN start
    BY <2>1 DEF RefusedRightly
  <2>10. /\ audit.result = "SUCCESS" => Gone
         /\ audit.result = "ERROR" => outcome \in {"refused", "failed"}
    BY <2>1 DEF DeletionTypes
  <2> QED
    BY <2>7, <2>8, <2>9, <2>10 DEF DeletionIsWhole
<1> QED
  BY <1>1, <1>2, <1>3, PTL DEF Spec
-----------------------------------------------------------------------------
(* Every variable of the back office keeps its type: that of a run fits    *)
(* its stage, and a row holds the columns of its table.                    *)
THEOREM BackofficeTyped == Spec => []TypeOK
<1> DEFINE TInv == AInv /\ DInv /\ EInv /\ focus \in {"imports", "deletion", "exports"}
<1>1. Init => TInv
  <2> SUFFICES ASSUME NEW scene \in Scenes, ImportsInit(scene.jobs), DeletionInit,
                      ExportsInit(scene.exports), focus = scene.focus
               PROVE  TInv
    BY DEF Init
  <2>2. focus \in {"imports", "deletion", "exports"}
    BY ScenesAssumption
  <2> QED
    BY <2>2, ExportsBegin, ImportsBegin, DeletionBegins
<1>2. TInv /\ [Next]_vars => TInv'
  <2> SUFFICES ASSUME TInv, [Next]_vars PROVE TInv'
    OBVIOUS
  <2>1. AInv'
    BY FilesStep
  <2>2. DInv'
    BY DeletionStays, DeletionStill DEF Next, ImportsStep, DeletionStep, ExportsStep, vars
  <2>3. EInv'
    BY ExportsStepKeeps, ExportsStill DEF Next, ImportsStep, DeletionStep, ExportsStep, vars
  <2>4. UNCHANGED focus
    BY DEF Next, ImportsStep, DeletionStep, ExportsStep, vars
  <2> QED
    BY <2>1, <2>2, <2>3, <2>4
<1>3. TInv => TypeOK
  <2> SUFFICES ASSUME TInv PROVE TypeOK
    OBVIOUS
  <2>1. MembersTypeOK /\ ImportsTypeOK
    BY DEF AInv, ITypes
  <2>2. DeletionTypeOK
    <3>1. DeletionTypes /\ Hold(db, DOMAIN db)
      BY DEF DInv, KeysLead
    <3>2. DOMAIN db \subseteq RowIds /\ DOMAIN start \subseteq RowIds
          /\ DOMAIN before \subseteq RowIds /\ found \subseteq RowIds
      BY <3>1, DeletionAssumption DEF DeletionTypes, RowIds
    <3>3. \A r \in DOMAIN db : \A k \in ColumnsOf[r[1]] :
            db[r][k.column] \in RowIds \cup {Doomed, Other, NULL}
      BY <3>1 DEF Hold, Entry
    <3>4. Len(Statements) = 47
      BY StatementsAre
    <3> QED
      BY <3>1, <3>2, <3>3, <3>4 DEF DeletionTypes, DeletionTypeOK
  <2> QED
    BY <2>1, <2>2 DEF EInv, TypeOK
<1> QED
  BY <1>1, <1>2, <1>3, PTL DEF Spec

-----------------------------------------------------------------------------
(* Searches: what is counted and what is listed.                           *)

(* The places of the list whose property fits, and the properties found.   *)
FitPlaces(list, properties) ==
  {i \in 1..Len(list) : properties[list[i][1]] \in list[i][2]}
FoundProperties(list, properties) ==
  {p \in PropertyIds : \E i \in 1..Len(list) :
     list[i][1] = p /\ properties[p] \in list[i][2]}

LEMMA FoundAreFit ==
  ASSUME NEW list \in Seq(PropertyIds \X (SUBSET Values)), NEW properties
  PROVE  LET I == FitPlaces(list, properties)
             P == FoundProperties(list, properties)
         IN /\ IsFiniteSet(I) /\ Cardinality(I) \in Nat /\ Cardinality(I) <= Len(list)
            /\ Cardinality(I) = Len(list) => I = 1..Len(list)
            /\ Cardinality(P) \in Nat /\ Cardinality(P) <= Cardinality(I)
            /\ Cardinality(P) = Cardinality(I) <=>
                 \A i, j \in I : list[i][1] = list[j][1] => i = j
<1> DEFINE I == FitPlaces(list, properties)
           P == FoundProperties(list, properties)
           D == 1..Len(list)
           f == [i \in I |-> list[i][1]]
<1>1. Len(list) \in Nat /\ IsFiniteSet(D) /\ Cardinality(D) = Len(list)
  <2>1. Len(list) \in Nat
    OBVIOUS
  <2>2. IsFiniteSet(D) /\ Cardinality(D) = IF 1 > Len(list) THEN 0 ELSE Len(list) - 1 + 1
    BY <2>1, FS_Interval
  <2> HIDE DEF D
  <2> QED
    BY <2>1, <2>2
<1>2. I \subseteq D
  BY DEF FitPlaces
<1>3. \A i \in D : list[i][1] \in PropertyIds
  OBVIOUS
<1>4. f \in [I -> P]
  BY <1>2, <1>3 DEF FitPlaces, FoundProperties
<1>5. \A p \in P : \E i \in I : f[i] = p
  BY DEF FitPlaces, FoundProperties
<1>6. \A i \in I : f[i] = list[i][1]
  OBVIOUS
<1> HIDE DEF I, P, D, f
<1>7. IsFiniteSet(I) /\ Cardinality(I) <= Cardinality(D) /\ (Cardinality(I) = Cardinality(D) => I = D)
  BY <1>1, <1>2, FS_Subset
<1>8. f \in Surjection(I, P)
  BY <1>4, <1>5 DEF Surjection
<1>9. /\ IsFiniteSet(P) /\ Cardinality(P) <= Cardinality(I)
      /\ Cardinality(P) = Cardinality(I) <=> f \in Injection(I, P)
  BY <1>7, <1>8, FS_Surjection
<1>10. f \in Injection(I, P) <=> \A i, j \in I : list[i][1] = list[j][1] => i = j
  BY <1>4, <1>6 DEF Injection, IsInjective
<1>11. Cardinality(I) \in Nat /\ Cardinality(P) \in Nat
  BY <1>7, <1>9, FS_CardinalityType
<1>12. Cardinality(I) <= Len(list) /\ (Cardinality(I) = Len(list) => I = 1..Len(list))
  BY <1>1, <1>7 DEF D
<1> QED
  BY <1>7, <1>9, <1>10, <1>11, <1>12 DEF I, P

(* The query asks for as many properties as are found: every one fits, and *)
(* none is asked for twice.                                                *)
LEMMA PropertiesJoined ==
  ASSUME NEW list \in Seq(PropertyIds \X (SUBSET Values)), NEW properties
  PROVE  Len(list) = Cardinality(FoundProperties(list, properties)) <=>
           /\ \A i \in 1..Len(list) : properties[list[i][1]] \in list[i][2]
           /\ \A i, j \in 1..Len(list) : list[i][1] = list[j][1] => i = j
<1> DEFINE I == FitPlaces(list, properties)
           P == FoundProperties(list, properties)
<1>1. /\ IsFiniteSet(I) /\ Cardinality(I) \in Nat /\ Cardinality(I) <= Len(list)
      /\ Cardinality(I) = Len(list) => I = 1..Len(list)
      /\ Cardinality(P) \in Nat /\ Cardinality(P) <= Cardinality(I)
      /\ Cardinality(P) = Cardinality(I) <=>
           \A i, j \in I : list[i][1] = list[j][1] => i = j
  BY FoundAreFit
<1>2. Len(list) \in Nat
  OBVIOUS
<1>3. I = 1..Len(list) <=> \A i \in 1..Len(list) : properties[list[i][1]] \in list[i][2]
  BY DEF FitPlaces
<1>4. I = 1..Len(list) => Cardinality(I) = Len(list)
  <2>1. Cardinality(1..Len(list)) = IF 1 > Len(list) THEN 0 ELSE Len(list) - 1 + 1
    BY <1>2, FS_Interval
  <2> HIDE DEF I
  <2> DEFINE n == Len(list)
  <2>2. Cardinality(1..n) = n
    BY <1>2, <2>1
  <2> QED
    BY <2>2
<1> HIDE DEF I, P
<1>5. ASSUME Len(list) = Cardinality(P)
      PROVE  I = 1..Len(list) /\ \A i, j \in 1..Len(list) : list[i][1] = list[j][1] => i = j
  <2>1. Cardinality(I) = Len(list) /\ Cardinality(P) = Cardinality(I)
    BY <1>1, <1>2, <1>5
  <2> QED
    BY <1>1, <2>1
<1>6. ASSUME I = 1..Len(list), \A i, j \in 1..Len(list) : list[i][1] = list[j][1] => i = j
      PROVE  Len(list) = Cardinality(P)
  BY <1>1, <1>4, <1>6
<1> QED
  BY <1>3, <1>5, <1>6 DEF P

LEMMA ConditionProperties ==
  ASSUME NEW c, IsCondition(c), c.properties # NULL
  PROVE  c.properties \in Seq(PropertyIds \X (SUBSET Values))
BY DEF IsCondition, Maybe

LEMMA JoinedFits ==
  ASSUME NEW c, IsCondition(c), NEW m
  PROVE  (JoinedRows(c, m) # {}) <=> FitsAll(c, m) /\ AsksOnce(c)
<1> DEFINE row == members[m]
           A == Joined(c.tag, row.tags)
           B == Joined(c.category, row.categories)
           C == Joined(c.group, row.groups)
           D == JoinedGrouped(c.phone, row.phones)
           E == JoinedProperties(c.properties, row.properties)
<1>1. (JoinedRows(c, m) # {}) <=> A # {} /\ B # {} /\ C # {} /\ D # {} /\ E # {}
  <2>1. JoinedRows(c, m) = [tag: A, category: B, group: C, phone: D, properties: E]
    BY DEF JoinedRows
  <2> HIDE DEF A, B, C, D, E
  <2>2. ASSUME NEW a \in A, NEW b \in B, NEW x \in C, NEW d \in D, NEW e \in E
        PROVE  [tag |-> a, category |-> b, group |-> x, phone |-> d, properties |-> e]
                 \in JoinedRows(c, m)
    BY <2>1
  <2>3. ASSUME NEW r \in JoinedRows(c, m)
        PROVE  r.tag \in A /\ r.category \in B /\ r.group \in C /\ r.phone \in D
               /\ r.properties \in E
    BY <2>1
  <2> QED
    BY <2>2, <2>3
<1>2. /\ A # {} <=> Fits(c.tag, row.tags)
      /\ B # {} <=> Fits(c.category, row.categories)
      /\ C # {} <=> Fits(c.group, row.groups)
      /\ D # {} <=> Fits(c.phone, row.phones)
  BY DEF Joined, JoinedGrouped, Fits
<1>3. (E # {}) <=>
        /\ c.properties # NULL =>
             \A i \in 1..Len(c.properties) :
               row.properties[c.properties[i][1]] \in c.properties[i][2]
        /\ AsksOnce(c)
  <2>1. CASE c.properties = NULL
    BY <2>1 DEF JoinedProperties, AsksOnce
  <2>2. CASE c.properties # NULL
    <3> DEFINE list == c.properties
    <3>1. list \in Seq(PropertyIds \X (SUBSET Values))
      BY <2>2, ConditionProperties
    <3>2. (E # {}) <=> Len(list) = Cardinality(FoundProperties(list, row.properties))
      BY <2>2 DEF JoinedProperties, FoundProperties
    <3>3. AsksOnce(c) <=> \A i, j \in 1..Len(list) : list[i][1] = list[j][1] => i = j
      <4>1. c.properties # NULL
        BY <2>2
      <4> QED
        BY <4>1 DEF AsksOnce
    <3> HIDE DEF row, E
    <3>4. Len(list) = Cardinality(FoundProperties(list, row.properties)) <=>
            /\ \A i \in 1..Len(list) : row.properties[list[i][1]] \in list[i][2]
            /\ \A i, j \in 1..Len(list) : list[i][1] = list[j][1] => i = j
      BY <3>1, PropertiesJoined
    <3> QED
      BY <2>2, <3>2, <3>3, <3>4
  <2> QED
    BY <2>1, <2>2
<1> HIDE DEF A, B, C, D, E
<1> QED
  BY <1>1, <1>2, <1>3 DEF FitsAll, row

(* The list under a role, and the rows counted for it.                     *)
CountedRows(c, role) ==
  UNION {{m} \X JoinedRows(c, m) : m \in {n \in Existing : members[n].role = role}}

LEMMA ListedUnderRole ==
  ASSUME NEW c, IsCondition(c), NEW role \in Roles
  PROVE  GetMembersByCondition([c EXCEPT !.role = role])
           = {m \in Existing : members[m].role = role /\ JoinedRows(c, m) # {}}
<1> DEFINE d == [c EXCEPT !.role = role]
<1>1. /\ d.role = role /\ d.tag = c.tag /\ d.category = c.category /\ d.group = c.group
      /\ d.phone = c.phone /\ d.properties = c.properties
  BY DEF IsCondition
<1> HIDE DEF d
<1>2. \A m : JoinedRows(d, m) = JoinedRows(c, m)
  BY <1>1 DEF JoinedRows
<1>3. role # NULL
  BY MembersAssumption
<1> QED
  BY <1>1, <1>2, <1>3 DEF GetMembersByCondition, d

AnyRows ==
  [tag: Maybe(Tags), category: Maybe(Categories), group: Maybe(Groups),
   phone: {NULL}, properties: {NULL}]

LEMMA AnyRowsFinite == IsFiniteSet(AnyRows)
<1> DEFINE A == Maybe(Tags)
           B == Maybe(Categories)
           C == Maybe(Groups)
           T == (A \X B) \X C
           to == [x \in T |-> [tag |-> x[1][1], category |-> x[1][2], group |-> x[2],
                               phone |-> NULL, properties |-> NULL]]
<1>1. IsFiniteSet({NULL})
  BY FS_Singleton
<1>2. IsFiniteSet(A) /\ IsFiniteSet(B) /\ IsFiniteSet(C)
  BY <1>1, MembersAssumption, FS_Union DEF Maybe
<1>3. IsFiniteSet(A \X B)
  BY <1>2, FS_Product
<1>4. IsFiniteSet(T)
  BY <1>2, <1>3, FS_Product
<1>5. AnyRows = [tag: A, category: B, group: C, phone: {NULL}, properties: {NULL}]
  BY DEF AnyRows
<1> HIDE DEF A, B, C
<1>6. to \in [T -> AnyRows]
  BY <1>5
<1>7. ASSUME NEW r \in AnyRows PROVE \E x \in T : to[x] = r
  <2>1. /\ r.tag \in A /\ r.category \in B /\ r.group \in C
        /\ r.phone = NULL /\ r.properties = NULL
        /\ r = [tag |-> r.tag, category |-> r.category, group |-> r.group,
                phone |-> r.phone, properties |-> r.properties]
    BY <1>5
  <2>2. <<<<r.tag, r.category>>, r.group>> \in T
    BY <2>1
  <2>3. to[<<<<r.tag, r.category>>, r.group>>] =
          [tag |-> r.tag, category |-> r.category, group |-> r.group,
           phone |-> NULL, properties |-> NULL]
    BY <2>2
  <2>4. to[<<<<r.tag, r.category>>, r.group>>] = r
    BY <2>1, <2>3
  <2> HIDE DEF to, T
  <2> QED
    BY <2>2, <2>4
<1> HIDE DEF to, T
<1>8. to \in Surjection(T, AnyRows)
  BY <1>6, <1>7 DEF Surjection
<1> QED
  BY <1>4, <1>8, FS_Surjection

LEMMA RowsTyped ==
  ASSUME MembersTypeOK, NEW c, NEW m \in Existing
  PROVE  JoinedRows(c, m) \subseteq AnyRows
<1> DEFINE row == members[m]
           A == Joined(c.tag, row.tags)
           B == Joined(c.category, row.categories)
           C == Joined(c.group, row.groups)
           D == JoinedGrouped(c.phone, row.phones)
           E == JoinedProperties(c.properties, row.properties)
<1>1. row \in Row
  BY DEF MembersTypeOK, Existing
<1>2. row.tags \subseteq Tags /\ row.categories \subseteq Categories /\ row.groups \subseteq Groups
  BY <1>1 DEF Row
<1>3. /\ A \subseteq Maybe(Tags) /\ B \subseteq Maybe(Categories)
      /\ C \subseteq Maybe(Groups) /\ D \subseteq {NULL} /\ E \subseteq {NULL}
  <2>1. A \subseteq Maybe(Tags)
    BY <1>2 DEF Joined, Maybe
  <2>2. B \subseteq Maybe(Categories)
    BY <1>2 DEF Joined, Maybe
  <2>3. C \subseteq Maybe(Groups)
    BY <1>2 DEF Joined, Maybe
  <2>4. D \subseteq {NULL} /\ E \subseteq {NULL}
    BY DEF JoinedGrouped, JoinedProperties
  <2> QED
    BY <2>1, <2>2, <2>3, <2>4
<1>4. JoinedRows(c, m) = [tag: A, category: B, group: C, phone: D, properties: E]
  BY DEF JoinedRows
<1> HIDE DEF A, B, C, D, E
<1> QED
  BY <1>3, <1>4 DEF AnyRows

(* A member of whom at most one tag, category and group matches is joined  *)
(* to one row at most.                                                     *)
LEMMA FitsOnceOnce ==
  ASSUME NEW pattern, NEW names, IsFiniteSet(names), FitsOnce(pattern, names),
         NEW a \in Joined(pattern, names), NEW b \in Joined(pattern, names)
  PROVE  a = b
<1>1. CASE pattern = NULL
  BY <1>1 DEF Joined
<1>2. CASE pattern # NULL
  <2> DEFINE S == names \cap pattern
  <2>1. a \in S /\ b \in S /\ Cardinality(S) <= 1
    BY <1>2 DEF Joined, FitsOnce
  <2>2. IsFiniteSet(S)
    <3>1. S \in SUBSET names
      OBVIOUS
    <3> HIDE DEF S
    <3> QED
      BY <3>1, FS_Subset
  <2> HIDE DEF S
  <2>3. ASSUME a # b PROVE FALSE
    <3>1. IsFiniteSet(S \ {a}) /\ Cardinality(S \ {a}) = Cardinality(S) - 1
      BY <2>1, <2>2, FS_RemoveElement
    <3>2. b \in S \ {a}
      BY <2>1, <2>3
    <3>3. Cardinality(S \ {a}) \in Nat /\ (Cardinality(S \ {a}) = 0 <=> S \ {a} = {})
      BY <3>1, FS_CardinalityType, FS_EmptySet
    <3>4. Cardinality(S) \in Nat
      BY <2>2, FS_CardinalityType
    <3> QED
      BY <2>1, <3>1, <3>2, <3>3, <3>4
  <2> QED
    BY <2>3
<1> QED
  BY <1>1, <1>2

LEMMA OneRow ==
  ASSUME MembersTypeOK, NEW c, NEW m \in Existing,
         FitsOnce(c.tag, members[m].tags), FitsOnce(c.category, members[m].categories),
         FitsOnce(c.group, members[m].groups),
         NEW x \in JoinedRows(c, m), NEW y \in JoinedRows(c, m)
  PROVE  x = y
<1>1. members[m] \in Row
  BY DEF MembersTypeOK, Existing
<1>2. /\ members[m].tags \in SUBSET Tags /\ members[m].categories \in SUBSET Categories
      /\ members[m].groups \in SUBSET Groups
  BY <1>1 DEF Row
<1>3. /\ IsFiniteSet(members[m].tags) /\ IsFiniteSet(members[m].categories)
      /\ IsFiniteSet(members[m].groups)
  BY <1>2, MembersAssumption, FS_Subset
<1> DEFINE A == Joined(c.tag, members[m].tags)
           B == Joined(c.category, members[m].categories)
           C == Joined(c.group, members[m].groups)
           D == JoinedGrouped(c.phone, members[m].phones)
           E == JoinedProperties(c.properties, members[m].properties)
<1>4. JoinedRows(c, m) = [tag: A, category: B, group: C, phone: D, properties: E]
  BY DEF JoinedRows
<1>5. D \subseteq {NULL} /\ E \subseteq {NULL}
  BY DEF JoinedGrouped, JoinedProperties
<1>6. \A a, b \in A : a = b
  BY <1>3, FitsOnceOnce
<1>7. \A a, b \in B : a = b
  BY <1>3, FitsOnceOnce
<1>8. \A a, b \in C : a = b
  BY <1>3, FitsOnceOnce
<1> HIDE DEF A, B, C, D, E
<1>9. /\ x.tag = y.tag /\ x.category = y.category /\ x.group = y.group
      /\ x.phone = y.phone /\ x.properties = y.properties
  BY <1>4, <1>5, <1>6, <1>7, <1>8
<1>10. /\ x = [tag |-> x.tag, category |-> x.category, group |-> x.group,
               phone |-> x.phone, properties |-> x.properties]
       /\ y = [tag |-> y.tag, category |-> y.category, group |-> y.group,
               phone |-> y.phone, properties |-> y.properties]
  BY <1>4
<1> QED
  BY <1>9, <1>10

(* The count of a role: never below the number listed, and equal to it     *)
(* when nobody listed is joined to several rows.                           *)
LEMMA RolesCounted ==
  ASSUME MembersTypeOK, NEW c, IsCondition(c), NEW role \in Roles
  PROVE  LET listed == GetMembersByCondition([c EXCEPT !.role = role])
         IN /\ RoleCount(c, role) >= Cardinality(listed)
            /\ (\A m \in listed : /\ FitsOnce(c.tag, members[m].tags)
                                  /\ FitsOnce(c.category, members[m].categories)
                                  /\ FitsOnce(c.group, members[m].groups))
                 => RoleCount(c, role) = Cardinality(listed)
<1> DEFINE L == GetMembersByCondition([c EXCEPT !.role = role])
           S == CountedRows(c, role)
           f == [x \in S |-> x[1]]
<1>1. L = {m \in Existing : members[m].role = role /\ JoinedRows(c, m) # {}}
  BY ListedUnderRole
<1>2. S \subseteq MemberIds \X AnyRows
  <2>1. \A m \in Existing : m \in MemberIds /\ JoinedRows(c, m) \subseteq AnyRows
    BY RowsTyped DEF Existing
  <2> QED
    BY <2>1 DEF CountedRows
<1>3. IsFiniteSet(S)
  <2>1. IsFiniteSet(MemberIds \X AnyRows)
    BY AnyRowsFinite, MembersAssumption, FS_Product
  <2> HIDE DEF S
  <2> QED
    BY <1>2, <2>1, FS_Subset
<1>4. \A x \in S : x[1] \in L /\ x[2] \in JoinedRows(c, x[1]) /\ x = <<x[1], x[2]>>
  BY <1>1 DEF CountedRows
<1>5. \A m \in L : \E x \in S : x[1] = m
  <2> SUFFICES ASSUME NEW m \in L PROVE \E x \in S : x[1] = m
    OBVIOUS
  <2>1. m \in Existing /\ members[m].role = role
    BY <1>1
  <2>2. PICK r \in JoinedRows(c, m) : TRUE
    BY <1>1
  <2>3. <<m, r>> \in S
    BY <2>1, <2>2 DEF CountedRows
  <2> QED
    BY <2>3
<1>6. RoleCount(c, role) = Cardinality(S)
  BY DEF RoleCount, CountedRows
<1>7. \A x \in S : f[x] = x[1]
  OBVIOUS
<1>8. f \in [S -> L]
  BY <1>4
<1> HIDE DEF S, L, f
<1>9. f \in Surjection(S, L)
  BY <1>5, <1>7, <1>8 DEF Surjection
<1>10. /\ IsFiniteSet(L) /\ Cardinality(L) <= Cardinality(S)
       /\ Cardinality(L) = Cardinality(S) <=> f \in Injection(S, L)
  BY <1>3, <1>9, FS_Surjection
<1>11. ASSUME \A m \in L : /\ FitsOnce(c.tag, members[m].tags)
                           /\ FitsOnce(c.category, members[m].categories)
                           /\ FitsOnce(c.group, members[m].groups)
       PROVE  f \in Injection(S, L)
  <2> SUFFICES ASSUME NEW x \in S, NEW y \in S, f[x] = f[y] PROVE x = y
    BY <1>8 DEF Injection, IsInjective
  <2>1. x[1] = y[1] /\ x[1] \in L /\ x[1] \in Existing
    BY <1>1, <1>4, <1>7
  <2>2. x[2] \in JoinedRows(c, x[1]) /\ y[2] \in JoinedRows(c, x[1])
    BY <1>4, <2>1
  <2>3. x[2] = y[2]
    BY <1>11, <2>1, <2>2, OneRow
  <2> QED
    BY <1>4, <2>1, <2>3
<1>12. Cardinality(L) \in Nat /\ Cardinality(S) \in Nat
  BY <1>3, <1>10, FS_CardinalityType
<1>13. RoleCount(c, role) >= Cardinality(L)
  BY <1>6, <1>10, <1>12
<1> QED
  BY <1>6, <1>10, <1>11, <1>13 DEF L

LEMMA SearchesAgreed == MembersTypeOK => SearchesAgree
<1> SUFFICES ASSUME MembersTypeOK, NEW c \in Conditions
             PROVE  /\ AsksOnce(c) =>
                         GetMembersByCondition(c) =
                           {m \in Existing : c.role \in {NULL, members[m].role} /\ FitsAll(c, m)}
                    /\ ~AsksOnce(c) => GetMembersByCondition(c) = {}
                    /\ \A role \in Roles :
                         LET listed == GetMembersByCondition([c EXCEPT !.role = role]) IN
                         /\ RoleCount(c, role) >= Cardinality(listed)
                         /\ (\A m \in listed : /\ FitsOnce(c.tag, members[m].tags)
                                               /\ FitsOnce(c.category, members[m].categories)
                                               /\ FitsOnce(c.group, members[m].groups))
                              => RoleCount(c, role) = Cardinality(listed)
  BY DEF SearchesAgree
<1>1. IsCondition(c)
  BY MembersAssumption
<1>2. \A m : (JoinedRows(c, m) # {}) <=> FitsAll(c, m) /\ AsksOnce(c)
  BY <1>1, JoinedFits
<1>3. AsksOnce(c) => GetMembersByCondition(c) =
        {m \in Existing : c.role \in {NULL, members[m].role} /\ FitsAll(c, m)}
  BY <1>2 DEF GetMembersByCondition
<1>4. ~AsksOnce(c) => GetMembersByCondition(c) = {}
  BY <1>2 DEF GetMembersByCondition
<1> QED
  BY <1>1, <1>3, <1>4, RolesCounted

(* Members.tla, SearchesAgree: for any members and any search, the list    *)
(* holds whom it should and the counts by role are never below it          *)
(* (member-query-observer.ts, getMemberRoleCounts).                        *)
THEOREM SearchesAlwaysAgree == Spec => []SearchesAgree
<1>1. TypeOK => SearchesAgree
  BY SearchesAgreed DEF TypeOK
<1> QED
  BY <1>1, BackofficeTyped, PTL

=============================================================================

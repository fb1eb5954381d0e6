------------------------------ MODULE Imports ------------------------------
(***************************************************************************)
(* The import of members and of coins from uploaded files (src/tasker,     *)
(* src/coin, src/member).  A request puts a job with the names and the     *)
(* checksums of some files on a Bull queue; a worker fetches each file,    *)
(* writes each of its rows in a transaction of its own, deletes the file   *)
(* and mails the results.  Bull starts a job that stalls once more, while  *)
(* the worker that stalled may be dead or still at it; meanwhile files are *)
(* uploaded again under the same name, members edited and deleted, and     *)
(* leads of advertisements stored as members (src/webhooks).               *)
(***************************************************************************)
EXTENDS Members

CONSTANTS
  Jobs,       \* jobs: [category, files: a sequence of versions]
  Versions,   \* contents of files: [key, category, rows]
  NewIds,     \* the ids new members get
  Leads,      \* leads: [name, email, phone, properties]
  Sought,     \* bound: the jobs during which leads come in
  Stallable,  \* bound: the jobs that may stall
  Renames,    \* bound: the names others give
  Restless,   \* bound: the members others edit and delete
  MaxChanges  \* bound: edits and deletions of members by others

(* The rows of files of coins and of members, and leads; NULL is what is   *)
(* blank.  A row for a new member has an email, which is validated, and a  *)
(* name, be it the empty one; the other rows are left out by validation.   *)
CoinRow == [email: Emails]
CsvRow == [id: Maybe(MemberIds), name: Maybe(Names), email: Maybe(Emails),
           role: Maybe(Roles), tags: SUBSET Tags, categories: SUBSET Categories,
           phones: SUBSET Phones, properties: [PropertyIds -> Maybe(Values)]]
Lead == [name: Names, email: Emails, phone: Phones,
         properties: [PropertyIds -> Maybe(Values)]]
RowsOf == [coin |-> SUBSET CoinRow,
           member |-> SUBSET {row \in CsvRow : row.id = NULL => NULL \notin {row.name, row.email}}]

(* A request names each file once: the results are kept by name.           *)
ASSUME ImportsAssumption ==
  /\ MaxChanges \in Nat /\ NewIds \subseteq MemberIds /\ Renames \subseteq Names
  /\ Restless \subseteq MemberIds /\ Leads \subseteq Lead /\ NULL \notin Versions
  /\ \A v \in Versions : v.category \in {"member", "coin"} /\ v.rows \in RowsOf[v.category]
  /\ \A j \in Jobs :
       /\ j.files \in Seq(Versions)
       /\ \A i, k \in 1..Len(j.files) : j.files[i].key = j.files[k].key => i = k
       /\ \A i \in 1..Len(j.files) : j.files[i].category = j.category

VARIABLES
  bucket,    \* the storage: key -> version or NULL
  uploaded,  \* the versions that were uploaded
  queue,     \* job -> "none", "waiting", "active" or "over"
  runs,      \* <<job, start>> -> the run, or NULL
  inserted,  \* what transactions committed: [run, version, row]
  reports,   \* the results that were mailed: [run, results]
  changes,   \* edits and deletions so far
  given,     \* member -> the name he was last given, NULL: deleted
  webhook,   \* the lead being stored: [lead, member, row], or NULL
  leads,     \* the leads that came in
  midway,    \* members changed between the reading and the saving of a row
  tried,     \* versions that some run fetched
  cleared,   \* versions whose file a run deleted after importing it
  shadowed   \* versions replaced, or uploaded while an older one was imported

leadVars == <<webhook, leads>>
importVars == <<members, bucket, uploaded, queue, runs, inserted, reports,
                changes, given, leadVars, midway, tried, cleared, shadowed>>

Keys == {v.key : v \in Versions}
Runs == Jobs \X {1, 2}
Started == {r \in Runs : runs[r] # NULL}
Stages == {"fetch", "save", "over"}

(* A run: the file it is at, the rows read from it and not yet settled     *)
(* (see RowsToImport), those it saved, whether it fetched a version that   *)
(* was cleared, and the results so far, of which an error leaves no rows.  *)
Run == [file: Nat, stage: Stages,
        left: SUBSET ([row: CoinRow, read: MemberIds] \cup [row: CsvRow, read: CsvRow]),
        saved: SUBSET (CoinRow \cup CsvRow), again: BOOLEAN,
        results: Seq([error: {NULL, "unread", "undeleted"}, rows: SUBSET (CoinRow \cup CsvRow)])]
ASSUME RunsAssumption == NULL \notin Run /\ NULL \notin {"unread", "undeleted"}

NewRun == [file |-> 1, stage |-> "fetch", left |-> {}, saved |-> {},
           again |-> FALSE, results |-> <<>>]

ImportsTypeOK ==
  /\ bucket \in [Keys -> Versions \cup {NULL}]
  /\ UNION {uploaded, tried, cleared, shadowed} \subseteq Versions
  /\ queue \in [Jobs -> {"none", "waiting", "active", "over"}]
  /\ runs \in [Runs -> Run \cup {NULL}]
  /\ \A r \in Started : Len(runs[r].results) = runs[r].file - 1
  /\ \A r \in Started : runs[r].file \in 1..(Len(r[1].files) + 1)
  /\ changes \in 0..MaxChanges /\ given \in [MemberIds -> Maybe(Names)]
  /\ midway \subseteq MemberIds /\ leads \subseteq Leads
  /\ webhook # NULL => /\ webhook.lead \in leads /\ webhook.member \in Maybe(MemberIds)
                       /\ webhook.row \in Row \cup {NULL}

(* The jobs of `wanted` are yet to be requested, and no others.            *)
ImportsInit(wanted) ==
  /\ members \in FirstMembers
  /\ bucket = [k \in Keys |-> NULL] /\ uploaded = {}
  /\ queue = [j \in Jobs |-> IF j \in wanted THEN "none" ELSE "over"]
  /\ runs = [r \in Runs |-> NULL]
  /\ inserted = {} /\ reports = {} /\ changes = 0
  /\ given = [m \in MemberIds |-> IF members[m] = NULL THEN NULL ELSE members[m].name]
  /\ webhook = NULL /\ leads = {} /\ midway = {} /\ tried = {} /\ cleared = {} /\ shadowed = {}

FileOf(r) == r[1].files[runs[r].file]
Importing(v) == \E r \in Started : runs[r].stage = "save" /\ FileOf(r) = v

-----------------------------------------------------------------------------
(* External: an admin uploads a file for a request, under a key that may   *)
(* be in use.                                                              *)
Upload(v) ==
  /\ v \notin uploaded
  /\ \E j \in Jobs : queue[j] = "none" /\ v \in {j.files[i] : i \in 1..Len(j.files)}
  /\ uploaded' = uploaded \cup {v}
  /\ bucket' = [bucket EXCEPT ![v.key] = v]
  /\ shadowed' = shadowed
       \cup ({bucket[v.key]} \ {NULL})
       \cup {w \in {v} : \E x \in Versions \ {v} : x.key = v.key /\ Importing(x)}
  /\ UNCHANGED <<members, queue, runs, inserted, reports, changes, given,
                 leadVars, midway, tried, cleared>>

(* importMembers, importCoins: the request that follows the upload.        *)
Request(j) ==
  /\ queue[j] = "none" /\ \A i \in 1..Len(j.files) : j.files[i] \in uploaded
  /\ queue' = [queue EXCEPT ![j] = "waiting"]
  /\ UNCHANGED <<members, bucket, uploaded, runs, inserted, reports, changes,
                 given, leadVars, midway, tried, cleared, shadowed>>

Goes(r, run) == runs' = [runs EXCEPT ![r] = run]

(* A worker takes the job.                                                 *)
Take(j) ==
  /\ queue[j] = "waiting"
  /\ queue' = [queue EXCEPT ![j] = "active"] /\ Goes(<<j, 1>>, NewRun)
  /\ UNCHANGED <<members, bucket, uploaded, inserted, reports, changes, given,
                 leadVars, midway, tried, cleared, shadowed>>

(* External: the lock of the worker on the job runs out; Bull gives the    *)
(* job to a worker again, the first time, and fails it the second.         *)
Stall(j) ==
  /\ queue[j] = "active" /\ j \in Stallable
  /\ IF runs[<<j, 2>>] = NULL THEN Goes(<<j, 2>>, NewRun) /\ UNCHANGED queue
     ELSE queue' = [queue EXCEPT ![j] = "over"] /\ UNCHANGED runs
  /\ UNCHANGED <<members, bucket, uploaded, inserted, reports, changes, given,
                 leadVars, midway, tried, cleared, shadowed>>

(* The watchdog kills the process of a run, or it crashes.                 *)
Die(r) ==
  /\ runs[r] # NULL /\ runs[r].stage # "over"
  /\ Goes(r, [runs[r] EXCEPT !.stage = "over"])
  /\ UNCHANGED <<members, bucket, uploaded, queue, inserted, reports, changes,
                 given, leadVars, midway, tried, cleared, shadowed>>

At(r, stage) == /\ runs[r] # NULL /\ runs[r].stage = stage
                /\ runs[r].file <= Len(r[1].files)

(* The file is dealt with: the run goes on to the next.                    *)
NextFile(r, result) ==
  Goes(r, [runs[r] EXCEPT !.file = @ + 1, !.stage = "fetch", !.left = {},
                          !.saved = {}, !.results = Append(@, result)])

-----------------------------------------------------------------------------
(* rawCsvToMember: what is blank in the row of a member is read from the   *)
(* database; a row for an id that is not there needs every field.          *)
BugOr(value, default) == IF default = NULL THEN value ELSE default  \* swapped

Or(value, default) == IF value = NULL THEN default ELSE value
Unreadable(row) == /\ row.id # NULL /\ members[row.id] = NULL
                   /\ NULL \in {row.name, row.email, row.role}

BugRawCsvToMember(row) ==  \* no role for a new member
  IF row.id = NULL \/ members[row.id] = NULL THEN row
  ELSE [row EXCEPT !.name = Or(row.name, members[row.id].name),
                   !.email = Or(row.email, members[row.id].email),
                   !.role = Or(row.role, members[row.id].role)]

RawCsvToMember(row) ==
  IF row.id = NULL THEN [row EXCEPT !.role = Or(row.role, "general-member")]
  ELSE IF members[row.id] = NULL THEN row
  ELSE [row EXCEPT !.name = Or(row.name, members[row.id].name),
                   !.email = Or(row.email, members[row.id].email),
                   !.role = Or(row.role, members[row.id].role)]

Emailed(email) == {m \in Existing : members[m].email = email}

(* The rows to write, as [row, read]: the row of the file and what it was  *)
(* turned into; the row of a coin needs a member with its email.           *)
RowsToImport(v) ==
  IF v.category = "coin"
  THEN {x \in [row: v.rows, read: Existing] : x.read \in Emailed(x.row.email)}
  ELSE {[row |-> row, read |-> RawCsvToMember(row)] : row \in v.rows}

(* processFiles: the file is gone or another version, a row cannot be      *)
(* read, or else the rows are read at once (what others change between two *)
(* rows, they might have changed before or after both).                    *)
Fetch(r) ==
  /\ At(r, "fetch")
  /\ LET v == FileOf(r) IN
     IF bucket[v.key] # v
     THEN NextFile(r, [error |-> "unread", rows |-> {}]) /\ UNCHANGED tried
     ELSE /\ tried' = tried \cup {v}
          /\ IF v.category = "member" /\ \E row \in v.rows : Unreadable(row)
             THEN NextFile(r, [error |-> "unread", rows |-> {}])
             ELSE Goes(r, [runs[r] EXCEPT !.stage = "save", !.left = RowsToImport(v),
                                          !.again = @ \/ v \in cleared])
  /\ UNCHANGED <<members, bucket, uploaded, queue, inserted, reports, changes,
                 given, leadVars, midway, cleared, shadowed>>

(* The row of the member that the transaction of one row leaves: tags,     *)
(* categories and phones replaced, properties added, groups left alone.    *)
Saved(read, old) ==
  [name |-> read.name, email |-> read.email, role |-> read.role,
   tags |-> read.tags, categories |-> read.categories, phones |-> read.phones,
   groups |-> IF old = NULL THEN {} ELSE old.groups,
   properties |-> [p \in PropertyIds |->
     Or(read.properties[p], IF old = NULL THEN NULL ELSE old.properties[p])]]

(* The id of a new member is fresh (v4), for which NewIds has to be large  *)
(* enough (a bound).                                                       *)
HasId(id) == id # NULL \/ \E m \in NewIds : members[m] = NULL
TargetId(read) ==
  IF read.id # NULL THEN read.id ELSE CHOOSE m \in NewIds : members[m] = NULL

BugSettled(r, x, ok) ==  \* a row is counted before its transaction ends
  /\ Goes(r, [runs[r] EXCEPT !.left = @ \ {x}, !.saved = @ \cup {x.row}])
  /\ inserted' = inserted \cup
       (IF ok THEN {[run |-> r, version |-> FileOf(r), row |-> x.row]} ELSE {})

Settled(r, x, ok) ==
  /\ Goes(r, [runs[r] EXCEPT !.left = @ \ {x}, !.saved = IF ok THEN @ \cup {x.row} ELSE @])
  /\ inserted' = inserted \cup
       (IF ok THEN {[run |-> r, version |-> FileOf(r), row |-> x.row]} ELSE {})

(* A row read for member m, other than x, is yet to be saved by an import, *)
(* or by an import or for a lead.                                          *)
Imported(m, x) ==
  \E r \in Started : /\ runs[r].stage = "save" /\ FileOf(r).category = "member"
                     /\ \E y \in runs[r].left \ x : y.read.id = m
Awaited(m, x) == Imported(m, x) \/ (webhook # NULL /\ webhook.member = m)

(* One row, in a transaction of its own: a coin log, or a member.          *)
SaveCoin(r, x) ==
  /\ At(r, "save") /\ x \in runs[r].left /\ FileOf(r).category = "coin"
  /\ Settled(r, x, members[x.read] # NULL)
  /\ UNCHANGED <<members, bucket, uploaded, queue, reports, changes, given,
                 leadVars, midway, tried, cleared, shadowed>>

SaveMember(r, x) ==
  /\ At(r, "save") /\ x \in runs[r].left /\ FileOf(r).category = "member"
  /\ HasId(x.read.id)
  /\ LET m == TargetId(x.read)
         taken == Emailed(x.read.email) \ {x.read.id} # {} IN
     /\ Settled(r, x, ~taken)
     /\ members' = IF taken THEN members
                   ELSE [members EXCEPT ![m] = Saved(x.read, @)]
     /\ given' = IF taken \/ x.row.name = NULL THEN given
                 ELSE [given EXCEPT ![m] = x.row.name]
     /\ midway' = IF ~taken /\ Awaited(m, {x}) THEN midway \cup {m} ELSE midway
  /\ UNCHANGED <<leadVars, bucket, uploaded, queue, reports, changes, tried,
                 cleared, shadowed>>

(* A transaction fails for want of a connection.                           *)
SaveFails(r, x) ==
  /\ At(r, "save") /\ x \in runs[r].left
  /\ Settled(r, x, FALSE)
  /\ UNCHANGED <<members, bucket, uploaded, queue, reports, changes, given,
                 leadVars, midway, tried, cleared, shadowed>>

(* deleteFileAtBucketStorage, once every row is settled: whatever version  *)
(* is there now.  When the call fails its error stands for the results.    *)
Settling(r) == At(r, "save") /\ runs[r].left = {}

DeleteFile(r) ==
  /\ Settling(r)
  /\ bucket' = [bucket EXCEPT ![FileOf(r).key] = NULL]
  /\ cleared' = cleared \cup {FileOf(r)}
  /\ NextFile(r, [error |-> NULL, rows |-> runs[r].saved])
  /\ UNCHANGED <<members, uploaded, queue, inserted, reports, changes, given,
                 leadVars, midway, tried, shadowed>>

DeleteFails(r) ==
  /\ Settling(r)
  /\ NextFile(r, [error |-> "undeleted", rows |-> {}])
  /\ UNCHANGED <<members, bucket, uploaded, queue, inserted, reports, changes,
                 given, leadVars, midway, tried, cleared, shadowed>>

(* insertAuditLog, putEmailQueue and moveToCompleted, which only the run   *)
(* that holds the job can do; the mail is sent either way.                 *)
Finish(r) ==
  /\ runs[r] # NULL /\ runs[r].stage = "fetch" /\ runs[r].file > Len(r[1].files)
  /\ reports' = reports \cup {[run |-> r, results |-> runs[r].results]}
  /\ Goes(r, [runs[r] EXCEPT !.stage = "over"])
  /\ queue' = IF r[2] = 1 /\ runs[<<r[1], 2>>] # NULL THEN queue
              ELSE [queue EXCEPT ![r[1]] = "over"]
  /\ UNCHANGED <<members, bucket, uploaded, inserted, changes, given, leadVars,
                 midway, tried, cleared, shadowed>>

(* The invokers cannot be read: the error is swallowed, the job completed. *)
Abort(r) ==
  /\ runs[r] = NewRun
  /\ Goes(r, [runs[r] EXCEPT !.stage = "over"])
  /\ queue' = [queue EXCEPT ![r[1]] = "over"]
  /\ UNCHANGED <<members, bucket, uploaded, inserted, reports, changes, given,
                 leadVars, midway, tried, cleared, shadowed>>

-----------------------------------------------------------------------------
(* storeLead: a lead comes in, and the member with its email is read, if   *)
(* there is one.                                                           *)
ReadLead(lead) ==
  /\ webhook = NULL /\ lead \notin leads
  /\ \E j \in Sought : queue[j] \in {"waiting", "active"}
  /\ leads' = leads \cup {lead}
  /\ \E m \in IF Emailed(lead.email) = {} THEN {NULL} ELSE Emailed(lead.email) :
       webhook' = [lead |-> lead, member |-> m, row |-> IF m = NULL THEN NULL ELSE members[m]]
  /\ UNCHANGED <<members, bucket, uploaded, queue, runs, inserted, reports,
                 changes, given, midway, tried, cleared, shadowed>>

(* saveMember: the row as it was read, or a new one; what the row does not *)
(* hold stays, and the properties and the phone of the lead are added.     *)
Led(lead, row, old) ==
  LET kept == IF old # NULL THEN old ELSE
                [tags |-> {}, categories |-> {}, groups |-> {}, phones |-> {},
                 properties |-> [p \in PropertyIds |-> NULL]] IN
  [name |-> IF row = NULL THEN lead.name ELSE row.name,
   email |-> lead.email,
   role |-> IF row = NULL THEN "general-member" ELSE row.role,
   tags |-> kept.tags, categories |-> kept.categories, groups |-> kept.groups,
   phones |-> kept.phones \cup {lead.phone},
   properties |-> [p \in PropertyIds |-> Or(lead.properties[p], kept.properties[p])]]

(* The transaction commits, unless the email belongs to another by now.    *)
StoreLead ==
  /\ webhook # NULL /\ webhook' = NULL /\ HasId(webhook.member)
  /\ LET lead == webhook.lead
         m == TargetId([id |-> webhook.member])
         taken == Emailed(lead.email) \ {webhook.member} # {} IN
     /\ members' = IF taken THEN members
                   ELSE [members EXCEPT ![m] = Led(lead, webhook.row, @)]
     /\ given' = IF taken \/ webhook.row # NULL THEN given
                 ELSE [given EXCEPT ![m] = lead.name]
     /\ midway' = IF ~taken /\ Imported(m, {}) THEN midway \cup {m} ELSE midway
  /\ UNCHANGED <<bucket, uploaded, queue, runs, inserted, reports, changes,
                 leads, tried, cleared, shadowed>>

(* External: others rename a member, or delete him (see MemberDeletion).   *)
Change(m, name) ==
  /\ changes < MaxChanges /\ m \in Existing
  /\ changes' = changes + 1
  /\ members' = [members EXCEPT ![m] = IF name = NULL THEN NULL
                                       ELSE [@ EXCEPT !.name = name]]
  /\ given' = [given EXCEPT ![m] = name]
  /\ midway' = IF Awaited(m, {}) THEN midway \cup {m} ELSE midway
  /\ UNCHANGED <<leadVars, bucket, uploaded, queue, runs, inserted, reports,
                 tried, cleared, shadowed>>

ImportsNext ==
  \/ \E v \in Versions : Upload(v)
  \/ \E j \in Jobs : Request(j) \/ Take(j) \/ Stall(j)
  \/ \E r \in Started :
       \/ Fetch(r) \/ DeleteFile(r) \/ DeleteFails(r) \/ Finish(r)
       \/ Die(r) \/ Abort(r)
       \/ \E x \in runs[r].left : SaveCoin(r, x) \/ SaveMember(r, x) \/ SaveFails(r, x)
  \/ StoreLead \/ \E lead \in Leads : ReadLead(lead)
  \/ \E m \in Restless, name \in Renames \cup {NULL} : Change(m, name)

-----------------------------------------------------------------------------
InsertedBy(r, v) == {x.row : x \in {y \in inserted : y.run = r /\ y.version = v}}

(* What becomes of an uploaded file.  No run imports a version again that  *)
(* another has imported and deleted, so that rows are only doubled by runs *)
(* at the same file at the same time, or after one died or failed to       *)
(* delete it.  A mailed result tells the rows its run inserted, and one    *)
(* that says the file could not be read means that none was.  And a        *)
(* version is lost before any run tried it only when it was replaced, or   *)
(* uploaded while an older one under its key was being imported.           *)
ImportsAccounted ==
  /\ \A r \in Started : ~runs[r].again
  /\ \A report \in reports : \A i \in 1..Len(report.results) :
       LET result == report.results[i]
           rows == InsertedBy(report.run, report.run[1].files[i]) IN
       /\ result.error = NULL => result.rows = rows
       /\ result.error = "unread" => rows = {}
  /\ \A v \in uploaded \ (tried \cup shadowed) : bucket[v.key] = v

(* What an import leaves of a member: he is there exactly if nobody        *)
(* deleted him since, under the name he was last given, a blank in a file  *)
(* giving none -- unless he was changed between the reading of a row and   *)
(* its saving, which brings back the old name, and even a deleted member.  *)
(* A lead names only the members it adds.                                  *)
ImportKeepsMembers ==
  \A m \in MemberIds \ midway :
    given[m] = IF members[m] = NULL THEN NULL ELSE members[m].name

=============================================================================

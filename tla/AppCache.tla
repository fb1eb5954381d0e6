------------------------------ MODULE AppCache ------------------------------
(***************************************************************************)
(* The app info of a request and its copies in Redis (src/app), and the    *)
(* trigger runner that deletes them after a change (src/trigger).          *)
(*                                                                         *)
(* A request finds the app of its host, takes the app's hashes from Redis  *)
(* if all exist and from a replica of the database otherwise, is answered, *)
(* and then writes what it read back into Redis, key by key, whatever has  *)
(* happened to the keys since.  Changes of rows leave table logs; the      *)
(* runner takes those up to the time of its newest trigger log, old ones   *)
(* again and again, and deletes the key each names.  Nothing orders the    *)
(* two, and the replica may lag behind both.                               *)
(***************************************************************************)
EXTENDS Integers, Sequences, FiniteSets

CONSTANTS
  Apps,        \* app.id
  Hashes,      \* of "settings", "secrets" and "modules", those of an instance
  Fields,      \* keys of a hash, or ids of modules
  Values,      \* their values
  Seeds,       \* what the database may hold at first
  Requests,    \* requests for one host that may run at once
  Elsewhere,   \* the apps that have another host too
  Edits,       \* bound: the hashes that are edited
  Limit,       \* batch size of the runner
  MaxChanges,  \* bound: changes of rows
  MaxFailures, \* bound: runs that fail
  NULL

Row == [Fields -> Values \cup {NULL}]
Empty == [f \in Fields |-> NULL]

(* What a request has read: NULL for a hash it has not, or whose key was   *)
(* gone when it did.                                                       *)
Info == [Hashes -> Row \cup {NULL}]
Nothing == [h \in Hashes |-> NULL]

(* The tables with a handler: app_setting and app_secret; app_host is      *)
(* logged as "host".                                                       *)
Logged == Hashes \cap {"settings", "secrets"}

ASSUME AppCacheAssumption ==
  /\ Hashes \subseteq {"settings", "secrets", "modules"}
  /\ IsFiniteSet(Hashes) /\ Hashes # {}
  /\ NULL \notin Values /\ NULL \notin Apps /\ NULL \notin Requests
  /\ NULL \notin Row /\ NULL \notin [app: Apps, info: Info]
  /\ Elsewhere \subseteq Apps
  /\ Seeds \subseteq [Apps -> [Hashes -> Row]]
  /\ Edits \subseteq Apps \X Hashes
  /\ MaxChanges \in Nat /\ MaxFailures \in Nat
  /\ Limit \in Nat

(* The order in which the keys are read and written, and that of the       *)
(* queries on the database.                                                *)
Keys == Hashes \cup {"host"}
HitOrder == [host |-> 0, settings |-> 1, secrets |-> 2, modules |-> 3]
MissOrder == [secrets |-> 1, settings |-> 2, modules |-> 3]
First(S, order) == {k \in S : \A l \in S : order[k] <= order[l]}

VARIABLES
  bound,    \* app_host.app_id of the host, NULL without a row
  db,       \* app_setting, app_secret, app_module, by app and hash
  hostKey,  \* host:<host>, NULL when it does not exist
  cache,    \* app:<id>:<hash>, NULL likewise
  req,      \* the requests
  logs,     \* table_log, in the order of createdAt
  applied,  \* how many of these changes the replica has
  replica,  \* the replica's bound and db
  reached,  \* how many of them the newest trigger log reaches, NULL without one
  run,      \* the run of the trigger runner, NULL between two
  failures  \* runs that failed

dbVars == <<bound, db, logs, applied, replica>>
cacheVars == <<hostKey, cache>>
runVars == <<reached, run, failures>>
vars == <<dbVars, cacheVars, req, runVars>>

(* pc: host and hostdb find the app; check asks for the keys; hit and miss *)
(* read; fill writes before the answer, and answered after it.  done are   *)
(* the keys it is done with; dropped are the hashes that were deleted      *)
(* since the keys were checked.                                            *)
Pcs == {"idle", "hostdb", "check", "hit", "miss", "fill", "answered"}
Request ==
  [pc: Pcs, app: Apps \cup {NULL}, info: Info, done: SUBSET Keys,
   dropped: SUBSET Hashes]
Idle == [pc |-> "idle", app |-> NULL, info |-> Nothing, done |-> {}, dropped |-> {}]

TableLog ==
  [table: Hashes \cup {"host"}, app: Apps \cup {NULL}, op: {"INSERT", "UPDATE", "DELETE"},
   field: Fields \cup {NULL}, value: Values \cup {NULL}]

TypeOK ==
  /\ bound \in Apps \cup {NULL}
  /\ db \in [Apps -> [Hashes -> Row]]
  /\ hostKey \in Apps \cup {NULL}
  /\ cache \in [Apps -> [Hashes -> (Row \ {Empty}) \cup {NULL}]]
  /\ req \in [Requests -> Request]
  /\ logs \in Seq(TableLog) /\ Len(logs) <= MaxChanges
  /\ applied \in 0 .. Len(logs)
  /\ replica \in [bound: Apps \cup {NULL}, db: [Apps -> [Hashes -> Row]]]
  /\ reached \in 0 .. MaxChanges \cup {NULL}
  /\ run \in [todo: SUBSET (1 .. MaxChanges), mark: 0 .. MaxChanges \cup {NULL}] \cup {NULL}
  /\ failures \in 0 .. MaxFailures

Init ==
  /\ bound \in Apps /\ db \in Seeds
  /\ hostKey = NULL /\ cache = [a \in Apps |-> [h \in Hashes |-> NULL]]
  /\ req = [r \in Requests |-> Idle]
  /\ applied = 0 /\ replica = [bound |-> bound, db |-> db]
  /\ logs = <<>> /\ reached = NULL /\ run = NULL /\ failures = 0

-----------------------------------------------------------------------------
(* Changes of rows, and the function func_table_log of the database.       *)

Op(old, new) ==
  IF old = NULL THEN "INSERT" ELSE IF new = NULL THEN "DELETE" ELSE "UPDATE"

(* A row of a hash is inserted, updated or deleted; one of app_module is   *)
(* not updated, and its logs are never selected.                           *)
ChangeRow(a, h, f, v) ==
  /\ Len(logs) < MaxChanges
  /\ db[a][h][f] # v
  /\ h = "modules" => Op(db[a][h][f], v) # "UPDATE"
  /\ db' = [db EXCEPT ![a][h][f] = v]
  /\ logs' = Append(logs, [table |-> h, app |-> a, op |-> Op(db[a][h][f], v),
                           field |-> f, value |-> v])
  /\ UNCHANGED <<bound, applied, replica, cacheVars, req, runVars>>

(* The host is bound to another app, to none, or again.                    *)
Rebind(a) ==
  /\ Len(logs) < MaxChanges
  /\ bound # a
  /\ bound' = a
  /\ logs' = Append(logs, [table |-> "host", app |-> a, op |-> Op(bound, a),
                           field |-> NULL, value |-> NULL])
  /\ UNCHANGED <<db, applied, replica, cacheVars, req, runVars>>

(* The replica has the next change.                                        *)
Replicate ==
  /\ applied < Len(logs)
  /\ LET log == logs[applied + 1] IN
       replica' = IF log.table = "host" THEN [replica EXCEPT !.bound = log.app]
                  ELSE [replica EXCEPT !.db[log.app][log.table][log.field] = log.value]
  /\ applied' = applied + 1
  /\ UNCHANGED <<bound, db, logs, cacheVars, req, runVars>>

-----------------------------------------------------------------------------
(* A request.                                                              *)

Begin(r) ==
  /\ req[r].pc = "idle"
  /\ req' = [req EXCEPT ![r] =
       IF hostKey # NULL THEN [Idle EXCEPT !.pc = "check", !.app = hostKey]
       ELSE [Idle EXCEPT !.pc = "hostdb"]]
  /\ UNCHANGED <<dbVars, cacheVars, runVars>>

(* Redis does not know the host, or cannot be asked.                       *)
HostFromDatabase(r) ==
  /\ req[r].pc = "hostdb"
  /\ req' = [req EXCEPT ![r] =
       IF replica.bound = NULL THEN Idle
       ELSE [@ EXCEPT !.pc = "check", !.app = replica.bound]]
  /\ UNCHANGED <<dbVars, cacheVars, runVars>>

BugCheck(r) ==  \* one key is enough
  /\ req[r].pc = "check"
  /\ req' = [req EXCEPT ![r].pc =
       IF \E h \in Hashes : cache[req[r].app][h] # NULL THEN "hit" ELSE "miss"]
  /\ UNCHANGED <<dbVars, cacheVars, runVars>>

(* exists of every key of the app.                                         *)
Check(r) ==
  /\ req[r].pc = "check"
  /\ req' = [req EXCEPT ![r].pc =
       IF \A h \in Hashes : cache[req[r].app][h] # NULL THEN "hit" ELSE "miss"]
  /\ UNCHANGED <<dbVars, cacheVars, runVars>>

(* Key k is dealt with; after the last of them the request goes to pc.     *)
Advance(q, k, all, pc) ==
  IF all \subseteq q.done \cup {k} THEN [q EXCEPT !.done = {}, !.pc = pc]
                                 ELSE [q EXCEPT !.done = @ \cup {k}]

Reads(r, h, row, pc) ==
  req' = [req EXCEPT ![r] = Advance([req[r] EXCEPT !.info[h] = row], h, Hashes, pc)]

(* getAppCache reads the next hash; a key that is gone by now reads as one *)
(* without fields.                                                         *)
ReadCache(r) ==
  LET q == req[r] IN
  /\ q.pc = "hit"
  /\ \E h \in First(Hashes \ q.done, HitOrder) : Reads(r, h, cache[q.app][h], "answered")
  /\ UNCHANGED <<dbVars, cacheVars, runVars>>

(* getAppInfo reads the next hash from the replica.  Before the first it  *)
(* reads the app's first host, and fails when there is none.               *)
ReadDatabase(r) ==
  LET q == req[r] IN
  /\ q.pc = "miss"
  /\ IF q.done = {} /\ replica.bound # q.app /\ q.app \notin Elsewhere
       THEN req' = [req EXCEPT ![r] = Idle]
       ELSE \E h \in First(Hashes \ q.done, MissOrder) :
              Reads(r, h, replica.db[q.app][h], "fill")
  /\ UNCHANGED <<dbVars, cacheVars, runVars>>

BugMerge(row, add) ==  \* creates keys without fields
  IF row = NULL THEN IF add = NULL THEN Empty ELSE add
  ELSE [f \in Fields |-> IF add # NULL /\ add[f] # NULL THEN add[f] ELSE row[f]]

(* HSET and SADD add to what the key holds, and are skipped when there is  *)
(* nothing to add.                                                         *)
Merge(row, add) ==
  IF add \in {NULL, Empty} THEN row
  ELSE IF row = NULL THEN add
  ELSE [f \in Fields |-> IF add[f] # NULL THEN add[f] ELSE row[f]]

(* setAppCache, one key at a time: the host first (for fill, the first     *)
(* host of the app, which may be another), then the hashes.                *)
SetAppCache(r) ==
  LET q == req[r] IN
  /\ q.pc \in {"fill", "answered"}
  /\ \E k \in First(Keys \ q.done, HitOrder) :
       /\ \/ k = "host" /\ hostKey' = q.app /\ UNCHANGED cache
          \/ k = "host" /\ q.pc = "fill" /\ q.app \in Elsewhere /\ UNCHANGED cacheVars
          \/ /\ k # "host"
             /\ cache' = [cache EXCEPT ![q.app][k] = Merge(@, q.info[k])]
             /\ UNCHANGED hostKey
       /\ req' = [req EXCEPT ![r] =
            IF q.pc = "answered" /\ Keys \subseteq q.done \cup {k} THEN Idle
            ELSE Advance(q, k, Keys, "answered")]
  /\ UNCHANGED <<dbVars, runVars>>

(* A command fails.  Finding the host falls back on the database, reading  *)
(* the keys on the miss, filling them is given up before the answer and    *)
(* after it.                                                               *)
RedisFails(r) ==
  LET q == req[r] IN
  /\ \/ q.pc = "idle" /\ req' = [req EXCEPT ![r] = [Idle EXCEPT !.pc = "hostdb"]]
     \/ /\ q.pc \in {"check", "hit"}
        /\ req' = [req EXCEPT ![r] =
             [Idle EXCEPT !.pc = "miss", !.app = q.app]]
     \/ q.pc = "fill" /\ req' = [req EXCEPT ![r] = [@ EXCEPT !.pc = "answered", !.done = {}]]
     \/ q.pc = "answered" /\ req' = [req EXCEPT ![r] = Idle]
  /\ UNCHANGED <<dbVars, cacheVars, runVars>>

(* The database refuses a statement, or the process dies.                  *)
RequestDies(r) ==
  /\ req[r].pc # "idle"
  /\ req' = [req EXCEPT ![r] = Idle]
  /\ UNCHANGED <<dbVars, cacheVars, runVars>>

-----------------------------------------------------------------------------
(* Keys leave Redis.                                                       *)

DropHash(a, h) ==
  /\ cache' = [cache EXCEPT ![a][h] = NULL]
  /\ req' = [r \in Requests |->
       IF req[r].app = a /\ req[r].pc = "hit"
         THEN [req[r] EXCEPT !.dropped = @ \cup {h}] ELSE req[r]]

(* The hour of a key is over.                                              *)
Expire ==
  /\ \/ \E a \in Apps, h \in Hashes :
          cache[a][h] # NULL /\ DropHash(a, h) /\ UNCHANGED hostKey
     \/ hostKey # NULL /\ hostKey' = NULL /\ UNCHANGED <<cache, req>>
  /\ UNCHANGED <<dbVars, runVars>>

-----------------------------------------------------------------------------
(* The trigger runner, in one transaction.                                 *)

BugRunBegins ==  \* each log once: those since the newest trigger log
  LET todo == {i \in 1 .. Len(logs) :
                 /\ logs[i].table # "modules"
                 /\ reached # NULL => i > reached}
  IN /\ run = NULL /\ todo # {}
     /\ run' = [todo |-> todo, mark |-> NULL]
     /\ UNCHANGED <<dbVars, cacheVars, req, reached, failures>>

(* It selects logs up to the newest trigger log, or all that exist when    *)
(* there is none, in no order and at most Limit of them.                   *)
RunBegins ==
  LET upTo == IF reached = NULL THEN Len(logs) ELSE reached
      handled == {i \in 1 .. upTo : logs[i].table # "modules"}
  IN /\ run = NULL
     /\ \E todo \in SUBSET handled :
          /\ Cardinality(todo) <= Limit
          /\ Cardinality(todo) = Limit \/ todo = handled
          /\ todo # {}
          /\ run' = [todo |-> todo, mark |-> NULL]
     /\ UNCHANGED <<dbVars, cacheVars, req, reached, failures>>

(* The handler of one log deletes its key, unless the row was inserted,    *)
(* and saves a trigger log with the time of the worker.                    *)
RunHandles(i) ==
  /\ run # NULL /\ i \in run.todo
  /\ run' = [todo |-> run.todo \ {i}, mark |-> Len(logs)]
  /\ IF logs[i].op = "INSERT" THEN UNCHANGED <<cacheVars, req>>
     ELSE IF logs[i].table = "host" THEN hostKey' = NULL /\ UNCHANGED <<cache, req>>
     ELSE DropHash(logs[i].app, logs[i].table) /\ UNCHANGED hostKey
  /\ UNCHANGED <<dbVars, reached, failures>>

RunCommits ==
  /\ run # NULL /\ run.todo = {}
  /\ reached' = run.mark /\ run' = NULL
  /\ UNCHANGED <<dbVars, cacheVars, req, failures>>

(* A statement, a command or the worker fails: the trigger logs of the run *)
(* are rolled back, the deletions of keys are not.                         *)
RunFails ==
  /\ run # NULL /\ failures < MaxFailures
  /\ run' = NULL /\ failures' = failures + 1
  /\ UNCHANGED <<dbVars, cacheVars, req, reached>>

-----------------------------------------------------------------------------
RequestStep(r) ==
  \/ Begin(r) \/ HostFromDatabase(r) \/ Check(r) \/ ReadCache(r)
  \/ ReadDatabase(r) \/ SetAppCache(r) \/ RedisFails(r) \/ RequestDies(r)

RunStep == RunBegins \/ RunCommits \/ \E i \in 1 .. MaxChanges : RunHandles(i)

Next ==
  \/ \E e \in Edits, f \in Fields, v \in Values \cup {NULL} :
       ChangeRow(e[1], e[2], f, v)
  \/ \E a \in Apps \cup {NULL} : Rebind(a)
  \/ Replicate
  \/ \E r \in Requests : RequestStep(r)
  \/ Expire \/ RunStep \/ RunFails

(* The runner is scheduled again after every run (RunnerLifecycle shows    *)
(* that it keeps executing), and a run goes on.  Nothing is assumed of     *)
(* requests.                                                               *)
Spec == Init /\ [][Next]_vars /\ WF_vars(RunStep)

-----------------------------------------------------------------------------
(* The requests implement the directory.  What is known of a field is what *)
(* the database, the replica and its pending changes, the key and the      *)
(* requests hold of it: together they never learn a value but from the     *)
(* database, so an old one that has gone from them all stays gone, and     *)
(* every answer is made of such values.                                    *)
Pending == {logs[i] : i \in applied + 1 .. Len(logs)}

KnownOf(a, h, f) ==
  {db[a][h][f], replica.db[a][h][f]}
    \cup {log.value : log \in
            {l \in Pending : l.table = h /\ l.app = a /\ l.field = f}}
    \cup (IF cache[a][h] = NULL THEN {} ELSE {cache[a][h][f]})
    \cup {req[r].info[h][f] : r \in
            {q \in Requests : req[q].app = a /\ req[q].info[h] # NULL}}

HostsKnown ==
  {bound} \cup (({replica.bound, hostKey} \cup {req[r].app : r \in Requests}
                  \cup {l.app : l \in {k \in Pending : k.table = "host"}}) \ {NULL})

Reply(r) ==
  IF req[r].pc = "answered" THEN [app |-> req[r].app, info |-> req[r].info] ELSE NULL

Directory == INSTANCE AppDirectory WITH
  hosts <- HostsKnown,
  known <- [a \in Apps |-> [h \in Hashes |-> [f \in Fields |-> KnownOf(a, h, f)]]],
  missing <- [r \in Requests |-> req[r].dropped],
  answer <- [r \in Requests |-> Reply(r)]

ImplementsDirectory == Directory!Spec

(* Once requests stop coming, what was updated or deleted does not stay    *)
(* in Redis: whatever a late request wrote back, the runner deletes again, *)
(* since it takes old logs again (as long as they fit a batch).  A row     *)
(* that was inserted may stay missing, and modules stay as they are.       *)
Quiet == \A r \in Requests : req[r].pc = "idle"

NothingOutdated ==
  /\ hostKey \in {NULL, bound}
  /\ \A a \in Apps, h \in Logged : cache[a][h] # NULL =>
       \A f \in Fields : cache[a][h][f] \in {NULL, db[a][h][f]}

OutdatedLeaves == <>[]Quiet => <>[]NothingOutdated

=============================================================================

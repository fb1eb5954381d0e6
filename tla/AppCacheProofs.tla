--------------------------- MODULE AppCacheProofs ---------------------------
(***************************************************************************)
(* Proofs about AppCache, for any number of requests, apps and changes:    *)
(* its types, and that its requests implement the directory.               *)
(*                                                                         *)
(* The inductive invariant says what a request may rely on while it reads: *)
(* a hash it found in Redis is there until it has read it, unless somebody *)
(* deleted it meanwhile, and a request on the miss leaves no hash out.     *)
(***************************************************************************)
EXTENDS AppCache, TLAPS

(* The runner's batch and its marks lie within the table logs.             *)
Within ==
  /\ reached # NULL => reached <= Len(logs)
  /\ run # NULL =>
       /\ run.todo \subseteq 1 .. Len(logs)
       /\ run.mark # NULL => run.mark <= Len(logs)

Fresh(q) ==
  q.pc \in {"idle", "hostdb", "check"} =>
    q.info = Nothing /\ q.done = {} /\ q.dropped = {}

HasApp(q) == q.pc \notin {"idle", "hostdb"} => q.app \in Apps

HitKeeps(q) ==
  q.pc = "hit" => \A h \in Hashes :
    \/ h \in q.dropped
    \/ h \in q.done /\ q.info[h] # NULL
    \/ h \notin q.done /\ cache[q.app][h] # NULL

MissReads(q) ==
  q.pc = "miss" => \A h \in Hashes : h \in q.done => q.info[h] # NULL

FillHolds(q) == q.pc = "fill" => \A h \in Hashes : q.info[h] # NULL

Sound(q) == Fresh(q) /\ HasApp(q) /\ HitKeeps(q) /\ MissReads(q) /\ FillHolds(q)

Reading == \A r \in Requests : Sound(req[r])

IInv == TypeOK /\ Within /\ Reading

Kept == (Row \ {Empty}) \cup {NULL}

-----------------------------------------------------------------------------
(* What Merge returns: a row or nothing, never nothing for a row, and of   *)
(* each field one of the two values it was given.                          *)
LEMMA MergeKeeps ==
  ASSUME NEW row \in Kept, NEW add \in Row \cup {NULL}
  PROVE  /\ Merge(row, add) \in Kept
         /\ row # NULL => Merge(row, add) # NULL
         /\ \A f \in Fields : Merge(row, add) # NULL =>
              \/ row # NULL /\ Merge(row, add)[f] = row[f]
              \/ add # NULL /\ Merge(row, add)[f] = add[f]
<1>1. CASE add \in {NULL, Empty}
  BY <1>1 DEF Merge, Kept
<1>2. CASE add \notin {NULL, Empty} /\ row = NULL
  BY <1>2 DEF Merge, Kept
<1>3. CASE add \notin {NULL, Empty} /\ row # NULL
  <2> DEFINE both == [f \in Fields |-> IF add[f] # NULL THEN add[f] ELSE row[f]]
  <2>1. Merge(row, add) = both
    BY <1>3 DEF Merge
  <2>2. row \in Row /\ add \in Row
    BY <1>3 DEF Kept
  <2>3. both \in Row
    BY <2>2 DEF Row
  <2>4. PICK f \in Fields : row[f] # NULL
    BY <1>3, <2>2 DEF Kept, Row, Empty
  <2>5. both[f] # NULL
    BY <2>4
  <2>6. both # Empty
    BY <2>4, <2>5 DEF Empty
  <2>7. both # NULL
    BY <2>3, AppCacheAssumption
  <2>8. \A g \in Fields : both[g] = row[g] \/ both[g] = add[g]
    OBVIOUS
  <2> HIDE DEF both
  <2> QED
    BY <1>3, <2>1, <2>3, <2>6, <2>7, <2>8 DEF Kept
<1> QED
  BY <1>1, <1>2, <1>3

LEMMA IdleIsRequest == Idle \in Request /\ Idle.app = NULL /\ Idle.pc = "idle"
  /\ Idle.dropped = {} /\ Idle.done = {} /\ \A h \in Hashes : Idle.info[h] = NULL
BY DEF Idle, Request, Pcs, Info, Nothing

(* Advance moves a request on in a type-correct way.                       *)
LEMMA AdvanceIsRequest ==
  ASSUME NEW q \in Request, NEW k \in Keys, NEW all, NEW pc \in Pcs
  PROVE  /\ Advance(q, k, all, pc) \in Request
         /\ Advance(q, k, all, pc).app = q.app
         /\ Advance(q, k, all, pc).info = q.info
         /\ Advance(q, k, all, pc).dropped = q.dropped
         /\ Advance(q, k, all, pc).pc \in {q.pc, pc}
BY DEF Advance, Request

(* A request that has read a row holds it.                                 *)
LEMMA ReadIsRequest ==
  ASSUME NEW q \in Request, NEW h \in Hashes, NEW row \in Row \cup {NULL}
  PROVE  LET p == [q EXCEPT !.info[h] = row] IN
         /\ p \in Request
         /\ p.pc = q.pc /\ p.app = q.app /\ p.done = q.done /\ p.dropped = q.dropped
         /\ p.info[h] = row
         /\ \A g \in Hashes \ {h} : p.info[g] = q.info[g]
BY DEF Request, Info

-----------------------------------------------------------------------------
(* A step of one request: it becomes q, and the keys stay as they are.     *)
LEMMA RequestKeepsIInv ==
  ASSUME IInv, NEW r \in Requests, NEW q \in Request,
         req' = [req EXCEPT ![r] = q], UNCHANGED <<dbVars, cacheVars, runVars>>,
         Sound(q)
  PROVE  IInv'
<1> USE DEF IInv, dbVars, cacheVars, runVars
<1>1. TypeOK'
  BY DEF TypeOK
<1>2. Within'
  BY DEF Within
<1>3. Reading'
  <2> SUFFICES ASSUME NEW p \in Requests PROVE Sound(req[p])'
    BY DEF Reading
  <2>1. req'[p] = IF p = r THEN q ELSE req[p]
    BY DEF TypeOK
  <2> QED
    BY <2>1 DEF Reading, Sound, Fresh, HasApp, HitKeeps, MissReads, FillHolds
<1> QED
  BY <1>1, <1>2, <1>3

(* A deleted key is missed by those that still have to read it.            *)
LEMMA DropKeepsReading ==
  ASSUME TypeOK, Reading, NEW a, NEW h, DropHash(a, h)
  PROVE  /\ Reading'
         /\ cache' \in [Apps -> [Hashes -> Kept]]
         /\ h \in Hashes => req' \in [Requests -> Request]
<1> USE DEF DropHash
<1>1. cache \in [Apps -> [Hashes -> Kept]] /\ req \in [Requests -> Request]
  BY DEF TypeOK, Kept
<1>2. cache' \in [Apps -> [Hashes -> Kept]]
  BY <1>1 DEF Kept
<1>3. ASSUME h \in Hashes PROVE req' \in [Requests -> Request]
  BY <1>1, <1>3 DEF Request
<1>4. Reading'
  <2> SUFFICES ASSUME NEW p \in Requests PROVE Sound(req[p])'
    BY DEF Reading
  <2>1. /\ req'[p].pc = req[p].pc /\ req'[p].app = req[p].app
        /\ req'[p].info = req[p].info /\ req'[p].done = req[p].done
        /\ req[p].dropped \subseteq req'[p].dropped
        /\ req[p].pc = "hit" /\ req[p].app = a => h \in req'[p].dropped
        /\ req[p].pc # "hit" => req'[p].dropped = req[p].dropped
    BY <1>1 DEF Request
  <2>2. Fresh(req[p])' /\ HasApp(req[p])' /\ MissReads(req[p])' /\ FillHolds(req[p])'
    BY <2>1 DEF Reading, Sound, Fresh, HasApp, MissReads, FillHolds
  <2>3. ASSUME req[p].pc = "hit", NEW g \in Hashes
        PROVE \/ g \in req'[p].dropped
              \/ g \in req'[p].done /\ req'[p].info[g] # NULL
              \/ g \notin req'[p].done /\ cache'[req'[p].app][g] # NULL
    <3>1. req[p].app \in Apps
      BY <2>3 DEF Reading, Sound, HasApp
    <3>2. g \notin req'[p].dropped => cache'[req[p].app][g] = cache[req[p].app][g]
      BY <1>1, <2>1, <2>3, <3>1
    <3>3. \/ g \in req[p].dropped
          \/ g \in req[p].done /\ req[p].info[g] # NULL
          \/ g \notin req[p].done /\ cache[req[p].app][g] # NULL
      BY <2>3 DEF Reading, Sound, HitKeeps
    <3> QED
      BY <2>1, <3>2, <3>3
  <2> QED
    BY <2>1, <2>2, <2>3 DEF Sound, HitKeeps
<1> QED
  BY <1>2, <1>3, <1>4

-----------------------------------------------------------------------------
(* What is learned in a step.  Of each field the database side (its row,   *)
(* the replica and the changes on the way), the key and the requests hold  *)
(* values.                                                                 *)
InDatabase(a, h, f) ==
  {db[a][h][f], replica.db[a][h][f]}
    \cup {log.value : log \in
            {l \in Pending : l.table = h /\ l.app = a /\ l.field = f}}

InCache(a, h, f) == IF cache[a][h] = NULL THEN {} ELSE {cache[a][h][f]}

InRequests(a, h, f) ==
  {req[r].info[h][f] : r \in
     {q \in Requests : req[q].app = a /\ req[q].info[h] # NULL}}

LEMMA KnownSplits ==
  ASSUME NEW a, NEW h, NEW f
  PROVE  /\ KnownOf(a, h, f)
              = InDatabase(a, h, f) \cup InCache(a, h, f) \cup InRequests(a, h, f)
         /\ KnownOf(a, h, f)'
              = InDatabase(a, h, f)' \cup InCache(a, h, f)' \cup InRequests(a, h, f)'
BY DEF KnownOf, InDatabase, InCache, InRequests

LEMMA Learning ==
  ASSUME HostsKnown' \subseteq HostsKnown \cup {bound'},
         \A a \in Apps, h \in Hashes, f \in Fields :
           KnownOf(a, h, f)' \subseteq KnownOf(a, h, f) \cup {db'[a][h][f]}
  PROVE  Directory!LearnsFromDatabaseOnly
<1>1. bound' \in HostsKnown'
  BY DEF HostsKnown
<1>2. ASSUME NEW a \in Apps, NEW h \in Hashes, NEW f \in Fields
      PROVE db'[a][h][f] \in KnownOf(a, h, f)'
  BY DEF KnownOf
<1> QED
  BY <1>1, <1>2 DEF Directory!LearnsFromDatabaseOnly

(* A request that becomes q teaches nothing when its app and the fields it *)
(* holds were known.                                                       *)
LEMMA RequestLearns ==
  ASSUME TypeOK, NEW r \in Requests, NEW q,
         req' = [req EXCEPT ![r] = q], UNCHANGED <<dbVars, cacheVars>>,
         q.app # NULL => q.app \in HostsKnown,
         \A a \in Apps, h \in Hashes, f \in Fields :
           q.app = a /\ q.info[h] # NULL => q.info[h][f] \in KnownOf(a, h, f)
  PROVE  Directory!LearnsFromDatabaseOnly
<1> USE DEF dbVars, cacheVars
<1>1. \A p \in Requests : req'[p] = IF p = r THEN q ELSE req[p]
  BY DEF TypeOK
<1>2. HostsKnown' \subseteq HostsKnown \cup {bound'}
  <2>1. Pending' = Pending
    BY DEF Pending
  <2> QED
    BY <1>1, <2>1 DEF HostsKnown
<1>3. ASSUME NEW a \in Apps, NEW h \in Hashes, NEW f \in Fields
      PROVE KnownOf(a, h, f)' \subseteq KnownOf(a, h, f) \cup {db'[a][h][f]}
  <2>1. InDatabase(a, h, f)' = InDatabase(a, h, f)
    BY DEF InDatabase, Pending
  <2>2. InCache(a, h, f)' = InCache(a, h, f)
    BY DEF InCache
  <2>3. InRequests(a, h, f)' \subseteq InRequests(a, h, f) \cup KnownOf(a, h, f)
    BY <1>1 DEF InRequests
  <2> QED
    BY <2>1, <2>2, <2>3, KnownSplits
<1> QED
  BY <1>2, <1>3, Learning

(* What a request holds of its app is known.                               *)
LEMMA HeldIsKnown ==
  ASSUME TypeOK, NEW r \in Requests
  PROVE  /\ req[r].app # NULL => req[r].app \in HostsKnown
         /\ \A a \in Apps, h \in Hashes, f \in Fields :
              req[r].app = a /\ req[r].info[h] # NULL
                => req[r].info[h][f] \in KnownOf(a, h, f)
<1>1. ASSUME NEW a \in Apps, NEW h \in Hashes, NEW f \in Fields,
             req[r].app = a, req[r].info[h] # NULL
      PROVE req[r].info[h][f] \in KnownOf(a, h, f)
  BY <1>1, KnownSplits DEF InRequests
<1> QED
  BY <1>1 DEF HostsKnown

-----------------------------------------------------------------------------
(* How the steps of one request look to the directory.                     *)
LEMMA SeenAsFinish ==
  ASSUME TypeOK, NEW r \in Requests, NEW q, req' = [req EXCEPT ![r] = q],
         q.pc # "answered", q.dropped = {}, UNCHANGED <<bound, db>>,
         Directory!LearnsFromDatabaseOnly
  PROVE  Directory!Next
<1>1. \A p \in Requests : req'[p] = IF p = r THEN q ELSE req[p]
  BY DEF TypeOK
<1>2. \A p \in Requests : Reply(p)' = IF p = r THEN NULL ELSE Reply(p)
  BY <1>1 DEF Reply
<1>3. \A p \in Requests : req'[p].dropped = IF p = r THEN {} ELSE req[p].dropped
  BY <1>1
<1>4. Directory!Finish(r)
  BY <1>2, <1>3 DEF Directory!Finish
<1> QED
  BY <1>4 DEF Directory!Next

LEMMA SeenAsChange ==
  ASSUME TypeOK, NEW r \in Requests, NEW q, req' = [req EXCEPT ![r] = q],
         q.dropped = req[r].dropped,
         \/ q.pc # "answered" /\ req[r].pc # "answered"
         \/ q.pc = "answered" /\ req[r].pc = "answered"
              /\ q.app = req[r].app /\ q.info = req[r].info,
         Directory!LearnsFromDatabaseOnly
  PROVE  Directory!Next
<1>1. \A p \in Requests : req'[p] = IF p = r THEN q ELSE req[p]
  BY DEF TypeOK
<1>2. \A p \in Requests : Reply(p)' = Reply(p)
  BY <1>1 DEF Reply
<1>3. \A p \in Requests : req'[p].dropped = req[p].dropped
  BY <1>1
<1>4. Directory!Change
  BY <1>2, <1>3 DEF Directory!Change
<1> QED
  BY <1>4 DEF Directory!Next

LEMMA SeenAsAnswer ==
  ASSUME TypeOK, NEW r \in Requests, NEW q \in Request, req' = [req EXCEPT ![r] = q],
         UNCHANGED <<bound, db>>,
         req[r].pc # "answered", q.pc = "answered", q.dropped = req[r].dropped,
         q.app \in Apps, q.app \in HostsKnown,
         \A h \in Hashes :
           \/ /\ q.info[h] # NULL
              /\ \A f \in Fields : q.info[h][f] \in KnownOf(q.app, h, f)
           \/ q.info[h] = NULL /\ h \in q.dropped,
         Directory!LearnsFromDatabaseOnly
  PROVE  Directory!Next
<1>1. \A p \in Requests : req'[p] = IF p = r THEN q ELSE req[p]
  BY DEF TypeOK
<1> DEFINE reply == [app |-> q.app, info |-> q.info]
<1>2. Reply(r) = NULL /\ Reply(r)' = reply
  BY <1>1 DEF Reply
<1>3. reply \in [app: Apps, info: Info]
  BY DEF Request
<1>4. reply # NULL
  BY <1>3, AppCacheAssumption
<1>5. \A p \in Requests \ {r} : Reply(p)' = Reply(p)
  BY <1>1 DEF Reply
<1>6. \A p \in Requests : req'[p].dropped = req[p].dropped
  BY <1>1
<1>7. Directory!Answerable(r, reply)
  BY DEF Directory!Answerable
<1>8. Directory!Answer(r)
  <2> HIDE DEF reply
  <2> QED
    BY <1>2, <1>4, <1>5, <1>6, <1>7 DEF Directory!Answer
<1> QED
  BY <1>8 DEF Directory!Next

-----------------------------------------------------------------------------
(* The steps of a request that leave the keys alone.                       *)

(* It ends, or begins, holding nothing.                                    *)
LEMMA Blank ==
  ASSUME IInv, NEW r \in Requests, NEW q \in Request, req' = [req EXCEPT ![r] = q],
         UNCHANGED <<dbVars, cacheVars, runVars>>,
         q.pc \in {"idle", "hostdb", "check", "miss"},
         q.info = Nothing, q.done = {}, q.dropped = {},
         q.app # NULL => q.app \in HostsKnown,
         q.pc \in {"check", "miss"} => q.app \in Apps
  PROVE  IInv' /\ Directory!Next
<1>1. IInv'
  BY RequestKeepsIInv DEF Sound, Fresh, HasApp, HitKeeps, MissReads, FillHolds
<1>2. Directory!LearnsFromDatabaseOnly
  BY RequestLearns DEF IInv, Nothing
<1>3. Directory!Next
  BY <1>2, SeenAsFinish DEF IInv, dbVars
<1> QED
  BY <1>1, <1>3

LEMMA BeginStep ==
  ASSUME IInv, NEW r \in Requests, Begin(r)
  PROVE  IInv' /\ Directory!Next
<1> DEFINE q == IF hostKey # NULL THEN [Idle EXCEPT !.pc = "check", !.app = hostKey]
                ELSE [Idle EXCEPT !.pc = "hostdb"]
<1>1. hostKey \in Apps \cup {NULL} /\ (hostKey # NULL => hostKey \in HostsKnown)
  BY DEF IInv, TypeOK, HostsKnown
<1>2. /\ q \in Request /\ q.info = Nothing /\ q.done = {} /\ q.dropped = {}
      /\ q.pc \in {"hostdb", "check"}
      /\ q.app # NULL => q.app = hostKey
      /\ q.pc = "check" => q.app = hostKey /\ hostKey # NULL
  BY <1>1 DEF Idle, Request, Pcs, Info, Nothing
<1>3. req' = [req EXCEPT ![r] = q] /\ UNCHANGED <<dbVars, cacheVars, runVars>>
  BY DEF Begin
<1> HIDE DEF q
<1> QED
  BY <1>1, <1>2, <1>3, Blank

LEMMA HostFromDatabaseStep ==
  ASSUME IInv, NEW r \in Requests, HostFromDatabase(r)
  PROVE  IInv' /\ Directory!Next
<1> DEFINE q == IF replica.bound = NULL THEN Idle
                ELSE [req[r] EXCEPT !.pc = "check", !.app = replica.bound]
<1>1. req[r] \in Request /\ req[r].pc = "hostdb" /\ replica.bound \in Apps \cup {NULL}
  BY DEF IInv, TypeOK, HostFromDatabase
<1>2. replica.bound # NULL => replica.bound \in HostsKnown
  BY DEF HostsKnown
<1>3. req' = [req EXCEPT ![r] = q] /\ UNCHANGED <<dbVars, cacheVars, runVars>>
  BY DEF HostFromDatabase
<1>4. CASE replica.bound = NULL
  BY <1>3, <1>4, IdleIsRequest, Blank DEF Idle
<1>5. CASE replica.bound # NULL
  <2>1. req[r].info = Nothing /\ req[r].done = {} /\ req[r].dropped = {}
    BY <1>1 DEF IInv, Reading, Sound, Fresh
  <2>2. /\ q \in Request /\ q.info = Nothing /\ q.done = {} /\ q.dropped = {}
        /\ q.pc = "check" /\ q.app = replica.bound
    BY <1>1, <1>5, <2>1 DEF Request, Pcs
  <2> HIDE DEF q
  <2> QED
    BY <1>1, <1>2, <1>3, <1>5, <2>2, Blank
<1> QED
  BY <1>4, <1>5

LEMMA CheckStep ==
  ASSUME IInv, NEW r \in Requests, Check(r)
  PROVE  IInv' /\ Directory!Next
<1> DEFINE all == \A h \in Hashes : cache[req[r].app][h] # NULL
           q == [req[r] EXCEPT !.pc = IF all THEN "hit" ELSE "miss"]
<1>1. req[r] \in Request /\ req[r].pc = "check"
  BY DEF IInv, TypeOK, Check
<1>2. req[r].info = Nothing /\ req[r].done = {} /\ req[r].dropped = {} /\ req[r].app \in Apps
  BY <1>1 DEF IInv, Reading, Sound, Fresh, HasApp
<1>3. req' = [req EXCEPT ![r] = q] /\ UNCHANGED <<dbVars, cacheVars, runVars>>
  BY <1>1 DEF Check, IInv, TypeOK
<1>4. /\ q \in Request /\ q.info = Nothing /\ q.done = {} /\ q.dropped = {}
      /\ q.app = req[r].app /\ q.pc \in {"hit", "miss"} /\ (q.pc = "hit" => all)
  BY <1>1, <1>2 DEF Request, Pcs
<1> HIDE DEF q
<1>5. IInv'
  BY <1>2, <1>3, <1>4, RequestKeepsIInv
     DEF Sound, Fresh, HasApp, HitKeeps, MissReads, FillHolds
<1>6. Directory!LearnsFromDatabaseOnly
  BY <1>3, <1>4, RequestLearns, HeldIsKnown DEF IInv, Nothing
<1>7. Directory!Next
  BY <1>1, <1>2, <1>3, <1>4, <1>6, SeenAsChange DEF IInv
<1> QED
  BY <1>5, <1>7

LEMMA RequestDiesStep ==
  ASSUME IInv, NEW r \in Requests, RequestDies(r)
  PROVE  IInv' /\ Directory!Next
BY IdleIsRequest, Blank DEF RequestDies, Idle

(* ReadCache and ReadDatabase: p has read hash h, and then moves to pc     *)
(* when that was the last.                                                 *)
LEMMA ReadStep ==
  ASSUME IInv, NEW r \in Requests, NEW h \in Hashes, NEW row \in Row \cup {NULL},
         NEW pc \in {"fill", "answered"}, Reads(r, h, row, pc),
         UNCHANGED <<dbVars, cacheVars, runVars>>,
         h \notin req[r].done,
         \/ /\ req[r].pc = "hit" /\ pc = "answered"
            /\ row = cache[req[r].app][h]
         \/ /\ req[r].pc = "miss" /\ pc = "fill"
            /\ row = replica.db[req[r].app][h]
  PROVE  IInv' /\ Directory!Next
<1> DEFINE p == [req[r] EXCEPT !.info[h] = row]
           q == Advance(p, h, Hashes, pc)
           last == Hashes \subseteq req[r].done \cup {h}
<1>1. req[r] \in Request
  BY DEF IInv, TypeOK
<1>2. req[r].app \in Apps
  BY DEF IInv, Reading, Sound, HasApp
<1>3. /\ p \in Request
      /\ p.pc = req[r].pc /\ p.app = req[r].app /\ p.done = req[r].done
      /\ p.dropped = req[r].dropped /\ p.info[h] = row
      /\ \A g \in Hashes \ {h} : p.info[g] = req[r].info[g]
  BY <1>1, ReadIsRequest
<1>4. req' = [req EXCEPT ![r] = q]
  BY DEF Reads
<1> HIDE DEF p
<1>5. /\ q \in Request /\ q.app = p.app /\ q.info = p.info /\ q.dropped = p.dropped
      /\ q.pc = IF last THEN pc ELSE p.pc
      /\ q.done = IF last THEN {} ELSE p.done \cup {h}
  BY <1>3 DEF Advance, Request, Pcs, Keys
<1>6. q.app = req[r].app /\ q.dropped = req[r].dropped /\ q.info[h] = row
      /\ \A g \in Hashes \ {h} : q.info[g] = req[r].info[g]
  BY <1>3, <1>5
<1>7. q.pc = (IF last THEN pc ELSE req[r].pc) /\ q.done = (IF last THEN {} ELSE req[r].done \cup {h})
  BY <1>3, <1>5
<1>8. q \in Request
  BY <1>5
<1> HIDE DEF q
<1>9. CASE req[r].pc = "hit"
  <2>1. row # NULL \/ h \in req[r].dropped
    BY <1>9 DEF IInv, Reading, Sound, HitKeeps
  <2>2. \A g \in Hashes : g \in req[r].done => g \in req[r].dropped \/ req[r].info[g] # NULL
    BY <1>9 DEF IInv, Reading, Sound, HitKeeps
  <2>3. \A g \in Hashes : g \notin req[r].done => g \in req[r].dropped \/ cache[req[r].app][g] # NULL
    BY <1>9 DEF IInv, Reading, Sound, HitKeeps
  <2>4. HitKeeps(q)
    BY <1>6, <1>7, <1>9, <2>1, <2>2, <2>3 DEF HitKeeps
  <2>5. IInv'
    <3>1. Sound(q)
      BY <1>2, <1>6, <1>7, <1>9, <2>4 DEF Sound, Fresh, HasApp, MissReads, FillHolds
    <3> QED
      BY <1>4, <1>8, <3>1, RequestKeepsIInv
  <2>6. \A a \in Apps, g \in Hashes, f \in Fields :
          q.app = a /\ q.info[g] # NULL => q.info[g][f] \in KnownOf(a, g, f)
    <3>1. ASSUME NEW f \in Fields, row # NULL PROVE row[f] \in KnownOf(req[r].app, h, f)
      BY <1>9, <3>1, KnownSplits DEF InCache
    <3>2. TypeOK
      BY DEF IInv
    <3> QED
      BY <1>6, <3>1, <3>2, HeldIsKnown
  <2>7. q.app # NULL /\ q.app \in HostsKnown
    BY <1>2, <1>6, AppCacheAssumption, HeldIsKnown DEF IInv
  <2>8. Directory!LearnsFromDatabaseOnly
    BY <1>4, <2>6, <2>7, RequestLearns DEF IInv
  <2>9. CASE last
    <3>1. \A g \in Hashes : q.info[g] = NULL => g \in q.dropped
      BY <1>6, <2>1, <2>2, <2>9
    <3>2. \A g \in Hashes :
           \/ /\ q.info[g] # NULL
              /\ \A f \in Fields : q.info[g][f] \in KnownOf(q.app, g, f)
           \/ q.info[g] = NULL /\ g \in q.dropped
      BY <1>2, <1>6, <2>6, <3>1
    <3> QED
      BY <1>2, <1>4, <1>6, <1>7, <1>8, <1>9, <2>5, <2>7, <2>8, <2>9, <3>2, SeenAsAnswer
         DEF IInv, dbVars
  <2>10. CASE ~last
    BY <1>4, <1>6, <1>7, <1>9, <2>5, <2>8, <2>10, SeenAsChange DEF IInv
  <2> QED
    BY <2>9, <2>10
<1>10. CASE req[r].pc = "miss"
  <2>1. row \in Row /\ row # NULL
    BY <1>2, <1>10, AppCacheAssumption DEF IInv, TypeOK
  <2>2. \A g \in Hashes : g \in req[r].done => req[r].info[g] # NULL
    BY <1>10 DEF IInv, Reading, Sound, MissReads
  <2>3. MissReads(q) /\ FillHolds(q)
    BY <1>6, <1>7, <1>10, <2>1, <2>2 DEF MissReads, FillHolds
  <2>4. IInv'
    <3>1. Sound(q)
      BY <1>2, <1>6, <1>7, <1>10, <2>3 DEF Sound, Fresh, HasApp, HitKeeps
    <3> QED
      BY <1>4, <1>8, <3>1, RequestKeepsIInv
  <2>5. \A a \in Apps, g \in Hashes, f \in Fields :
          q.app = a /\ q.info[g] # NULL => q.info[g][f] \in KnownOf(a, g, f)
    <3>1. ASSUME NEW f \in Fields PROVE row[f] \in KnownOf(req[r].app, h, f)
      BY <1>10, <3>1, KnownSplits DEF InDatabase
    <3>2. TypeOK
      BY DEF IInv
    <3> QED
      BY <1>6, <3>1, <3>2, HeldIsKnown
  <2>6. q.app # NULL => q.app \in HostsKnown
    BY <1>2, <1>6, AppCacheAssumption, HeldIsKnown DEF IInv
  <2>7. Directory!LearnsFromDatabaseOnly
    BY <1>4, <2>5, <2>6, RequestLearns DEF IInv
  <2> QED
    BY <1>4, <1>6, <1>7, <1>10, <2>4, <2>7, SeenAsChange DEF IInv
<1> QED
  BY <1>9, <1>10

LEMMA ReadCacheStep ==
  ASSUME IInv, NEW r \in Requests, ReadCache(r)
  PROVE  IInv' /\ Directory!Next
<1>1. PICK h \in Hashes \ req[r].done : Reads(r, h, cache[req[r].app][h], "answered")
  BY DEF ReadCache, First
<1>2. req[r].pc = "hit" /\ UNCHANGED <<dbVars, cacheVars, runVars>>
  BY DEF ReadCache
<1>3. cache[req[r].app][h] \in Row \cup {NULL}
  <2>1. req[r].app \in Apps
    BY <1>2 DEF IInv, Reading, Sound, HasApp
  <2>2. cache \in [Apps -> [Hashes -> Kept]]
    BY DEF IInv, TypeOK, Kept
  <2> QED
    BY <2>1, <2>2 DEF Kept
<1> QED
  BY <1>1, <1>2, <1>3, ReadStep

LEMMA ReadDatabaseStep ==
  ASSUME IInv, NEW r \in Requests, ReadDatabase(r)
  PROVE  IInv' /\ Directory!Next
<1>1. req[r].pc = "miss" /\ UNCHANGED <<dbVars, cacheVars, runVars>>
  BY DEF ReadDatabase
<1>2. CASE req' = [req EXCEPT ![r] = Idle]
  BY <1>1, <1>2, IdleIsRequest, Blank DEF Idle
<1>3. CASE \E h \in First(Hashes \ req[r].done, MissOrder) :
             Reads(r, h, replica.db[req[r].app][h], "fill")
  <2>1. PICK h \in Hashes \ req[r].done : Reads(r, h, replica.db[req[r].app][h], "fill")
    BY <1>3 DEF First
  <2>2. replica.db[req[r].app][h] \in Row \cup {NULL}
    BY <1>1 DEF IInv, TypeOK, Reading, Sound, HasApp
  <2> QED
    BY <1>1, <2>1, <2>2, ReadStep
<1> QED
  BY <1>2, <1>3 DEF ReadDatabase

LEMMA RedisFailsStep ==
  ASSUME IInv, NEW r \in Requests, RedisFails(r)
  PROVE  IInv' /\ Directory!Next
<1>1. UNCHANGED <<dbVars, cacheVars, runVars>> /\ req[r] \in Request
  BY DEF RedisFails, IInv, TypeOK
<1>2. CASE req[r].pc = "idle" /\ req' = [req EXCEPT ![r] = [Idle EXCEPT !.pc = "hostdb"]]
  <2> DEFINE q == [Idle EXCEPT !.pc = "hostdb"]
  <2>1. /\ q \in Request /\ q.info = Nothing /\ q.done = {} /\ q.dropped = {}
        /\ q.pc = "hostdb" /\ q.app = NULL
    BY DEF Idle, Request, Pcs, Info, Nothing
  <2> HIDE DEF q
  <2> QED
    BY <1>1, <1>2, <2>1, Blank DEF q
<1>3. CASE /\ req[r].pc \in {"check", "hit"}
           /\ req' = [req EXCEPT ![r] = [Idle EXCEPT !.pc = "miss", !.app = req[r].app]]
  <2> DEFINE q == [Idle EXCEPT !.pc = "miss", !.app = req[r].app]
  <2>1. req[r].app \in Apps
    BY <1>3 DEF IInv, Reading, Sound, HasApp
  <2>2. /\ q \in Request /\ q.info = Nothing /\ q.done = {} /\ q.dropped = {}
        /\ q.pc = "miss" /\ q.app = req[r].app
    BY <2>1 DEF Idle, Request, Pcs, Info, Nothing
  <2>3. q.app # NULL => q.app \in HostsKnown
    BY <2>2, HeldIsKnown DEF IInv
  <2>4. req' = [req EXCEPT ![r] = q]
    BY <1>3
  <2> HIDE DEF q
  <2> QED
    BY <1>1, <2>1, <2>2, <2>3, <2>4, Blank
<1>4. CASE /\ req[r].pc = "fill"
           /\ req' = [req EXCEPT ![r] = [@ EXCEPT !.pc = "answered", !.done = {}]]
  <2> DEFINE q == [req[r] EXCEPT !.pc = "answered", !.done = {}]
  <2>1. req' = [req EXCEPT ![r] = q]
    BY <1>4 DEF IInv, TypeOK
  <2>2. /\ q \in Request /\ q.info = req[r].info /\ q.dropped = req[r].dropped
        /\ q.pc = "answered" /\ q.app = req[r].app
    BY <1>1 DEF Request, Pcs
  <2> HIDE DEF q
  <2>3. req[r].app \in Apps /\ \A h \in Hashes : req[r].info[h] # NULL
    BY <1>4 DEF IInv, Reading, Sound, HasApp, FillHolds
  <2>4. IInv'
    BY <1>1, <2>1, <2>2, <2>3, RequestKeepsIInv
       DEF Sound, Fresh, HasApp, HitKeeps, MissReads, FillHolds
  <2>5. q.app \in HostsKnown /\ Directory!LearnsFromDatabaseOnly
    BY <1>1, <2>1, <2>2, <2>3, AppCacheAssumption, HeldIsKnown, RequestLearns DEF IInv
  <2>6. \A h \in Hashes : /\ q.info[h] # NULL
                         /\ \A f \in Fields : q.info[h][f] \in KnownOf(q.app, h, f)
    BY <2>2, <2>3, HeldIsKnown DEF IInv
  <2>7. Directory!Next
    BY <1>1, <1>4, <2>1, <2>2, <2>3, <2>5, <2>6, SeenAsAnswer DEF IInv, dbVars
  <2> QED
    BY <2>4, <2>7
<1>5. CASE req[r].pc = "answered" /\ req' = [req EXCEPT ![r] = Idle]
  BY <1>1, <1>5, IdleIsRequest, Blank DEF Idle
<1> QED
  BY <1>2, <1>3, <1>4, <1>5 DEF RedisFails

-----------------------------------------------------------------------------
(* A request writes what it holds, key by key: what the key then holds was *)
(* in it or in the request, and a key that exists stays.                   *)
LEMMA Filling ==
  ASSUME IInv, NEW r \in Requests, SetAppCache(r)
  PROVE  /\ req[r].app \in Apps
         /\ hostKey' \in {hostKey, req[r].app}
         /\ cache' \in [Apps -> [Hashes -> Kept]]
         /\ \A a \in Apps, h \in Hashes :
              /\ cache[a][h] # NULL => cache'[a][h] # NULL
              /\ \A f \in Fields :
                   InCache(a, h, f)' \subseteq InCache(a, h, f) \cup InRequests(a, h, f)
<1>1. req[r].pc \in {"fill", "answered"}
  BY DEF SetAppCache
<1>2. req[r].app \in Apps /\ req[r] \in Request
  BY <1>1 DEF IInv, TypeOK, Reading, Sound, HasApp
<1>3. cache \in [Apps -> [Hashes -> Kept]]
  BY DEF IInv, TypeOK, Kept
<1>4. CASE UNCHANGED cache /\ hostKey' \in {hostKey, req[r].app}
  BY <1>2, <1>3, <1>4 DEF InCache
<1>5. ASSUME NEW k \in Hashes,
             cache' = [cache EXCEPT ![req[r].app][k] = Merge(@, req[r].info[k])],
             UNCHANGED hostKey
      PROVE  /\ cache' \in [Apps -> [Hashes -> Kept]]
             /\ \A a \in Apps, h \in Hashes :
                  /\ cache[a][h] # NULL => cache'[a][h] # NULL
                  /\ \A f \in Fields :
                       InCache(a, h, f)' \subseteq InCache(a, h, f) \cup InRequests(a, h, f)
  <2> DEFINE old == cache[req[r].app][k]
             add == req[r].info[k]
             new == Merge(old, add)
  <2>1. old \in Kept /\ add \in Row \cup {NULL}
    BY <1>2, <1>3 DEF Request, Info
  <2>2. /\ new \in Kept
        /\ old # NULL => new # NULL
        /\ \A f \in Fields : new # NULL =>
             \/ old # NULL /\ new[f] = old[f]
             \/ add # NULL /\ new[f] = add[f]
    BY <2>1, MergeKeeps
  <2>3. \A a \in Apps, h \in Hashes :
          cache'[a][h] = IF a = req[r].app /\ h = k THEN new ELSE cache[a][h]
    BY <1>2, <1>3, <1>5
  <2>4. cache' \in [Apps -> [Hashes -> Kept]]
    BY <1>2, <1>3, <1>5, <2>2
  <2> HIDE DEF new
  <2>5. ASSUME NEW a \in Apps, NEW h \in Hashes
        PROVE  /\ cache[a][h] # NULL => cache'[a][h] # NULL
               /\ \A f \in Fields :
                    InCache(a, h, f)' \subseteq InCache(a, h, f) \cup InRequests(a, h, f)
    <3>1. CASE a = req[r].app /\ h = k
      BY <2>2, <2>3, <3>1 DEF InCache, InRequests
    <3>2. CASE ~(a = req[r].app /\ h = k)
      BY <2>3, <3>2 DEF InCache
    <3> QED
      BY <3>1, <3>2
  <2> QED
    BY <2>4, <2>5
<1>6. PICK k \in Keys :
        \/ k = "host" /\ hostKey' = req[r].app /\ UNCHANGED cache
        \/ k = "host" /\ UNCHANGED cacheVars
        \/ /\ k # "host"
           /\ cache' = [cache EXCEPT ![req[r].app][k] = Merge(@, req[r].info[k])]
           /\ UNCHANGED hostKey
  BY DEF SetAppCache, First
<1> QED
  BY <1>2, <1>4, <1>5, <1>6 DEF Keys, cacheVars

LEMMA SetAppCacheStep ==
  ASSUME IInv, NEW r \in Requests, SetAppCache(r)
  PROVE  IInv' /\ Directory!Next
<1>1. req[r].pc \in {"fill", "answered"} /\ UNCHANGED <<dbVars, runVars>>
  BY DEF SetAppCache
<1>2. req[r] \in Request /\ req[r].app \in Apps
  BY <1>1 DEF IInv, TypeOK, Reading, Sound, HasApp
<1>3. PICK q \in Request :
        /\ req' = [req EXCEPT ![r] = q]
        /\ \/ q = Idle /\ req[r].pc = "answered"
           \/ /\ q.app = req[r].app /\ q.info = req[r].info /\ q.dropped = req[r].dropped
              /\ q.pc \in {req[r].pc, "answered"}
  <2>1. PICK k \in Keys : req' = [req EXCEPT ![r] =
          IF req[r].pc = "answered" /\ Keys \subseteq req[r].done \cup {k} THEN Idle
          ELSE Advance(req[r], k, Keys, "answered")]
    BY DEF SetAppCache, First
  <2>2. "answered" \in Pcs
    BY DEF Pcs
  <2> QED
    BY <1>2, <2>1, <2>2, IdleIsRequest, AdvanceIsRequest
<1>4. \A p \in Requests : req'[p] = IF p = r THEN q ELSE req[p]
  BY <1>3 DEF IInv, TypeOK
<1>5. IInv'
  <2>1. TypeOK'
    <3>1. hostKey' \in Apps \cup {NULL} /\ cache' \in [Apps -> [Hashes -> Kept]]
      BY Filling DEF IInv, TypeOK
    <3>2. req' \in [Requests -> Request]
      BY <1>3 DEF IInv, TypeOK
    <3> QED
      BY <1>1, <3>1, <3>2 DEF IInv, TypeOK, dbVars, runVars, Kept
  <2>2. Within'
    BY <1>1 DEF IInv, Within, dbVars, runVars
  <2>3. ASSUME NEW p \in Requests PROVE Sound(req[p])'
    <3>1. CASE p # r
      <4>1. Sound(req[p]) /\ req'[p] = req[p]
        BY <1>4, <3>1 DEF IInv, Reading
      <4> QED
        BY <4>1, Filling DEF Sound, Fresh, HasApp, HitKeeps, MissReads, FillHolds
    <3>2. CASE p = r
      <4>1. req'[p] = q
        BY <1>4, <3>2
      <4>2. CASE q = Idle
        BY <4>1, <4>2 DEF Idle, Sound, Fresh, HasApp, HitKeeps, MissReads, FillHolds
      <4>3. CASE q # Idle
        BY <1>1, <1>2, <1>3, <4>1, <4>3
           DEF IInv, Reading, Sound, Fresh, HasApp, HitKeeps, MissReads, FillHolds
      <4> QED
        BY <4>2, <4>3
    <3> QED
      BY <3>1, <3>2
  <2> QED
    BY <2>1, <2>2, <2>3 DEF IInv, Reading
<1>6. Directory!LearnsFromDatabaseOnly
  <2>1. req[r].app \in HostsKnown
    BY <1>2, AppCacheAssumption, HeldIsKnown DEF IInv
  <2>2. HostsKnown' \subseteq HostsKnown \cup {bound'}
    <3>1. Pending' = Pending
      BY <1>1 DEF Pending, dbVars
    <3>2. \A p \in Requests : req'[p].app \in {req[p].app, NULL}
      BY <1>3, <1>4, IdleIsRequest
    <3>3. hostKey' \in {hostKey, req[r].app}
      BY Filling
    <3> QED
      BY <1>1, <2>1, <3>1, <3>2, <3>3 DEF HostsKnown, dbVars
  <2>3. ASSUME NEW a \in Apps, NEW h \in Hashes, NEW f \in Fields
        PROVE KnownOf(a, h, f)' \subseteq KnownOf(a, h, f) \cup {db'[a][h][f]}
    <3>1. InDatabase(a, h, f)' = InDatabase(a, h, f)
      BY <1>1 DEF InDatabase, Pending, dbVars
    <3>2. InCache(a, h, f)' \subseteq InCache(a, h, f) \cup InRequests(a, h, f)
      BY Filling
    <3>3. InRequests(a, h, f)' \subseteq InRequests(a, h, f)
      <4>1. \A p \in Requests : \/ req'[p].app = req[p].app /\ req'[p].info = req[p].info
                               \/ req'[p].info[h] = NULL
        BY <1>3, <1>4, IdleIsRequest
      <4> QED
        BY <4>1 DEF InRequests
    <3> QED
      BY <3>1, <3>2, <3>3, KnownSplits
  <2> QED
    BY <2>2, <2>3, Learning
<1>7. Directory!Next
  <2>1. UNCHANGED <<bound, db>>
    BY <1>1 DEF dbVars
  <2>2. CASE q = Idle
    BY <1>3, <1>6, <2>1, <2>2, IdleIsRequest, SeenAsFinish DEF IInv
  <2>3. CASE q # Idle /\ q.pc = req[r].pc
    BY <1>1, <1>3, <1>6, <2>3, SeenAsChange DEF IInv
  <2>4. CASE q # Idle /\ q.pc # req[r].pc
    <3>1. req[r].pc = "fill" /\ q.pc = "answered"
      BY <1>1, <1>3, <2>4
    <3>2. \A h \in Hashes : q.info[h] # NULL
      BY <1>3, <2>4, <3>1 DEF IInv, Reading, Sound, FillHolds
    <3>3. q.app \in HostsKnown
      BY <1>2, <1>3, <2>4, AppCacheAssumption, HeldIsKnown DEF IInv
    <3>4. \A h \in Hashes, f \in Fields : q.info[h][f] \in KnownOf(q.app, h, f)
      BY <1>2, <1>3, <2>4, <3>2, HeldIsKnown DEF IInv
    <3> QED
      BY <1>2, <1>3, <1>6, <2>1, <2>4, <3>1, <3>2, <3>3, <3>4, SeenAsAnswer DEF IInv
  <2> QED
    BY <2>2, <2>3, <2>4
<1> QED
  BY <1>5, <1>7

-----------------------------------------------------------------------------
(* Keys leave Redis, by their age or by the runner.                        *)
LEMMA ForgettingStep ==
  ASSUME IInv, NEW a, NEW h \in Hashes, UNCHANGED dbVars,
         hostKey' \in {hostKey, NULL},
         \/ DropHash(a, h)
         \/ UNCHANGED <<cache, req>>
  PROVE  /\ hostKey' \in Apps \cup {NULL}
         /\ cache' \in [Apps -> [Hashes -> Kept]] /\ req' \in [Requests -> Request]
         /\ Reading' /\ Directory!Next
<1>1. /\ hostKey' \in Apps \cup {NULL} /\ Reading'
      /\ cache' \in [Apps -> [Hashes -> Kept]] /\ req' \in [Requests -> Request]
  <2>1. hostKey' \in Apps \cup {NULL}
    BY DEF IInv, TypeOK
  <2>2. CASE DropHash(a, h)
    BY <2>1, <2>2, DropKeepsReading DEF IInv
  <2>3. CASE UNCHANGED <<cache, req>>
    BY <2>1, <2>3 DEF IInv, TypeOK, Kept, Reading, Sound, Fresh, HasApp, HitKeeps,
                     MissReads, FillHolds
  <2> QED
    BY <2>2, <2>3
<1>2. \A p \in Requests :
        /\ req'[p].pc = req[p].pc /\ req'[p].app = req[p].app /\ req'[p].info = req[p].info
        /\ req[p].dropped \subseteq req'[p].dropped
        /\ req'[p].dropped \subseteq req[p].dropped \cup {h}
  <2>1. req \in [Requests -> Request]
    BY DEF IInv, TypeOK
  <2>2. CASE DropHash(a, h)
    BY <2>1, <2>2 DEF DropHash, Request
  <2> QED
    BY <2>2
<1>3. \A b \in Apps, g \in Hashes : cache'[b][g] \in {cache[b][g], NULL}
  <2>1. cache \in [Apps -> [Hashes -> Kept]]
    BY DEF IInv, TypeOK, Kept
  <2> QED
    BY <2>1 DEF DropHash
<1>4. Directory!LearnsFromDatabaseOnly
  <2>1. HostsKnown' \subseteq HostsKnown \cup {bound'}
    BY <1>2 DEF HostsKnown, Pending, dbVars
  <2>2. ASSUME NEW b \in Apps, NEW g \in Hashes, NEW f \in Fields
        PROVE KnownOf(b, g, f)' \subseteq KnownOf(b, g, f) \cup {db'[b][g][f]}
    <3>1. InDatabase(b, g, f)' = InDatabase(b, g, f)
      BY DEF InDatabase, Pending, dbVars
    <3>2. InCache(b, g, f)' \subseteq InCache(b, g, f)
      BY <1>3 DEF InCache
    <3>3. InRequests(b, g, f)' \subseteq InRequests(b, g, f)
      BY <1>2 DEF InRequests
    <3> QED
      BY <3>1, <3>2, <3>3, KnownSplits
  <2> QED
    BY <2>1, <2>2, Learning
<1>5. \A p \in Requests : Reply(p)' = Reply(p)
  BY <1>2 DEF Reply
<1>6. Directory!Drop(h)
  BY <1>2, <1>5 DEF Directory!Drop, dbVars
<1> QED
  BY <1>1, <1>4, <1>6 DEF Directory!Next

LEMMA ExpireStep ==
  ASSUME IInv, Expire
  PROVE  IInv' /\ Directory!Next
<1>1. UNCHANGED <<dbVars, runVars>>
  BY DEF Expire
<1>2. PICK a \in Apps \cup {NULL}, h \in Hashes :
        /\ hostKey' \in {hostKey, NULL}
        /\ DropHash(a, h) \/ UNCHANGED <<cache, req>>
  BY AppCacheAssumption DEF Expire
<1>3. /\ hostKey' \in Apps \cup {NULL}
      /\ cache' \in [Apps -> [Hashes -> Kept]] /\ req' \in [Requests -> Request]
      /\ Reading' /\ Directory!Next
  BY <1>1, <1>2, ForgettingStep
<1>4. Within'
  BY <1>1 DEF IInv, Within, dbVars, runVars
<1> QED
  BY <1>1, <1>3, <1>4 DEF IInv, TypeOK, Kept, dbVars, runVars

(* The runner.                                                             *)
LEMMA RunHandlesStep ==
  ASSUME IInv, NEW i, RunHandles(i)
  PROVE  IInv' /\ Directory!Next
<1>1. UNCHANGED <<dbVars, reached, failures>> /\ run # NULL /\ i \in run.todo
      /\ run' = [todo |-> run.todo \ {i}, mark |-> Len(logs)]
  BY DEF RunHandles
<1>2. Len(logs) \in Nat /\ Len(logs) <= MaxChanges /\ i \in 1 .. Len(logs)
      /\ run.todo \subseteq 1 .. MaxChanges /\ MaxChanges \in Nat
  BY <1>1, AppCacheAssumption DEF IInv, TypeOK, Within
<1>3. logs[i].table \in Hashes \cup {"host"} /\ logs[i].app \in Apps \cup {NULL}
  <2>1. logs \in Seq(TableLog)
    BY DEF IInv, TypeOK
  <2>2. logs[i] \in TableLog
    BY <1>2, <2>1
  <2> QED
    BY <2>2 DEF TableLog
<1>4. PICK a \in Apps \cup {NULL}, h \in Hashes :
        /\ hostKey' \in {hostKey, NULL}
        /\ DropHash(a, h) \/ UNCHANGED <<cache, req>>
  <2>1. CASE DropHash(logs[i].app, logs[i].table) /\ logs[i].table \in Hashes /\ UNCHANGED hostKey
    BY <1>3, <2>1
  <2>2. CASE hostKey' \in {hostKey, NULL} /\ UNCHANGED <<cache, req>>
    BY <2>2, AppCacheAssumption
  <2> QED
    BY <1>3, <2>1, <2>2 DEF RunHandles, cacheVars
<1>5. /\ hostKey' \in Apps \cup {NULL}
      /\ cache' \in [Apps -> [Hashes -> Kept]] /\ req' \in [Requests -> Request]
      /\ Reading' /\ Directory!Next
  BY <1>1, <1>4, ForgettingStep
<1>6. run' \in [todo: SUBSET (1 .. MaxChanges), mark: 0 .. MaxChanges \cup {NULL}]
  BY <1>1, <1>2
<1>7. Within'
  BY <1>1, <1>2 DEF IInv, Within, dbVars
<1> QED
  BY <1>1, <1>5, <1>6, <1>7 DEF IInv, TypeOK, Kept, dbVars

(* A step that changes nothing but what the runner holds.                  *)
LEMMA SilentStep ==
  ASSUME IInv, UNCHANGED <<dbVars, cacheVars, req>>
  PROVE  Reading' /\ Directory!Next
<1> USE DEF dbVars, cacheVars
<1>1. Reading'
  BY DEF IInv, Reading, Sound, Fresh, HasApp, HitKeeps, MissReads, FillHolds
<1>2. HostsKnown' = HostsKnown
  BY DEF HostsKnown, Pending
<1>3. \A a \in Apps, h \in Hashes, f \in Fields : KnownOf(a, h, f)' = KnownOf(a, h, f)
  BY DEF KnownOf, Pending
<1>4. Directory!LearnsFromDatabaseOnly
  BY <1>2, <1>3, Learning
<1>5. \A p \in Requests : Reply(p)' = Reply(p)
  BY DEF Reply
<1>6. Directory!Change
  BY <1>5 DEF Directory!Change
<1> QED
  BY <1>1, <1>4, <1>6 DEF Directory!Next

LEMMA RunnerStep ==
  ASSUME IInv, RunBegins \/ RunCommits \/ RunFails
  PROVE  IInv' /\ Directory!Next
<1>1. UNCHANGED <<dbVars, cacheVars, req>>
  BY DEF RunBegins, RunCommits, RunFails
<1>2. Len(logs) \in Nat /\ Len(logs) <= MaxChanges /\ MaxChanges \in Nat /\ MaxFailures \in Nat
  BY AppCacheAssumption DEF IInv, TypeOK
<1>3. (run' = NULL \/ run' \in [todo: SUBSET (1 .. MaxChanges), mark: 0 .. MaxChanges \cup {NULL}])
      /\ (reached' \in 0 .. MaxChanges \cup {NULL}) /\ failures' \in 0 .. MaxFailures /\ Within'
  <2>1. CASE RunBegins
    <3>1. PICK todo \in SUBSET (1 .. Len(logs)) : run' = [todo |-> todo, mark |-> NULL]
      <4>1. reached = NULL \/ reached \in 0 .. Len(logs)
        BY <1>2 DEF IInv, TypeOK, Within
      <4> DEFINE upTo == IF reached = NULL THEN Len(logs) ELSE reached
                 handled == {i \in 1 .. upTo : logs[i].table # "modules"}
      <4>2. upTo \in 0 .. Len(logs)
        BY <1>2, <4>1
      <4>3. handled \subseteq 1 .. Len(logs)
        BY <1>2, <4>2
      <4>4. \E todo \in SUBSET handled : run' = [todo |-> todo, mark |-> NULL]
        BY <2>1 DEF RunBegins
      <4> HIDE DEF handled
      <4> QED
        BY <4>3, <4>4
    <3>2. UNCHANGED <<reached, failures>>
      BY <2>1 DEF RunBegins
    <3>3. todo \subseteq 1 .. MaxChanges
      BY <1>2
    <3> QED
      BY <1>1, <1>2, <3>1, <3>2, <3>3 DEF IInv, TypeOK, Within, dbVars
  <2>2. CASE RunCommits
    BY <1>1, <2>2 DEF RunCommits, IInv, TypeOK, Within, dbVars
  <2>3. CASE RunFails
    BY <1>1, <1>2, <2>3 DEF RunFails, IInv, TypeOK, Within, dbVars
  <2> QED
    BY <2>1, <2>2, <2>3
<1>4. TypeOK'
  BY <1>1, <1>3 DEF IInv, TypeOK, dbVars, cacheVars
<1> QED
  BY <1>1, <1>3, <1>4, SilentStep DEF IInv

-----------------------------------------------------------------------------
(* Changes of rows and the replica.                                        *)
LEMMA DatabaseStep ==
  ASSUME IInv, UNCHANGED <<cacheVars, req, runVars>>,
         bound' \in Apps \cup {NULL}, db' \in [Apps -> [Hashes -> Row]],
         logs' \in Seq(TableLog), Len(logs') <= MaxChanges, Len(logs) <= Len(logs'),
         applied' \in 0 .. Len(logs'),
         replica' \in [bound: Apps \cup {NULL}, db: [Apps -> [Hashes -> Row]]],
         replica'.bound \in HostsKnown \cup {NULL},
         \A l \in Pending' : l.table = "host" => l.app \in HostsKnown \cup {bound', NULL},
         \A a \in Apps, h \in Hashes, f \in Fields :
           InDatabase(a, h, f)' \subseteq InDatabase(a, h, f) \cup {db'[a][h][f]}
  PROVE  IInv' /\ Directory!Next
<1> USE DEF cacheVars, runVars
<1>1. TypeOK'
  BY DEF IInv, TypeOK
<1>2. Within'
  <2>1. Len(logs) \in Nat /\ Len(logs') \in Nat
    BY DEF IInv, TypeOK
  <2> QED
    BY <2>1, AppCacheAssumption DEF IInv, TypeOK, Within
<1>3. Reading'
  BY DEF IInv, Reading, Sound, Fresh, HasApp, HitKeeps, MissReads, FillHolds
<1>4. HostsKnown' \subseteq HostsKnown \cup {bound'}
  <2>1. \A p \in Requests : req'[p].app \in HostsKnown \cup {NULL}
    BY HeldIsKnown DEF IInv
  <2>2. hostKey' \in HostsKnown \cup {NULL}
    BY DEF HostsKnown
  <2>3. ASSUME NEW x \in HostsKnown', x # bound'
        PROVE  /\ x # NULL
               /\ \/ x \in {replica'.bound, hostKey'}
                  \/ \E p \in Requests : x = req'[p].app
                  \/ \E l \in Pending' : l.table = "host" /\ x = l.app
    BY <2>3 DEF HostsKnown
  <2> QED
    BY <2>1, <2>2, <2>3
<1>5. ASSUME NEW a \in Apps, NEW h \in Hashes, NEW f \in Fields
      PROVE KnownOf(a, h, f)' \subseteq KnownOf(a, h, f) \cup {db'[a][h][f]}
  <2>1. InCache(a, h, f)' = InCache(a, h, f) /\ InRequests(a, h, f)' = InRequests(a, h, f)
    BY DEF InCache, InRequests
  <2> QED
    BY <2>1, KnownSplits
<1>6. Directory!LearnsFromDatabaseOnly
  BY <1>4, <1>5, Learning
<1>7. \A p \in Requests : Reply(p)' = Reply(p)
  BY DEF Reply
<1>8. Directory!Change
  BY <1>7 DEF Directory!Change
<1> QED
  BY <1>1, <1>2, <1>3, <1>6, <1>8 DEF Directory!Next, IInv

(* A change is appended to the logs, and so to the pending ones.           *)
LEMMA PendingGrows ==
  ASSUME TypeOK, NEW l \in TableLog, logs' = Append(logs, l), applied' = applied
  PROVE  /\ Pending' = Pending \cup {l}
         /\ logs' \in Seq(TableLog) /\ Len(logs') = Len(logs) + 1 /\ Len(logs) \in Nat
         /\ applied' \in 0 .. Len(logs')
<1>1. logs \in Seq(TableLog) /\ applied \in 0 .. Len(logs)
  BY DEF TypeOK
<1>2. /\ logs' \in Seq(TableLog) /\ Len(logs') = Len(logs) + 1 /\ Len(logs) \in Nat
      /\ applied' \in 0 .. Len(logs')
  BY <1>1
<1>3. logs'[Len(logs')] = l /\ \A i \in 1 .. Len(logs) : logs'[i] = logs[i]
  BY <1>1, <1>2
<1>4. applied + 1 .. Len(logs') = (applied + 1 .. Len(logs)) \cup {Len(logs')}
  BY <1>1, <1>2
<1>5. applied + 1 .. Len(logs) \subseteq 1 .. Len(logs)
  BY <1>1, <1>2
<1>6. Pending' = {logs'[i] : i \in (applied + 1 .. Len(logs)) \cup {Len(logs')}}
  BY <1>4 DEF Pending
<1>7. Pending' = Pending \cup {l}
  BY <1>3, <1>5, <1>6 DEF Pending
<1> QED
  BY <1>2, <1>7

LEMMA ChangeRowStep ==
  ASSUME IInv, NEW a \in Apps, NEW h \in Hashes, NEW f \in Fields,
         NEW v \in Values \cup {NULL}, ChangeRow(a, h, f, v)
  PROVE  IInv' /\ Directory!Next
<1> DEFINE l == [table |-> h, app |-> a, op |-> Op(db[a][h][f], v), field |-> f, value |-> v]
<1>1. l \in TableLog
  BY DEF TableLog, Op
<1>2. /\ Len(logs) < MaxChanges /\ logs' = Append(logs, l)
      /\ db' = [db EXCEPT ![a][h][f] = v]
      /\ UNCHANGED <<bound, applied, replica, cacheVars, req, runVars>>
  BY DEF ChangeRow
<1> HIDE DEF l
<1>3. /\ Pending' = Pending \cup {l}
      /\ logs' \in Seq(TableLog) /\ Len(logs') = Len(logs) + 1 /\ Len(logs) \in Nat
      /\ applied' \in 0 .. Len(logs')
  BY <1>1, <1>2, PendingGrows DEF IInv
<1>4. db \in [Apps -> [Hashes -> Row]]
  BY DEF IInv, TypeOK
<1>5. db' \in [Apps -> [Hashes -> Row]]
  BY <1>2, <1>4 DEF Row
<1>6. \A b \in Apps, g \in Hashes, e \in Fields :
        db'[b][g][e] = IF b = a /\ g = h /\ e = f THEN v ELSE db[b][g][e]
  BY <1>2, <1>4 DEF Row
<1>7. l.table = h /\ l.app = a /\ l.field = f /\ l.value = v
  BY DEF l
<1>8. ASSUME NEW b \in Apps, NEW g \in Hashes, NEW e \in Fields
      PROVE InDatabase(b, g, e)' \subseteq InDatabase(b, g, e) \cup {db'[b][g][e]}
  BY <1>2, <1>3, <1>6, <1>7 DEF InDatabase
<1>9. \A k \in Pending' : k.table = "host" => k.app \in HostsKnown \cup {bound', NULL}
  <2>1. h # "host"
    BY AppCacheAssumption
  <2> QED
    BY <1>3, <1>7, <2>1 DEF HostsKnown
<1>10. Len(logs') <= MaxChanges /\ Len(logs) <= Len(logs')
  BY <1>2, <1>3, AppCacheAssumption
<1>11. bound' \in Apps \cup {NULL} /\ replica' = replica
       /\ replica \in [bound: Apps \cup {NULL}, db: [Apps -> [Hashes -> Row]]]
  BY <1>2 DEF IInv, TypeOK
<1>12. replica'.bound \in HostsKnown \cup {NULL}
  BY <1>11 DEF HostsKnown
<1> QED
  BY <1>2, <1>3, <1>5, <1>8, <1>9, <1>10, <1>11, <1>12, DatabaseStep

LEMMA RebindStep ==
  ASSUME IInv, NEW a \in Apps \cup {NULL}, Rebind(a)
  PROVE  IInv' /\ Directory!Next
<1> DEFINE l == [table |-> "host", app |-> a, op |-> Op(bound, a), field |-> NULL, value |-> NULL]
<1>1. l \in TableLog
  BY DEF TableLog, Op
<1>2. /\ Len(logs) < MaxChanges /\ logs' = Append(logs, l) /\ bound' = a
      /\ UNCHANGED <<db, applied, replica, cacheVars, req, runVars>>
  BY DEF Rebind
<1> HIDE DEF l
<1>3. /\ Pending' = Pending \cup {l}
      /\ logs' \in Seq(TableLog) /\ Len(logs') = Len(logs) + 1 /\ Len(logs) \in Nat
      /\ applied' \in 0 .. Len(logs')
  BY <1>1, <1>2, PendingGrows DEF IInv
<1>4. l.table = "host" /\ l.app = a
  BY DEF l
<1>5. ASSUME NEW b \in Apps, NEW g \in Hashes, NEW e \in Fields
      PROVE InDatabase(b, g, e)' \subseteq InDatabase(b, g, e) \cup {db'[b][g][e]}
  <2>1. g # "host"
    BY AppCacheAssumption
  <2> QED
    BY <1>2, <1>3, <1>4, <2>1 DEF InDatabase
<1>6. \A k \in Pending' : k.table = "host" => k.app \in HostsKnown \cup {bound', NULL}
  BY <1>2, <1>3, <1>4 DEF HostsKnown
<1>7. Len(logs') <= MaxChanges /\ Len(logs) <= Len(logs')
  BY <1>2, <1>3, AppCacheAssumption
<1>8. /\ replica' = replica /\ db' \in [Apps -> [Hashes -> Row]]
      /\ replica \in [bound: Apps \cup {NULL}, db: [Apps -> [Hashes -> Row]]]
  BY <1>2 DEF IInv, TypeOK
<1>9. replica'.bound \in HostsKnown \cup {NULL}
  BY <1>8 DEF HostsKnown
<1> QED
  BY <1>2, <1>3, <1>5, <1>6, <1>7, <1>8, <1>9, DatabaseStep

LEMMA ReplicateStep ==
  ASSUME IInv, Replicate
  PROVE  IInv' /\ Directory!Next
<1> DEFINE l == logs[applied + 1]
<1>1. /\ applied < Len(logs) /\ applied' = applied + 1
      /\ replica' = IF l.table = "host" THEN [replica EXCEPT !.bound = l.app]
                    ELSE [replica EXCEPT !.db[l.app][l.table][l.field] = l.value]
      /\ UNCHANGED <<bound, db, logs, cacheVars, req, runVars>>
  BY DEF Replicate
<1>2. logs \in Seq(TableLog) /\ Len(logs) \in Nat /\ applied \in 0 .. Len(logs)
      /\ Len(logs) <= MaxChanges
  BY DEF IInv, TypeOK
<1>3. l \in TableLog /\ l \in Pending
  BY <1>1, <1>2 DEF Pending
<1>4. Pending' \subseteq Pending
  BY <1>1, <1>2 DEF Pending
<1> HIDE DEF l
<1>5. replica \in [bound: Apps \cup {NULL}, db: [Apps -> [Hashes -> Row]]]
  BY DEF IInv, TypeOK
<1>6. /\ replica' \in [bound: Apps \cup {NULL}, db: [Apps -> [Hashes -> Row]]]
      /\ replica'.bound = IF l.table = "host" THEN l.app ELSE replica.bound
      /\ \A b \in Apps, g \in Hashes, e \in Fields :
           \/ replica'.db[b][g][e] = replica.db[b][g][e]
           \/ l.table = g /\ l.app = b /\ l.field = e /\ replica'.db[b][g][e] = l.value
  <2>1. l.app \in Apps \cup {NULL} /\ l.value \in Values \cup {NULL}
    BY <1>3 DEF TableLog
  <2>2. CASE l.table = "host"
    BY <1>1, <1>5, <2>1, <2>2
  <2>3. CASE l.table # "host"
    <3> DEFINE old == replica.db
               new == [old EXCEPT ![l.app][l.table][l.field] = l.value]
    <3>1. old \in [Apps -> [Hashes -> Row]]
      BY <1>5
    <3>2. new \in [Apps -> [Hashes -> Row]]
      BY <2>1, <3>1 DEF Row
    <3>3. \A b \in Apps, g \in Hashes, e \in Fields :
           \/ new[b][g][e] = old[b][g][e]
           \/ l.table = g /\ l.app = b /\ l.field = e /\ new[b][g][e] = l.value
      BY <3>1 DEF Row
    <3>4. replica' = [replica EXCEPT !.db = new]
      BY <1>1, <1>5, <2>3
    <3> HIDE DEF new
    <3> QED
      BY <1>5, <2>3, <3>2, <3>3, <3>4
  <2> QED
    BY <2>2, <2>3
<1>7. ASSUME NEW b \in Apps, NEW g \in Hashes, NEW e \in Fields
      PROVE InDatabase(b, g, e)' \subseteq InDatabase(b, g, e) \cup {db'[b][g][e]}
  <2>1. replica'.db[b][g][e] \in InDatabase(b, g, e)
    BY <1>3, <1>6 DEF InDatabase
  <2>2. ASSUME NEW k \in Pending', k.table = g, k.app = b, k.field = e
        PROVE k.value \in InDatabase(b, g, e)
    BY <1>4, <2>2 DEF InDatabase
  <2> QED
    BY <2>1, <2>2 DEF InDatabase
<1>8. \A k \in Pending' : k.table = "host" => k.app \in HostsKnown \cup {bound', NULL}
  BY <1>4 DEF HostsKnown
<1>9. replica'.bound \in HostsKnown \cup {NULL}
  BY <1>3, <1>6 DEF HostsKnown
<1>10. applied' \in 0 .. Len(logs')
  BY <1>1, <1>2
<1>11. bound' \in Apps \cup {NULL} /\ db' \in [Apps -> [Hashes -> Row]]
  BY <1>1 DEF IInv, TypeOK
<1>12. /\ logs' \in Seq(TableLog) /\ Len(logs') <= MaxChanges /\ Len(logs) <= Len(logs')
       /\ UNCHANGED <<cacheVars, req, runVars>>
  BY <1>1, <1>2
<1> QED
  BY <1>6, <1>7, <1>8, <1>9, <1>10, <1>11, <1>12, DatabaseStep

-----------------------------------------------------------------------------
LEMMA InitHolds == Init => IInv /\ Directory!Init
<1> SUFFICES ASSUME Init PROVE IInv /\ Directory!Init
  OBVIOUS
<1>1. /\ bound \in Apps /\ db \in [Apps -> [Hashes -> Row]]
      /\ replica = [bound |-> bound, db |-> db]
      /\ hostKey = NULL /\ cache = [a \in Apps |-> [h \in Hashes |-> NULL]]
      /\ req = [r \in Requests |-> Idle]
      /\ logs = <<>> /\ applied = 0
      /\ reached = NULL /\ run = NULL /\ failures = 0
  BY AppCacheAssumption DEF Init
<1>2. TypeOK
  <2>1. logs \in Seq(TableLog) /\ Len(logs) = 0
    BY <1>1
  <2> QED
    BY <1>1, <2>1, IdleIsRequest, AppCacheAssumption DEF TypeOK
<1>3. Within
  BY <1>1 DEF Within
<1>4. Reading
  BY <1>1 DEF Reading, Sound, Fresh, HasApp, HitKeeps, MissReads, FillHolds, Idle
<1>5. Pending = {}
  BY <1>1 DEF Pending
<1>6. HostsKnown = {bound}
  BY <1>1, <1>5, IdleIsRequest DEF HostsKnown
<1>7. ASSUME NEW a \in Apps, NEW h \in Hashes, NEW f \in Fields
      PROVE KnownOf(a, h, f) = {db[a][h][f]}
  <2>1. InDatabase(a, h, f) = {db[a][h][f]}
    BY <1>1, <1>5 DEF InDatabase
  <2>2. InCache(a, h, f) = {} /\ InRequests(a, h, f) = {}
    BY <1>1, IdleIsRequest DEF InCache, InRequests
  <2> QED
    BY <2>1, <2>2, KnownSplits
<1>8. \A r \in Requests : Reply(r) = NULL /\ req[r].dropped = {}
  BY <1>1, IdleIsRequest DEF Reply
<1>9. Directory!Init
  BY <1>6, <1>7, <1>8 DEF Directory!Init
<1> QED
  BY <1>2, <1>3, <1>4, <1>9 DEF IInv

LEMMA NextHolds == IInv /\ [Next]_vars => IInv' /\ [Directory!Next]_(Directory!vars)
<1> SUFFICES ASSUME IInv, [Next]_vars PROVE IInv' /\ [Directory!Next]_(Directory!vars)
  OBVIOUS
<1>1. ASSUME NEW e \in Edits, NEW f \in Fields, NEW v \in Values \cup {NULL},
             ChangeRow(e[1], e[2], f, v)
      PROVE IInv' /\ Directory!Next
  <2>1. e[1] \in Apps /\ e[2] \in Hashes
    BY AppCacheAssumption
  <2> QED
    BY <1>1, <2>1, ChangeRowStep
<1>2. ASSUME NEW a \in Apps \cup {NULL}, Rebind(a) PROVE IInv' /\ Directory!Next
  BY <1>2, RebindStep
<1>3. ASSUME NEW r \in Requests, RequestStep(r) PROVE IInv' /\ Directory!Next
  BY <1>3, BeginStep, HostFromDatabaseStep, CheckStep, ReadCacheStep, ReadDatabaseStep,
     SetAppCacheStep, RedisFailsStep, RequestDiesStep DEF RequestStep
<1>4. ASSUME RunStep \/ RunFails PROVE IInv' /\ Directory!Next
  BY <1>4, RunnerStep, RunHandlesStep DEF RunStep
<1>5. CASE UNCHANGED vars
  <2>1. UNCHANGED <<dbVars, cacheVars, req, runVars>>
    BY <1>5 DEF vars
  <2>2. Reading' /\ TypeOK' /\ Within'
    BY <2>1, SilentStep DEF IInv, TypeOK, Within, dbVars, cacheVars, runVars
  <2>3. UNCHANGED Directory!vars
    <3>1. UNCHANGED <<bound, db>>
      BY <2>1 DEF dbVars
    <3>2. HostsKnown' = HostsKnown
      BY <2>1 DEF HostsKnown, Pending, dbVars, cacheVars
    <3>3. \A a \in Apps, h \in Hashes, f \in Fields : KnownOf(a, h, f)' = KnownOf(a, h, f)
      BY <2>1 DEF KnownOf, Pending, dbVars, cacheVars
    <3>4. \A r \in Requests : Reply(r)' = Reply(r) /\ req'[r].dropped = req[r].dropped
      BY <2>1 DEF Reply
    <3> QED
      BY <3>1, <3>2, <3>3, <3>4 DEF Directory!vars
  <2> QED
    BY <2>2, <2>3 DEF IInv
<1> QED
  BY <1>1, <1>2, <1>3, <1>4, <1>5, ReplicateStep, ExpireStep DEF Next

(* The state of the cache, its requests and its runner keeps its types:    *)
(* no key holds a hash without fields, and no run names a log beyond the   *)
(* end.                                                                    *)
THEOREM CacheTyped == Spec => []TypeOK
<1>1. IInv => TypeOK
  BY DEF IInv
<1> QED
  BY <1>1, InitHolds, NextHolds, PTL DEF Spec

(* However many requests, changes, expiries and runs interleave, and       *)
(* whatever fails: an answer is made of values that the database or a copy *)
(* still held, lacks a hash only when that was deleted under the request,  *)
(* and an old value that has gone from all copies stays gone.              *)
THEOREM RequestsImplementDirectory == Spec => ImplementsDirectory
BY InitHolds, NextHolds, PTL DEF Spec, ImplementsDirectory, Directory!Spec

=============================================================================

------------------------------- MODULE Porter -------------------------------
(***************************************************************************)
(* PorterRunner (src/src/runner/porter.runner.ts) and its four commands    *)
(* (src/src/runner/porter-command): what logins, video players, podcast    *)
(* players and the phone service leave in Redis is moved to PostgreSQL.    *)
(*                                                                         *)
(* Each command of Redis and each statement or transaction of PostgreSQL   *)
(* is one step; the keys' writers go on meanwhile, any command may fail    *)
(* and the process may die.  SCAN promises only that a full iteration      *)
(* returns every key that was there throughout.  Keys do not expire (7     *)
(* days against runs of minutes) and their values are well formed.         *)
(***************************************************************************)
EXTENDS Integers, SequencesExt

CONSTANTS
    Porters,        \* processes that run PorterRunner
    Members,        \* a key last-logged-in:<member> each
    PlayerEvents,   \* keys program-content-event:...
    PhoneEvents,    \* keys PhoneService:...
    PodcastEvents,  \* keys podcast-program-event:..., as <<record, time>>
    Unknown,        \* player events whose program content does not exist
    Rejected,       \* events whose row PostgreSQL refuses (no such member)
    Busy,           \* sets of streams that have keys in one behaviour
    MaxLogins,      \* bound: logins of a member
    MaxPages,       \* bound: calls of SCAN in an iteration
    MaxFailures     \* bound: failing commands and deaths

Events == PlayerEvents \cup PhoneEvents \cup PodcastEvents
Keys == Members \cup Events
Records == {e[1] : e \in PodcastEvents}         \* member and podcast program
Times == {e[2] : e \in PodcastEvents}

ASSUME PorterAssumption ==
    /\ MaxLogins \in Nat \ {0} /\ MaxPages \in Nat \ {0} /\ MaxFailures \in Nat
    /\ Times \subseteq Nat \ {0}
    /\ Unknown \subseteq PlayerEvents /\ Rejected \subseteq Events

(* The prefix of a key tells its kind, and there are finitely many.          *)
ASSUME KeysAssumption ==
    /\ IsFiniteSet(Porters) /\ IsFiniteSet(Keys)
    /\ PodcastEvents \subseteq Records \X Times
    /\ Members \cap Events = {} /\ PlayerEvents \cap PhoneEvents = {}
    /\ PodcastEvents \cap (PlayerEvents \cup PhoneEvents) = {}

KeysOf == [login |-> Members, player |-> PlayerEvents, phone |-> PhoneEvents,
           podcast |-> PodcastEvents, none |-> {}]
After == [login |-> "player", player |-> "phone", phone |-> "podcast", podcast |-> "none"]

VARIABLES
    busy,       \* streams that have keys
    cache,      \* Redis: the value of each key, 0 if there is none
    loginedAt,  \* member.logined_at, 0 for null or the epoch
    copies,     \* of each event: how often it was saved
    progress,   \* of each podcast record: the time of the event saved last
    pc, stream, \* of each porter: where it is, in which command
    scan,       \* of each porter: its SCAN iteration
    page,       \* of each porter: the keys SCAN returned
    entries,    \* of each porter: the keys whose values it saves
    logins,     \* of each porter: the login times MGET returned
    i,          \* of each porter: the index into page or entries
    calls,      \* of each porter: its transactions of phone events
    arrived,    \* history: events whose keys were written
    lastLogin,  \* history: the last login of each member
    refused,    \* history: events that were tried on their own in vain
    missed,     \* history: members whose last login may be lost
    failures    \* history: failing commands and deaths

redisVars == <<busy, cache>>
dbVars == <<loginedAt, copies, progress>>
localVars == <<stream, scan, page, entries, logins, i>>
historyVars == <<arrived, lastLogin, refused, missed>>
vars == <<redisVars, dbVars, pc, localVars, calls, historyVars, failures>>

NoScan == [more |-> FALSE, pages |-> 0, todo |-> {}]
NoLogins == [m \in Members |-> 0]
NoCalls == [e \in PhoneEvents |-> "none"]
PCs == {"idle", "scan", "read", "save", "fallback", "deleteOne", "delete", "wait"}

TypeOK ==
    /\ busy \in Busy
    /\ cache \in [Keys -> 0..MaxLogins]
    /\ loginedAt \in [Members -> 0..MaxLogins]
    /\ copies \in [Events -> Nat]
    /\ progress \in [Records -> Times \cup {0}]
    /\ pc \in [Porters -> PCs]
    /\ stream \in [Porters -> DOMAIN KeysOf]
    /\ scan \in [Porters -> [more : BOOLEAN, pages : 0..MaxPages, todo : SUBSET Keys]]
    /\ page \in [Porters -> Seq(Keys)]
    /\ entries \in [Porters -> Seq(Keys)]
    /\ logins \in [Porters -> [Members -> 0..MaxLogins]]
    /\ i \in [Porters -> Nat]
    /\ calls \in [Porters -> [PhoneEvents -> {"none", "open", "written", "aborted",
                                              "committing", "rollingBack"}]]
    /\ arrived \in SUBSET Events
    /\ lastLogin \in [Members -> 0..MaxLogins]
    /\ refused \in SUBSET Events
    /\ missed \in SUBSET Members
    /\ failures \in 0..MaxFailures

Init ==
    /\ busy \in Busy
    /\ cache = [k \in Keys |-> 0]
    /\ loginedAt = [m \in Members |-> 0]
    /\ copies = [e \in Events |-> 0]
    /\ progress = [r \in Records |-> 0]
    /\ pc = [p \in Porters |-> "idle"]
    /\ stream = [p \in Porters |-> "none"]
    /\ scan = [p \in Porters |-> NoScan]
    /\ page = [p \in Porters |-> <<>>]
    /\ entries = [p \in Porters |-> <<>>]
    /\ logins = [p \in Porters |-> NoLogins]
    /\ i = [p \in Porters |-> 1]
    /\ calls = [p \in Porters |-> NoCalls]
    /\ arrived = {} /\ lastLogin = [m \in Members |-> 0]
    /\ refused = {} /\ missed = {} /\ failures = 0

-----------------------------------------------------------------------------
(* Variants with one plausible mistake; they belong to no specification.     *)
BugLoginAt(p) ==                    \* timestamps[i + 1]: undefined at the end
    IF i[p] < Len(page[p]) THEN logins[p][page[p][i[p] + 1]] ELSE -1
BugFirstLogin(p) ==                 \* WHERE logined_at IS NULL
    LET m == page[p][i[p]] IN IF loginedAt[m] = 0 THEN logins[p][m] ELSE loginedAt[m]
BugFallbackKey(p) ==                                \* keys[i + 1]
    page[p][IF i[p] < Len(page[p]) THEN i[p] + 1 ELSE i[p]]
BugBreaks(s) == TRUE                                \* break for continue

(* timestamps[i], of the key at i.                                           *)
LoginAt(p) == logins[p][page[p][i[p]]]

(* handleBatchSaveFailure deletes keys[i] with the i-th log, although keys   *)
(* without a log are not skipped; the podcast command deletes the entry's.   *)
FallbackKey(p) == IF stream[p] = "player" THEN page[p][i[p]] ELSE entries[p][i[p]]

(* An empty page ends the command of the logins, and only that one.          *)
Breaks(s) == s = "login"

(* save() of several entities is one transaction.                            *)
Kept(es) == {}

-----------------------------------------------------------------------------
(* The writers of the keys.                                                  *)

(* insertLastLoginJobIntoQueue.                                              *)
Login(m) ==
    /\ "login" \in busy /\ lastLogin[m] < MaxLogins
    /\ lastLogin' = [lastLogin EXCEPT ![m] = @ + 1]
    /\ cache' = [cache EXCEPT ![m] = lastLogin[m] + 1]
    /\ missed' = IF \E p \in Porters :
                        /\ stream[p] = "login" /\ pc[p] \in {"save", "deleteOne"}
                        /\ \E j \in i[p]..Len(page[p]) : page[p][j] = m
                 THEN missed \cup {m} ELSE missed \ {m}
    /\ UNCHANGED <<busy, dbVars, pc, localVars, calls, arrived, refused, failures>>

(* The events of a podcast record are written in the order of their times.   *)
Arrive(e) ==
    /\ e \notin arrived /\ \E s \in busy : e \in KeysOf[s]
    /\ e \in PodcastEvents =>
           \A d \in PodcastEvents : d[1] = e[1] /\ d[2] < e[2] => d \in arrived
    /\ arrived' = arrived \cup {e}
    /\ cache' = [cache EXCEPT ![e] = 1]
    /\ UNCHANGED <<busy, dbVars, pc, localVars, calls, lastLogin, refused, missed, failures>>

-----------------------------------------------------------------------------
(* Commands and pages.                                                       *)

Present(s) == {k \in KeysOf[s] : cache[k] # 0}

Enter(p, s) ==
    /\ stream' = [stream EXCEPT ![p] = s]
    /\ pc' = [pc EXCEPT ![p] = IF s = "none" THEN "idle" ELSE "scan"]
    /\ scan' = [scan EXCEPT ![p] = NoScan]
    /\ page' = [page EXCEPT ![p] = <<>>]
    /\ entries' = [entries EXCEPT ![p] = <<>>]
    /\ logins' = [logins EXCEPT ![p] = NoLogins]
    /\ i' = [i EXCEPT ![p] = 1]

(* The commands run one after the other, whether or not one throws.          *)
NextCommand(p) == Enter(p, After[stream[p]])

(* while (cursor !== '0').                                                   *)
EndOfPage(p, sc) ==
    IF ~sc.more THEN NextCommand(p)
    ELSE /\ pc' = [pc EXCEPT ![p] = "scan"]
         /\ scan' = [scan EXCEPT ![p] = sc]
         /\ page' = [page EXCEPT ![p] = <<>>]
         /\ entries' = [entries EXCEPT ![p] = <<>>]
         /\ logins' = [logins EXCEPT ![p] = NoLogins]
         /\ i' = [i EXCEPT ![p] = 1]
         /\ UNCHANGED stream

Goto(p, l) == pc' = [pc EXCEPT ![p] = l]

Failure == failures < MaxFailures /\ failures' = failures + 1

Begin(p) ==
    /\ pc[p] = "idle"
    /\ Enter(p, "login")
    /\ UNCHANGED <<redisVars, dbVars, calls, historyVars, failures>>

(* The page that SCAN may return: the keys in an order, the next cursor.     *)
ScanReply(p, keys, more) ==
    LET due == IF scan[p].pages = 0 THEN Present(stream[p])
               ELSE scan[p].todo \cap Present(stream[p])
    IN  [more |-> more, pages |-> scan[p].pages + 1, todo |-> due \ ToSet(keys)]

Scan(p, keys, more) ==
    LET sc == ScanReply(p, keys, more) IN
    /\ pc[p] = "scan"
    /\ IF more THEN sc.pages < MaxPages ELSE sc.todo = {}
    /\ IF keys # <<>>
       THEN /\ scan' = [scan EXCEPT ![p] = sc]
            /\ page' = [page EXCEPT ![p] = keys]
            /\ Goto(p, "read")
            /\ UNCHANGED <<stream, entries, logins, i>>
       ELSE IF Breaks(stream[p]) THEN NextCommand(p) ELSE EndOfPage(p, sc)
    /\ UNCHANGED <<redisVars, dbVars, calls, historyVars, failures>>

(* A command of Redis, or a SELECT, fails: the command of the porter throws. *)
Throws(p) ==
    /\ pc[p] \in {"scan", "read", "deleteOne", "delete"}
    /\ stream[p] = "podcast" => pc[p] # "delete"
    /\ Failure
    /\ NextCommand(p)
    /\ UNCHANGED <<redisVars, dbVars, calls, historyVars>>

(* The process dies; its transactions roll back.                             *)
Die(p) ==
    /\ pc[p] # "idle" \/ calls[p] # NoCalls
    /\ Failure
    /\ Enter(p, "none")
    /\ calls' = [calls EXCEPT ![p] = NoCalls]
    /\ UNCHANGED <<redisVars, dbVars, historyVars>>

-----------------------------------------------------------------------------
(* PortLastLoggedInCommand.                                                  *)

(* A null, after another porter has deleted the key, becomes the epoch.      *)
ReadLogins(p) ==
    /\ pc[p] = "read" /\ stream[p] = "login"
    /\ logins' = [logins EXCEPT ![p] =
                     [m \in Members |-> IF m \in ToSet(page[p]) THEN cache[m] ELSE 0]]
    /\ missed' = missed \cup {m \in ToSet(page[p]) : cache[m] = 0}
    /\ Goto(p, "save")
    /\ UNCHANGED <<redisVars, dbVars, stream, scan, page, entries, i, calls, arrived,
                   lastLogin, refused, failures>>

UpdateLogin(p) ==
    /\ pc[p] = "save" /\ stream[p] = "login"
    /\ loginedAt' = [loginedAt EXCEPT ![page[p][i[p]]] = LoginAt(p)]
    /\ Goto(p, "deleteOne")
    /\ UNCHANGED <<redisVars, copies, progress, localVars, calls, historyVars, failures>>

(* updateMemberLoginDate logs the error and returns.                         *)
UpdateLoginFails(p) ==
    /\ pc[p] = "save" /\ stream[p] = "login" /\ Failure
    /\ missed' = missed \cup {page[p][i[p]]}
    /\ Goto(p, "deleteOne")
    /\ UNCHANGED <<redisVars, dbVars, localVars, calls, arrived, lastLogin, refused>>

DeleteLogin(p) ==
    /\ pc[p] = "deleteOne" /\ stream[p] = "login"
    /\ cache' = [cache EXCEPT ![page[p][i[p]]] = 0]
    /\ IF i[p] = Len(page[p]) THEN EndOfPage(p, scan[p])
       ELSE /\ i' = [i EXCEPT ![p] = @ + 1]
            /\ Goto(p, "save")
            /\ UNCHANGED <<stream, scan, page, entries, logins>>
    /\ UNCHANGED <<busy, dbVars, calls, historyVars, failures>>

-----------------------------------------------------------------------------
(* PortPlayerEventCommand and PortPodcastProgramCommand.                     *)

(* Keys without a value, and those of unknown contents, get no log; the logs *)
(* keep the order of the page.                                               *)
ReadPlayerEvents(p) ==
    /\ pc[p] = "read" /\ stream[p] = "player"
    /\ \E logs \in SetToSeqs({k \in ToSet(page[p]) : cache[k] # 0 /\ k \notin Unknown}) :
       /\ \A j, l \in DOMAIN logs, a, b \in DOMAIN page[p] :
              logs[j] = page[p][a] /\ logs[l] = page[p][b] /\ j < l => a < b
       /\ entries' = [entries EXCEPT ![p] = logs]
       /\ Goto(p, IF logs = <<>> THEN "delete" ELSE "save")
    /\ UNCHANGED <<redisVars, dbVars, stream, scan, page, logins, i, calls, historyVars, failures>>

(* Sorted by created_at, within the page.                                    *)
ReadPodcastEvents(p) ==
    /\ pc[p] = "read" /\ stream[p] = "podcast"
    /\ LET read == {k \in ToSet(page[p]) : cache[k] # 0} IN
       IF read = {} THEN EndOfPage(p, scan[p])
       ELSE /\ \E es \in SetToSeqs(read) :
                  /\ \A j, l \in DOMAIN es : j < l => es[j][2] <= es[l][2]
                  /\ entries' = [entries EXCEPT ![p] = es]
            /\ Goto(p, "save")
            /\ UNCHANGED <<stream, scan, page, logins, i>>
    /\ UNCHANGED <<redisVars, dbVars, calls, historyVars, failures>>

AddCopies(es) == copies' = [e \in Events |-> IF e \in es THEN copies[e] + 1 ELSE copies[e]]

(* The last of the entries of a record is the one that stays.                *)
Advance(es) ==
    progress' = [r \in Records |->
        LET js == {j \in DOMAIN es : es[j] \in PodcastEvents /\ es[j][1] = r}
        IN  IF js = {} THEN progress[r] ELSE es[Max(js)][2]]

SaveBatch(p) ==
    /\ pc[p] = "save" /\ ToSet(entries[p]) \cap Rejected = {}
    /\ AddCopies(ToSet(entries[p]))
    /\ Advance(entries[p])
    /\ Goto(p, "delete")
    /\ UNCHANGED <<redisVars, loginedAt, localVars, calls, historyVars, failures>>

SaveBatchFails(p) ==
    /\ pc[p] = "save"
    /\ IF ToSet(entries[p]) \cap Rejected = {} THEN Failure ELSE UNCHANGED failures
    /\ AddCopies(Kept(ToSet(entries[p])))
    /\ Goto(p, "fallback")
    /\ UNCHANGED <<redisVars, loginedAt, progress, localVars, calls, historyVars>>

SaveOne(p) ==
    /\ pc[p] = "fallback" /\ entries[p][i[p]] \notin Rejected
    /\ AddCopies({entries[p][i[p]]})
    /\ Advance(<<entries[p][i[p]]>>)
    /\ Goto(p, "deleteOne")
    /\ UNCHANGED <<redisVars, loginedAt, localVars, calls, historyVars, failures>>

(* The error is logged, and the key deleted all the same.                    *)
SaveOneFails(p) ==
    /\ pc[p] = "fallback"
    /\ IF entries[p][i[p]] \in Rejected THEN UNCHANGED failures ELSE Failure
    /\ refused' = refused \cup {entries[p][i[p]]}
    /\ Goto(p, "deleteOne")
    /\ UNCHANGED <<redisVars, dbVars, localVars, calls, arrived, lastLogin, missed>>

DeleteOne(p) ==
    /\ pc[p] = "deleteOne"
    /\ cache' = [cache EXCEPT ![FallbackKey(p)] = 0]
    /\ IF i[p] < Len(entries[p])
       THEN /\ i' = [i EXCEPT ![p] = @ + 1]
            /\ Goto(p, "fallback")
            /\ UNCHANGED <<stream, scan, page, entries, logins>>
       ELSE IF stream[p] = "player"
       THEN Goto(p, "delete") /\ UNCHANGED localVars
       ELSE EndOfPage(p, scan[p])
    /\ UNCHANGED <<busy, dbVars, calls, historyVars, failures>>

DeleteBatch(p) ==
    /\ pc[p] = "delete"
    /\ LET gone == ToSet(IF stream[p] = "player" THEN page[p] ELSE entries[p]) IN
       cache' = [k \in Keys |-> IF k \in gone THEN 0 ELSE cache[k]]
    /\ EndOfPage(p, scan[p])
    /\ UNCHANGED <<busy, dbVars, calls, historyVars, failures>>

(* The DEL is inside the try of the podcast command.                         *)
DeleteBatchFails(p) ==
    /\ pc[p] = "delete" /\ stream[p] = "podcast" /\ Failure
    /\ Goto(p, "fallback")
    /\ UNCHANGED <<redisVars, dbVars, localVars, calls, historyVars>>

PortEvents(p) ==
    /\ stream[p] \in {"player", "podcast"}
    /\ SaveBatch(p) \/ SaveBatchFails(p) \/ SaveOne(p) \/ SaveOneFails(p) \/ DeleteOne(p)
       \/ DeleteBatch(p) \/ DeleteBatchFails(p)

-----------------------------------------------------------------------------
(* PortPhoneServiceInsertEventCommand: a transaction for each key of the     *)
(* page, all at once.                                                        *)

SetCall(p, e, s) == calls' = [calls EXCEPT ![p][e] = s]

(* Transactions left over from a page that threw have ended by then.         *)
ReadPhoneEvents(p) ==
    /\ pc[p] = "read" /\ stream[p] = "phone" /\ calls[p] = NoCalls
    /\ calls' = [calls EXCEPT ![p] = [e \in PhoneEvents |->
                    IF e \in ToSet(page[p]) /\ cache[e] # 0 THEN "open" ELSE "none"]]
    /\ Goto(p, "wait")
    /\ UNCHANGED <<redisVars, dbVars, localVars, historyVars, failures>>

(* The notes and the dates of the member; an error of either is only logged, *)
(* but it aborts the transaction.                                            *)
WriteNotes(p, e) ==
    /\ calls[p][e] = "open" /\ e \notin Rejected
    /\ SetCall(p, e, "written")
    /\ UNCHANGED <<redisVars, dbVars, pc, localVars, historyVars, failures>>

WriteNotesFails(p, e) ==
    /\ calls[p][e] = "open"
    /\ IF e \in Rejected THEN UNCHANGED failures ELSE Failure
    /\ SetCall(p, e, "aborted")
    /\ refused' = refused \cup {e}
    /\ UNCHANGED <<redisVars, dbVars, pc, localVars, arrived, lastLogin, missed>>

(* The key is deleted before the COMMIT.                                     *)
DeletePhoneKey(p, e) ==
    /\ calls[p][e] \in {"written", "aborted"}
    /\ cache' = [cache EXCEPT ![e] = 0]
    /\ SetCall(p, e, IF calls[p][e] = "written" THEN "committing" ELSE "rollingBack")
    /\ UNCHANGED <<busy, dbVars, pc, localVars, historyVars, failures>>

(* The COMMIT of an aborted transaction rolls back without an error.         *)
EndCall(p, e) ==
    /\ calls[p][e] \in {"committing", "rollingBack"}
    /\ IF calls[p][e] = "committing" THEN AddCopies({e}) ELSE UNCHANGED copies
    /\ SetCall(p, e, "none")
    /\ UNCHANGED <<redisVars, loginedAt, progress, pc, localVars, historyVars, failures>>

(* The DEL or the COMMIT fails: the transaction rolls back, Promise.all      *)
(* rejects, and the other transactions of the page go on by themselves.      *)
CallThrows(p, e) ==
    /\ calls[p][e] # "none" /\ Failure
    /\ SetCall(p, e, "none")
    /\ IF pc[p] = "wait" THEN NextCommand(p) ELSE UNCHANGED <<pc, localVars>>
    /\ UNCHANGED <<redisVars, dbVars, historyVars>>

AllCallsEnded(p) ==
    /\ pc[p] = "wait" /\ calls[p] = NoCalls
    /\ EndOfPage(p, scan[p])
    /\ UNCHANGED <<redisVars, dbVars, calls, historyVars, failures>>

-----------------------------------------------------------------------------
Call(p, e) ==
    WriteNotes(p, e) \/ WriteNotesFails(p, e) \/ DeletePhoneKey(p, e) \/ EndCall(p, e)

Port(p) ==
    \/ Begin(p)
    \/ \E keys \in SetToAllKPermutations(Present(stream[p])), more \in BOOLEAN :
           Scan(p, keys, more)
    \/ ReadLogins(p) \/ UpdateLogin(p) \/ UpdateLoginFails(p)
    \/ stream[p] = "login" /\ DeleteLogin(p)
    \/ ReadPlayerEvents(p) \/ ReadPodcastEvents(p) \/ PortEvents(p)
    \/ ReadPhoneEvents(p) \/ AllCallsEnded(p)
    \/ \E e \in PhoneEvents : Call(p, e)

Next ==
    \/ \E m \in Members : Login(m)
    \/ \E e \in Events : Arrive(e)
    \/ \E p \in Porters : Port(p) \/ Throws(p) \/ Die(p) \/ \E e \in PhoneEvents : CallThrows(p, e)

Spec == Init /\ [][Next]_vars

(* The runner is started again and again, and its steps end.                 *)
LiveSpec == Spec /\ \A p \in Porters : WF_vars(Port(p))

-----------------------------------------------------------------------------
(* Properties.                                                               *)

(* A key leaves Redis only when its event is saved, was refused by the       *)
(* database on its own, or has no content - except that a phone event is     *)
(* also lost with a transaction that fails after its DEL.  The page is       *)
(* deleted as a whole, and in the fallback by an index that is not that of   *)
(* the log just saved.  And each porter saves an event at most once, plus    *)
(* once for each failure or death between a save and the DEL; a phone event  *)
(* also then only once.                                                      *)
EventsSavedOnce ==
    /\ \A e \in arrived : cache[e] = 0 =>
        \/ copies[e] > 0 \/ e \in refused \/ e \in Unknown
        \/ e \in PhoneEvents /\ (failures > 0 \/ \E p \in Porters : calls[p][e] = "committing")
    /\ \A e \in Events :
        copies[e] <= Cardinality(Porters) + IF e \in PhoneEvents THEN 0 ELSE failures

(* The date of a member is that of the last login that is no longer in       *)
(* Redis, unless the member logged in between an MGET and its DEL, another   *)
(* porter deleted the key between SCAN and MGET, or an UPDATE failed.        *)
LoginLostOnlyIfMissed ==
    \A m \in Members : cache[m] = 0 /\ m \notin missed => loginedAt[m] = lastLogin[m]

(* Every event is ported in the end, whatever pages SCAN returns: as each is *)
(* written once, none is left.                                               *)
EventsLeaveRedis == <>[](\A e \in Events : cache[e] = 0)

(* "should save the last create record" (porter_runner.e2e-spec.ts): once    *)
(* all the events of a podcast record are ported, its progress is that of    *)
(* the last one.                                                             *)
LastRecordStays ==
    \A r \in Records :
        LET ported == {e \in arrived \cap PodcastEvents : e[1] = r} IN
        ported # {} /\ (\A e \in ported : cache[e] = 0 /\ e \notin refused)
            => progress[r] = Max({e[2] : e \in ported})

=============================================================================

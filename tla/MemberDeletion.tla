--------------------------- MODULE MemberDeletion ---------------------------
(***************************************************************************)
(* The deletion of a member (deleteMemberByEmail, src/member): one         *)
(* transaction that clears the tables one by one, in an order the foreign  *)
(* keys of Schema must allow, and an audit log written afterwards, while   *)
(* others go on writing rows.                                              *)
(***************************************************************************)
EXTENDS Schema, Naturals, FiniteSets, Sequences

CONSTANTS
  Doomed, Other,  \* the member to delete, and another one
  MaxRows         \* bound: rows that are written

ASSUME DeletionAssumption ==
  /\ MaxRows \in Nat /\ Doomed # Other
  /\ NULL \notin {"deleted", "refused", "failed", "SUCCESS", "ERROR"}

VARIABLES
  db,       \* the rows: <<table, number>> -> column -> target
  written,  \* the number of rows written
  at,       \* the statement the deletion is at; 0: none runs
  found,    \* orderLogs: the orders the deletion read
  before,   \* what a rollback puts back
  start,    \* the rows when the deletion began
  outcome,  \* how the transaction ended
  audit     \* member_audit_log: what is logged of the deletion

deletionVars == <<db, written, at, found, before, start, outcome, audit>>

RowIds == Tables \X (1..MaxRows)

(* The two members are not among the rows that are written.                *)
ASSUME RowIdsAssumption == /\ NULL \notin {Doomed, Other}
                           /\ RowIds \cap {Doomed, Other, NULL} = {}

Empty == [r \in {} |-> NULL]

(* The rows of d, and those of e that d does not have.                     *)
Over(d, e) == [r \in DOMAIN d \cup DOMAIN e |-> IF r \in DOMAIN d THEN d[r] ELSE e[r]]

-----------------------------------------------------------------------------
(* The statements, in their order.  "mine": the rows whose column holds    *)
(* the member; "ordered": the rows of his orders; "find", "unlink" and     *)
(* "remove": his orders, which first lose their children.                  *)
Stmt(kind, table, column) == [kind |-> kind, table |-> table, column |-> column]
Mine(table) == Stmt("mine", table, "member_id")
Ordered(table) == Stmt("ordered", table, "order_id")
All(Of(_), tables) == [i \in 1..Len(tables) |-> Of(tables[i])]

OrderStatements ==
  <<Stmt("mine", "notification", "target_member_id"),
    Stmt("mine", "notification", "source_member_id"),
    Mine("order_contact"), Mine("order_executor")>>
  \o All(Ordered, <<"order_product", "order_discount", "payment_log", "invoice">>)
  \o <<Stmt("find", "order_log", "member_id"),
       Stmt("unlink", "order_log", "parent_order_id"),
       Stmt("remove", "order_log", "id")>>

BugTalkStatements == All(Mine,  \* the issues before their replies
  <<"attend", "practice", "voucher", "exercise", "issue_reply_reaction",
    "issue_reaction", "issue", "issue_reply", "comment_reply_reaction",
    "comment_reply", "comment_reaction", "comment">>)

TalkStatements == All(Mine,
  <<"attend", "practice", "voucher", "exercise", "issue_reply_reaction",
    "issue_reaction", "issue_reply", "issue", "comment_reply_reaction",
    "comment_reply", "comment_reaction", "comment">>)

OwnStatements == All(Mine,
  <<"coin_log", "podcast_program_progress", "post_role", "program_timetable",
    "program_tempo_delivery", "program_content_log",
    "program_content_progress", "coupon", "review_reaction", "review_reply",
    "review", "member_contract", "member_card", "member_tag",
    "member_oauth", "member_category", "member_device",
    "member_tracking_log", "member_note", "member_task", "member_phone",
    "member_property", "member_permission_extra">>)

Statements == OrderStatements \o TalkStatements \o OwnStatements
                \o <<Stmt("member", "member", "id")>>

-----------------------------------------------------------------------------
DeletionTypeOK ==
  /\ DOMAIN db \subseteq RowIds /\ DOMAIN start \subseteq RowIds
  /\ DOMAIN before \subseteq RowIds /\ found \subseteq RowIds
  /\ \A r \in DOMAIN db : \A k \in ColumnsOf[r[1]] :
       db[r][k.column] \in RowIds \cup {Doomed, Other, NULL}
  /\ written \in 0..MaxRows /\ at \in 0..Len(Statements)
  /\ outcome \in {NULL, "deleted", "refused", "failed"}
  /\ audit \in [member: {NULL, "id", "entity"}, result: {NULL, "SUCCESS", "ERROR"}]

DeletionInit ==
  /\ db = Empty /\ written = 0 /\ at = 0 /\ found = {} /\ before = Empty
  /\ start = Empty /\ outcome = NULL
  /\ audit = [member |-> NULL, result |-> NULL]

Gone == outcome = "deleted"

(* What a row of table t may hold: a member who is not deleted, and rows   *)
(* that exist.                                                             *)
Targets(k) ==
  CASE k \in Optional -> {NULL} \cup {r \in DOMAIN db : r[1] = k.parent}
    [] k.parent = "member" -> IF Gone THEN {Other} ELSE {Doomed, Other}
    [] OTHER -> {r \in DOMAIN db : r[1] = k.parent}

Held(k, refs) == refs[k.column]
Contents(t) ==
  {refs \in [{k.column : k \in ColumnsOf[t]} -> DOMAIN db \cup {Doomed, Other, NULL}] :
     \A k \in ColumnsOf[t] : Held(k, refs) \in Targets(k)}

Follows(t, refs) ==
  \/ written = 0
  \/ \E k \in KeysOf[t] : \E r \in DOMAIN db : r[2] = written /\ Held(k, refs) = r

(* External: the site and the back office write a row, each on the row     *)
(* written before it, if there is one.  The key of a row the deletion has  *)
(* removed makes the writer wait for the transaction, and fail.            *)
Write ==
  /\ written < MaxRows
  /\ written' = written + 1
  /\ \E t \in Tables : \E refs \in Contents(t) :
       /\ Follows(t, refs)
       /\ db' = Over(db, [r \in {<<t, written'>>} |-> refs])
  /\ UNCHANGED <<at, found, before, start, outcome, audit>>

(* The transaction begins, and finds the member by his email.              *)
Begin ==
  /\ at = 0 /\ outcome = NULL
  /\ at' = 1 /\ start' = db
  /\ UNCHANGED <<db, written, found, before, outcome, audit>>

MyOrders == {r \in DOMAIN db : r[1] = "order_log" /\ db[r]["member_id"] = Doomed}

Matched(s) ==
  CASE s.kind = "mine" ->
         {r \in DOMAIN db : r[1] = s.table /\ db[r][s.column] = Doomed}
    [] s.kind = "ordered" ->
         {r \in DOMAIN db : r[1] = s.table /\ db[r][s.column] \in MyOrders}
    [] s.kind = "remove" -> found \cap DOMAIN db
    [] s.kind = "member" -> {Doomed}
    [] OTHER -> {}

(* A row that stays holds one that goes: ON DELETE RESTRICT.               *)
Restricted(rows) ==
  \E r \in DOMAIN db \ rows : \E k \in KeysOf[r[1]] : Held(k, db[r]) \in rows

(* repo.find and repo.remove are one step here: a row written between them *)
(* is left alone, as is one written after both.                            *)
Clear ==
  /\ at > 0 /\ Statements[at].kind \in {"mine", "ordered", "remove", "member"}
  /\ LET gone == Matched(Statements[at]) IN
     /\ ~Restricted(gone)
     /\ db' = [r \in DOMAIN db \ gone |-> db[r]]
     /\ before' = Over(before, [r \in gone \cap DOMAIN db |-> db[r]])
  /\ IF at = Len(Statements) THEN at' = 0 /\ outcome' = "deleted"
                             ELSE at' = at + 1 /\ UNCHANGED outcome
  /\ UNCHANGED <<written, found, start, audit>>

FindOrders ==
  /\ at > 0 /\ Statements[at].kind = "find"
  /\ found' = MyOrders /\ at' = at + 1
  /\ UNCHANGED <<db, written, before, start, outcome, audit>>

UnlinkChildren ==
  /\ at > 0 /\ Statements[at].kind = "unlink"
  /\ LET children == {r \in DOMAIN db : /\ r[1] = "order_log"
                                        /\ db[r]["parent_order_id"] \in found} IN
     /\ db' = [r \in DOMAIN db |->
                 IF r \in children THEN [db[r] EXCEPT !["parent_order_id"] = NULL]
                                   ELSE db[r]]
     /\ before' = Over(before, [r \in children |-> db[r]])
  /\ at' = at + 1
  /\ UNCHANGED <<written, found, start, outcome, audit>>

(* The transaction is rolled back; what others wrote meanwhile stays.      *)
RollBack(why) ==
  /\ db' = Over(before, db) /\ at' = 0 /\ outcome' = why
  /\ UNCHANGED <<written, found, before, start, audit>>

Refuse == /\ at > 0 /\ Restricted(Matched(Statements[at]))
          /\ RollBack("refused")

(* The connection is lost.                                                 *)
Fail == at > 0 /\ RollBack("failed")

(* logMemberDeletionEventInfo, in the finally of the controller: the id of *)
(* the member if he is still there, else what the result of the deletion   *)
(* holds under `member`, which is the whole entity.                        *)
LogDeletion ==
  /\ outcome # NULL /\ audit.result = NULL
  /\ audit' = [member |-> IF Gone THEN "entity" ELSE "id",
               result |-> IF Gone THEN "SUCCESS" ELSE "ERROR"]
  /\ UNCHANGED <<db, written, at, found, before, start, outcome>>

DeletionNext ==
  \/ Write \/ Begin \/ Clear \/ FindOrders \/ UnlinkChildren
  \/ Refuse \/ Fail \/ LogDeletion

-----------------------------------------------------------------------------
(* What the statements are meant to sweep out, whatever their order: the   *)
(* rows that name the member in the column they go by, and the parts of    *)
(* his orders.                                                             *)
Swept(d) ==
  LET by(kind) == {s \in {Statements[i] : i \in 1..Len(Statements)} : s.kind = kind}
      mine == {r \in DOMAIN d : \E s \in by("mine") \cup by("find") :
                 r[1] = s.table /\ d[r][s.column] = Doomed}
  IN mine \cup {r \in DOMAIN d : \E s \in by("ordered") :
                  r[1] = s.table /\ d[r][s.column] \in mine}

Parents == {Ref("order_log", "parent_order_id", "order_log")}

(* A row that is not swept out hangs on the member or on one that is.      *)
Hanging(d) ==
  \E r \in DOMAIN d \ Swept(d) : \E k \in KeysOf[r[1]] \ Parents :
    Held(k, d[r]) \in Swept(d) \cup {Doomed}

(* The deletion is all or nothing, and the order of its statements never   *)
(* stands in its way: it is refused only when something of others hangs on *)
(* what it sweeps out, or was written while it ran; then, and when the     *)
(* connection is lost, every row is as it was.  When it succeeds, no row   *)
(* hangs on the member or on a missing one, all that it does not sweep out *)
(* is still there, and only child orders changed.  The log tells which.    *)
DeletionIsWhole ==
  /\ outcome = "deleted" =>
       /\ \A r \in DOMAIN db : \A k \in KeysOf[r[1]] :
            Held(k, db[r]) \in DOMAIN db \cup {Other, NULL}
       /\ DOMAIN start \ Swept(start) \subseteq DOMAIN db
       /\ DOMAIN db \cap Swept(start) = {}
       /\ \A r \in DOMAIN db \cap DOMAIN start : \A k \in KeysOf[r[1]] \ Parents :
            Held(k, db[r]) = Held(k, start[r])
  /\ outcome \in {"refused", "failed"} =>
       \A r \in DOMAIN start : r \in DOMAIN db /\ db[r] = start[r]
  /\ outcome = "refused" => Hanging(start) \/ DOMAIN db # DOMAIN start
  /\ audit.result = "SUCCESS" => Gone
  /\ audit.result = "ERROR" => outcome \in {"refused", "failed"}

=============================================================================

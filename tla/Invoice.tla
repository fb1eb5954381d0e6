------------------------------ MODULE Invoice ------------------------------
(***************************************************************************)
(* Issuing the invoices of paid orders: the batch of InvoiceRunner         *)
(* (src/src/runner/invoice.runner.ts) and the requests of the back office  *)
(* (POST /invoice/issue), both through src/src/invoice/invoice.service.ts. *)
(*                                                                         *)
(* An invoice issued at ezPay is final; what the database knows of it is   *)
(* written afterwards, in a transaction that may still roll back.  Each    *)
(* SQL statement and each call of ezPay is one step.  Transactions are     *)
(* those of PostgreSQL at READ COMMITTED: a written row stays locked until *)
(* the end of the transaction, a failed statement aborts it, and the       *)
(* COMMIT of an aborted one rolls it back.                                 *)
(***************************************************************************)
EXTENDS Integers, FiniteSets

CONSTANTS
    Runners,        \* processes that run InvoiceRunner
    Clerks,         \* requests to POST /invoice/issue
    Orders,         \* each order is the set of its payment logs
    Parts,          \* the number of invoices in a non-empty invoiceOptions.invoices
    BatchSize,      \* getBatchSize()
    MaxRetry,       \* the 5 of getShouldIssueInvoicePaymentLogs
    MaxCalls,       \* bound: calls of ezPay with one MerchantOrderNo
    RefusesRepeat,  \* does ezPay refuse a MerchantOrderNo it has an invoice for?
    None

ASSUME OrdersAssumption ==
    /\ \A o \in Orders : IsFiniteSet(o)
    /\ \A o, q \in Orders : o \cap q # {} => o = q
ASSUME InvoiceCountsAssumption ==
    /\ Parts \in Nat \ {0} /\ BatchSize \in Nat /\ MaxRetry \in Nat /\ MaxCalls \in Nat
    /\ RefusesRepeat \in BOOLEAN

Payments == UNION Orders
(* A few processes; a process, a request and a payment log are different.    *)
ASSUME NamesAssumption ==
    /\ IsFiniteSet(Runners)
    /\ Runners \cap Clerks = {} /\ Clerks \cap Payments = {}

Actors == Runners \cup Clerks
Txs == (Runners \X {"batch"}) \cup (Actors \X {"own"})

(* An attempt is named by the MerchantOrderNo it sends: of a payment (part 0), *)
(* of one of the invoices prepared for it, or of a back-office request.      *)
OfRunner == Payments \X (0..Parts)
OfClerk == Clerks \X Orders
Numbers == OfRunner \cup OfClerk

VARIABLES
    split,      \* payment logs whose invoiceOptions.invoices is not empty
    pay,        \* committed payment_log rows
    invoiced,   \* orders with a committed invoice row
    tx,         \* the open transactions
    pc, cur,    \* of each actor: where it is, its attempt
    batch,      \* of each runner: selected payment logs not yet taken
    result,     \* of each actor: the status it will write
    seen,       \* of each actor: the retry counts it has read
    saving,     \* of each actor: payment logs it has still to save
    catching,   \* of each actor: is it in the catch of the attempt?
    invoices,   \* of each number: invoices ezPay has issued for it
    calls,      \* history: of each number, calls of ezPay
    lost        \* history: of each number, invoices whose record was lost

dbVars == <<split, pay, invoiced, tx>>
actorVars == <<pc, cur, batch, result, seen, saving, catching>>
ezpayVars == <<invoices, calls>>
vars == <<dbVars, actorVars, ezpayVars, lost>>

PaymentRow == [status : {"none", "SUCCESS", "FAIL"}, retry : 0..MaxRetry, issued : BOOLEAN]
ASSUME NoneAssumption == None \notin PaymentRow

NoWrites == [p \in Payments |-> None]
EmptyTx == [writes |-> NoWrites, orders |-> {}, inserted |-> {}, aborted |-> FALSE,
            pending |-> {}]
PCs == {"idle", "next", "configuring", "calling", "reading", "saving", "ordering",
        "inserting", "done", "throwing"}

TypeOK ==
    /\ split \in SUBSET Payments
    /\ pay \in [Payments -> PaymentRow]
    /\ invoiced \in SUBSET Orders
    /\ tx \in [Txs -> [writes : [Payments -> PaymentRow \cup {None}], orders : SUBSET Orders,
                       inserted : SUBSET Orders, aborted : BOOLEAN,
                       pending : SUBSET Numbers]]
    /\ pc \in [Actors -> PCs]
    /\ cur \in [Actors -> Numbers \cup {None}]
    /\ batch \in [Runners -> SUBSET Payments]
    /\ result \in [Actors -> {"none", "SUCCESS", "FAIL"}]
    /\ seen \in [Actors -> [Payments -> 0..MaxRetry]]
    /\ saving \in [Actors -> SUBSET Payments]
    /\ catching \in [Actors -> BOOLEAN]
    /\ invoices \in [Numbers -> 0..MaxCalls]
    /\ calls \in [Numbers -> 0..MaxCalls]
    /\ lost \in [Numbers -> Nat]

Init ==
    /\ split \in SUBSET Payments
    /\ pay = [p \in Payments |-> [status |-> "none", retry |-> 0, issued |-> FALSE]]
    /\ invoiced = {}
    /\ tx = [t \in Txs |-> EmptyTx]
    /\ pc = [a \in Actors |-> "idle"]
    /\ cur = [a \in Actors |-> None]
    /\ batch = [r \in Runners |-> {}]
    /\ result = [a \in Actors |-> "none"]
    /\ seen = [a \in Actors |-> [p \in Payments |-> 0]]
    /\ saving = [a \in Actors |-> {}]
    /\ catching = [a \in Actors |-> FALSE]
    /\ invoices = [n \in Numbers |-> 0]
    /\ calls = [n \in Numbers |-> 0]
    /\ lost = [n \in Numbers |-> 0]

-----------------------------------------------------------------------------
(* Attempts and transactions.                                                *)

(* Variants with one plausible mistake; they belong to no specification.     *)
BugDue(row) ==                      \* invoice_issued_at is not looked at
    row.status = "none" \/ (row.status # "SUCCESS" /\ row.retry < MaxRetry)
BugIssuedAt(before, status) == status = "SUCCESS"  \* null instead of undefined
BugRecorded(status) == TRUE        \* ezPay's Status is not looked at
BugRetry(n) == n + 1               \* the capped count runs on

OrderOf(n) == IF n \in OfClerk THEN n[2] ELSE CHOOSE o \in Orders : n[1] \in o

(* The payment logs an attempt writes: its own, or those of the order.       *)
PaymentsOf(n) == IF n \in OfClerk THEN n[2] ELSE {n[1]}

(* issueInvoiceByPayment writes with the transaction of the batch,           *)
(* issueInvoiceDirectly in one of its own.                                   *)
Tx(a) == IF a \in Runners /\ cur[a][2] = 0 THEN <<a, "batch">> ELSE <<a, "own">>

(* A statement of an aborted transaction fails.                              *)
Ready(t) == ~tx[t].aborted

View(t, p) == IF tx[t].writes[p] = None THEN pay[p] ELSE tx[t].writes[p]

(* The WHERE clause of getShouldIssueInvoicePaymentLogs.                     *)
Due(row) ==
    /\ ~row.issued
    /\ (row.status = "none" \/ (row.status # "SUCCESS" /\ row.retry < MaxRetry))

(* save() leaves a column alone whose property is undefined.                 *)
IssuedAt(before, status) == before \/ status = "SUCCESS"

NextRetry(n) == IF n < MaxRetry THEN n + 1 ELSE MaxRetry
Recorded(status) == status = "SUCCESS"

Lose(ns) == [n \in Numbers |-> IF n \in ns THEN lost[n] + 1 ELSE lost[n]]

Commit(t) ==
    /\ pay' = IF tx[t].aborted THEN pay ELSE [p \in Payments |-> View(t, p)]
    /\ invoiced' = IF tx[t].aborted THEN invoiced ELSE invoiced \cup tx[t].inserted
    /\ lost' = IF tx[t].aborted THEN Lose(tx[t].pending) ELSE lost
    /\ tx' = [tx EXCEPT ![t] = EmptyTx]
    /\ UNCHANGED split

Goto(a, l) == pc' = [pc EXCEPT ![a] = l]

(* An error inside an attempt.  Attempts of the runner catch it and try to   *)
(* write LODESTAR_FAIL; an error in the catch, or in a request, leaves it.   *)
Throw(a) ==
    /\ catching' = [catching EXCEPT ![a] = a \in Runners]
    /\ result' = [result EXCEPT ![a] = "FAIL"]
    /\ saving' = [saving EXCEPT ![a] = {}]
    /\ seen' = [seen EXCEPT ![a] = [p \in Payments |-> 0]]
    /\ Goto(a, IF a \in Runners /\ ~catching[a] THEN "reading" ELSE "throwing")

(* The attempt is over: the next invoice of the payment, the next payment,   *)
(* or the end of the request.                                                *)
Continue(a) ==
    /\ LET n == cur[a] IN
       IF n \in OfRunner /\ n[2] \in 1..(Parts - 1)
       THEN cur' = [cur EXCEPT ![a] = <<n[1], n[2] + 1>>] /\ Goto(a, "configuring")
       ELSE /\ cur' = [cur EXCEPT ![a] = None]
            /\ Goto(a, IF a \in Runners THEN "next" ELSE "idle")
    /\ result' = [result EXCEPT ![a] = "none"]
    /\ catching' = [catching EXCEPT ![a] = FALSE]
    /\ UNCHANGED <<batch, seen, saving>>

-----------------------------------------------------------------------------
(* The runner's batch, and the request.                                      *)

(* getShouldIssueInvoicePaymentLogs: no order, no lock, at most BatchSize.   *)
Select(r) ==
    /\ pc[r] = "idle"
    /\ LET due == {p \in Payments : Due(pay[p])} IN
       \E s \in SUBSET due :
           /\ s # {}
           /\ Cardinality(s) = BatchSize \/ (s = due /\ Cardinality(s) < BatchSize)
           /\ batch' = [batch EXCEPT ![r] = s]
    /\ Goto(r, "next")
    /\ UNCHANGED <<dbVars, cur, result, seen, saving, catching, ezpayVars, lost>>

Take(r, p) ==
    /\ pc[r] = "next" /\ p \in batch[r]
    /\ batch' = [batch EXCEPT ![r] = @ \ {p}]
    /\ cur' = [cur EXCEPT ![r] = <<p, IF p \in split THEN 1 ELSE 0>>]
    /\ Goto(r, "configuring")
    /\ UNCHANGED <<dbVars, result, seen, saving, catching, ezpayVars, lost>>

EndBatch(r) ==
    /\ pc[r] = "next" /\ batch[r] = {}
    /\ Commit(<<r, "batch">>)
    /\ Goto(r, "idle")
    /\ UNCHANGED <<cur, batch, result, seen, saving, catching, ezpayVars>>

(* A request calls ezPay once; another request is another clerk.             *)
Request(c, o) ==
    /\ pc[c] = "idle" /\ \A q \in Orders : calls[<<c, q>>] = 0
    /\ cur' = [cur EXCEPT ![c] = <<c, o>>]
    /\ Goto(c, "configuring")
    /\ UNCHANGED <<dbVars, batch, result, seen, saving, catching, ezpayVars, lost>>

-----------------------------------------------------------------------------
(* An attempt.                                                               *)

(* Variant: the settings are read outside the transaction of the attempt.    *)
BugConfigure(a) ==
    /\ pc[a] = "configuring"
    /\ Goto(a, "calling")
    /\ UNCHANGED <<dbVars, cur, batch, result, seen, saving, catching, ezpayVars, lost>>

(* getAppSettings and checkInvoiceGatewayConfig, with the EntityManager of   *)
(* the transaction.                                                          *)
Configure(a) ==
    /\ pc[a] = "configuring" /\ Ready(Tx(a))
    /\ Goto(a, "calling")
    /\ UNCHANGED <<dbVars, cur, batch, result, seen, saving, catching, ezpayVars, lost>>

NotEnabled(a) ==
    /\ pc[a] = "configuring" /\ Ready(Tx(a))
    /\ Throw(a)
    /\ UNCHANGED <<dbVars, cur, batch, ezpayVars, lost>>

Call(a) ==
    /\ pc[a] = "calling" /\ calls[cur[a]] < MaxCalls
    /\ calls' = [calls EXCEPT ![cur[a]] = @ + 1]

NewInvoice(n) ==
    /\ RefusesRepeat => invoices[n] = 0
    /\ invoices' = [invoices EXCEPT ![n] = @ + 1]

Issued(a) ==
    /\ Call(a) /\ NewInvoice(cur[a])
    /\ result' = [result EXCEPT ![a] = "SUCCESS"]
    /\ tx' = [tx EXCEPT ![Tx(a)].pending = @ \cup {cur[a]}]
    /\ Goto(a, "reading")
    /\ UNCHANGED <<split, pay, invoiced, cur, batch, seen, saving, catching, lost>>

Refused(a) ==
    /\ Call(a)
    /\ result' = [result EXCEPT ![a] = "FAIL"]
    /\ Goto(a, "reading")
    /\ UNCHANGED <<dbVars, cur, batch, seen, saving, catching, invoices, lost>>

(* axios throws: ezPay was not reached, or its answer was not.               *)
Unreached(a) ==
    /\ Call(a) /\ Throw(a)
    /\ UNCHANGED <<dbVars, cur, batch, invoices, lost>>

AnswerLost(a) ==
    /\ Call(a) /\ NewInvoice(cur[a]) /\ Throw(a)
    /\ lost' = Lose({cur[a]})
    /\ UNCHANGED <<dbVars, cur, batch>>

ReadRows(a) ==
    /\ pc[a] = "reading" /\ Ready(Tx(a))
    /\ seen' = [seen EXCEPT ![a] = [p \in Payments |->
                   IF p \in PaymentsOf(cur[a]) THEN View(Tx(a), p).retry ELSE 0]]
    /\ saving' = [saving EXCEPT ![a] = PaymentsOf(cur[a])]
    /\ Goto(a, "saving")
    /\ UNCHANGED <<dbVars, cur, batch, result, catching, ezpayVars, lost>>

(* The new options are computed from the row that was read; the UPDATE waits *)
(* for a transaction that has written the row.                               *)
SavePayment(a, p) ==
    /\ pc[a] = "saving" /\ p \in saving[a] /\ Ready(Tx(a))
    /\ \A u \in Txs \ {Tx(a)} : tx[u].writes[p] = None
    /\ tx' = [tx EXCEPT ![Tx(a)].writes[p] =
                 [status |-> result[a], retry |-> NextRetry(seen[a][p]),
                  issued |-> IssuedAt(View(Tx(a), p).issued, result[a])]]
    /\ saving' = [saving EXCEPT ![a] = @ \ {p}]
    /\ seen' = [seen EXCEPT ![a][p] = 0]
    /\ Goto(a, IF saving[a] = {p} THEN "ordering" ELSE "saving")
    /\ UNCHANGED <<split, pay, invoiced, cur, batch, result, catching, ezpayVars, lost>>

SaveOrder(a) ==
    /\ pc[a] = "ordering" /\ Ready(Tx(a))
    /\ \A u \in Txs \ {Tx(a)} : OrderOf(cur[a]) \notin tx[u].orders
    /\ tx' = [tx EXCEPT ![Tx(a)].orders = @ \cup {OrderOf(cur[a])}]
    /\ Goto(a, IF catching[a] THEN "throwing"
               ELSE IF Recorded(result[a]) THEN "inserting" ELSE "done")
    /\ UNCHANGED <<split, pay, invoiced, cur, batch, result, seen, saving, catching, ezpayVars, lost>>

(* invoice_order_id_key: an order has one row.  The INSERT waits for another *)
(* transaction that has inserted the key.                                    *)
InsertInvoice(a) ==
    /\ pc[a] = "inserting" /\ Ready(Tx(a))
    /\ OrderOf(cur[a]) \notin invoiced
    /\ \A u \in Txs : OrderOf(cur[a]) \notin tx[u].inserted
    /\ tx' = [tx EXCEPT ![Tx(a)].inserted = @ \cup {OrderOf(cur[a])}]
    /\ Goto(a, "done")
    /\ UNCHANGED <<split, pay, invoiced, cur, batch, result, seen, saving, catching, ezpayVars, lost>>

(* A statement fails - the key exists, the transaction is aborted already,   *)
(* PostgreSQL chose it to break a deadlock, the connection is gone - and     *)
(* aborts its transaction.                                                   *)
StatementFails(a) ==
    /\ pc[a] \in {"configuring", "reading", "saving", "ordering", "inserting"}
    /\ tx' = [tx EXCEPT ![Tx(a)].aborted = TRUE]
    /\ Throw(a)
    /\ UNCHANGED <<split, pay, invoiced, cur, batch, ezpayVars, lost>>

(* The transaction of a single attempt ends with it, that of a batch does not. *)
Finish(a) ==
    /\ pc[a] = "done"
    /\ IF Tx(a)[2] = "own" THEN Commit(Tx(a)) ELSE UNCHANGED <<dbVars, lost>>
    /\ Continue(a)
    /\ UNCHANGED ezpayVars

Rethrow(a) ==
    /\ pc[a] = "throwing"
    /\ IF Tx(a)[2] = "own"
       THEN /\ lost' = Lose(tx[Tx(a)].pending)
            /\ tx' = [tx EXCEPT ![Tx(a)] = EmptyTx]
            /\ UNCHANGED <<split, pay, invoiced>>
       ELSE UNCHANGED <<dbVars, lost>>
    /\ Continue(a)
    /\ UNCHANGED ezpayVars

(* The process dies, or the suicide timer of the runner ends it.             *)
Die(a) ==
    /\ pc[a] # "idle"
    /\ LET open == {t \in Txs : t[1] = a} IN
       /\ tx' = [t \in Txs |-> IF t \in open THEN EmptyTx ELSE tx[t]]
       /\ lost' = Lose(UNION {tx[t].pending : t \in open})
    /\ Goto(a, "idle")
    /\ cur' = [cur EXCEPT ![a] = None]
    /\ batch' = [r \in Runners |-> IF r = a THEN {} ELSE batch[r]]
    /\ result' = [result EXCEPT ![a] = "none"]
    /\ seen' = [seen EXCEPT ![a] = [p \in Payments |-> 0]]
    /\ saving' = [saving EXCEPT ![a] = {}]
    /\ catching' = [catching EXCEPT ![a] = FALSE]
    /\ UNCHANGED <<split, pay, invoiced, ezpayVars>>

Attempt(a) ==
    \/ Configure(a) \/ NotEnabled(a)
    \/ Issued(a) \/ Refused(a) \/ Unreached(a) \/ AnswerLost(a)
    \/ ReadRows(a)
    \/ \E p \in Payments : SavePayment(a, p)
    \/ SaveOrder(a) \/ InsertInvoice(a) \/ StatementFails(a)
    \/ Finish(a) \/ Rethrow(a) \/ Die(a)

Next ==
    \/ \E r \in Runners : Select(r) \/ EndBatch(r) \/ \E p \in Payments : Take(r, p)
    \/ \E c \in Clerks, o \in Orders : Request(c, o)
    \/ \E a \in Actors : Attempt(a)

Spec == Init /\ [][Next]_vars

-----------------------------------------------------------------------------
(* Properties.                                                               *)

(* Whatever rolls back, the database never claims an invoice ezPay has not   *)
(* issued: a payment log marked as issued has one, of its own or of a        *)
(* request for its order, and so has every invoice row.                      *)
RecordsAreReal ==
    /\ \A p \in Payments : pay[p].issued =>
           \E n \in Numbers : p \in PaymentsOf(n) /\ invoices[n] > 0
    /\ \A o \in invoiced : \E n \in Numbers : OrderOf(n) = o /\ invoices[n] > 0

(* An invoice ezPay has issued is known to the database, or still in an open *)
(* transaction, or one of those lost by a rollback or with ezPay's answer:   *)
(* no other path drops it.                                                   *)
UnrecordedOnlyIfLost ==
    \A n \in Numbers :
        invoices[n] > lost[n] + Cardinality({t \in Txs : n \in tx[t].pending})
            => \A p \in PaymentsOf(n) : pay[p].issued

(* One runner issues an invoice of a payment a second time only if the record *)
(* of the first was lost, also when requests overwrite the options it reads, *)
(* and even if ezPay accepts a MerchantOrderNo twice.                        *)
DuplicatesOnlyAfterLoss ==
    Cardinality(Runners) = 1 => \A n \in OfRunner : invoices[n] <= lost[n] + 1

(* After a statement of the batch's transaction has failed, nothing is       *)
(* issued any more whose record would go into that transaction.              *)
AbortedBatchIssuesNothing ==
    [][\A a \in Actors : pc[a] = "calling" /\ calls' # calls /\ pc'[a] # "calling"
           => ~tx[Tx(a)].aborted]_vars

(* "Should fail with retry at most 5 times" (invoice_runner.e2e-spec.ts): no *)
(* invoice of a payment is asked for more than MaxRetry times.               *)
RetriedAtMost == \A n \in OfRunner : calls[n] <= MaxRetry

============================================================================

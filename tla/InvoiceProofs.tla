--------------------------- MODULE InvoiceProofs ---------------------------
(***************************************************************************)
(* Proofs about Invoice: whatever rolls back, dies or overlaps, and        *)
(* however often ezPay accepts a MerchantOrderNo, the database claims no   *)
(* invoice that ezPay has not issued, an aborted batch issues nothing,     *)
(* every invoice the database does not know of is accounted for, and one   *)
(* runner issues none twice unless its record was lost.                    *)
(* For any orders, batch size, retry limit and number of actors.           *)
(***************************************************************************)
EXTENDS Invoice, FiniteSetTheorems, TLAPS

TxType == [writes : [Payments -> PaymentRow \cup {None}], orders : SUBSET Orders,
           inserted : SUBSET Orders, aborted : BOOLEAN, pending : SUBSET Numbers]

Between == {"idle", "next"}             \* no attempt is under way
Undecided == Between \cup {"configuring", "calling"}    \* ezPay has not answered

(* An actor that is in an attempt has the number of it, and a status that is *)
(* to be written as SUCCESS is the answer of ezPay to that number.           *)
AttemptOK ==
    \A a \in Actors :
        /\ pc[a] \notin Between => cur[a] \in Numbers
        /\ pc[a] \in Undecided => result[a] # "SUCCESS"
        /\ result[a] = "SUCCESS" => invoices[cur[a]] > 0
        /\ pc[a] = "inserting" => result[a] = "SUCCESS"
        /\ pc[a] = "saving" => saving[a] \subseteq PaymentsOf(cur[a])

HasInvoice(p) == \E n \in Numbers : p \in PaymentsOf(n) /\ invoices[n] > 0
OrderHasInvoice(o) == \E n \in Numbers : OrderOf(n) = o /\ invoices[n] > 0

(* What an open transaction has written is as real as what is committed.     *)
DraftsAreReal ==
    \A t \in Txs :
        /\ \A p \in Payments : tx[t].writes[p] # None /\ tx[t].writes[p].issued
               => HasInvoice(p)
        /\ \A o \in tx[t].inserted : OrderHasInvoice(o)

(* Every invoice was asked for, so there are at most MaxCalls.               *)
Asked == \A n \in Numbers : invoices[n] <= calls[n]

(* An attempt calls ezPay with its transaction intact.                       *)
CallsReady == \A a \in Actors : pc[a] = "calling" => ~tx[Tx(a)].aborted

InvoiceInv == TypeOK /\ AttemptOK /\ Asked /\ DraftsAreReal /\ RecordsAreReal /\ CallsReady

-----------------------------------------------------------------------------
(* Numbers, transactions and rows.                                           *)

LEMMA OrderOfType == \A n \in Numbers : OrderOf(n) \in Orders
<1> SUFFICES ASSUME NEW n \in Numbers PROVE OrderOf(n) \in Orders
  OBVIOUS
<1>1. CASE n \in OfClerk
  BY <1>1 DEF OrderOf, OfClerk
<1>2. CASE n \notin OfClerk
  <2>1. n[1] \in Payments
    BY <1>2 DEF Numbers, OfRunner
  <2>2. \E o \in Orders : n[1] \in o
    BY <2>1 DEF Payments
  <2> QED BY <1>2, <2>2 DEF OrderOf
<1> QED BY <1>1, <1>2

LEMMA PaymentsOfType == \A n \in Numbers : PaymentsOf(n) \subseteq Payments
BY DEF PaymentsOf, Numbers, OfClerk, OfRunner, Payments

LEMMA TxIn == \A a \in Actors : Tx(a) \in Txs
BY DEF Tx, Txs, Actors

(* Transactions of different actors differ.                                  *)
LEMMA TxOwner == \A a, b \in Actors : a # b => Tx(a) # Tx(b)
BY DEF Tx

LEMMA NextRetryType == \A n \in 0..MaxRetry : NextRetry(n) \in 0..MaxRetry
BY InvoiceCountsAssumption DEF NextRetry

LEMMA ViewType ==
    ASSUME pay \in [Payments -> PaymentRow], tx \in [Txs -> TxType],
           NEW t \in Txs, NEW p \in Payments
    PROVE  View(t, p) \in PaymentRow
BY DEF View, TxType

LEMMA EmptyTxType == EmptyTx \in TxType
BY DEF EmptyTx, TxType, NoWrites

LEMMA LoseType ==
    ASSUME lost \in [Numbers -> Nat], NEW ns
    PROVE  Lose(ns) \in [Numbers -> Nat]
BY DEF Lose

-----------------------------------------------------------------------------
(* The invariant holds at first.                                             *)
LEMMA InvoiceInit == Init => InvoiceInv
<1> SUFFICES ASSUME Init PROVE InvoiceInv
  OBVIOUS
<1> USE InvoiceCountsAssumption
<1>1. TypeOK
  BY EmptyTxType DEF Init, TypeOK, TxType, PaymentRow, PCs
<1>2. AttemptOK /\ Asked
  BY DEF Init, AttemptOK, Asked, Between, Undecided
<1>3. DraftsAreReal
  BY DEF Init, DraftsAreReal, EmptyTx, NoWrites
<1>4. RecordsAreReal
  BY DEF Init, RecordsAreReal
<1>5. CallsReady
  BY DEF Init, CallsReady
<1> QED BY <1>1, <1>2, <1>3, <1>4, <1>5 DEF InvoiceInv

-----------------------------------------------------------------------------
(* Types.                                                                    *)

LEMMA CommitType ==
    ASSUME TypeOK, NEW t \in Txs, Commit(t)
    PROVE  /\ pay' \in [Payments -> PaymentRow] /\ invoiced' \in SUBSET Orders
           /\ tx' \in [Txs -> TxType] /\ lost' \in [Numbers -> Nat]
           /\ split' \in SUBSET Payments
<1>1. pay \in [Payments -> PaymentRow] /\ tx \in [Txs -> TxType]
  BY DEF TypeOK, TxType
<1>2. pay' \in [Payments -> PaymentRow]
  BY <1>1, ViewType DEF Commit
<1>3. invoiced' \in SUBSET Orders
  BY <1>1 DEF Commit, TypeOK, TxType
<1>4. tx' \in [Txs -> TxType]
  BY <1>1, EmptyTxType DEF Commit
<1>5. lost' \in [Numbers -> Nat]
  BY LoseType DEF Commit, TypeOK
<1>6. split' \in SUBSET Payments
  BY DEF Commit, TypeOK
<1> QED BY <1>2, <1>3, <1>4, <1>5, <1>6

LEMMA ThrowType ==
    ASSUME TypeOK, NEW a \in Actors, Throw(a)
    PROVE  /\ catching' \in [Actors -> BOOLEAN]
           /\ result' \in [Actors -> {"none", "SUCCESS", "FAIL"}]
           /\ saving' \in [Actors -> SUBSET Payments]
           /\ seen' \in [Actors -> [Payments -> 0..MaxRetry]]
           /\ pc' \in [Actors -> PCs]
BY InvoiceCountsAssumption DEF Throw, TypeOK, Goto, PCs

LEMMA ContinueType ==
    ASSUME TypeOK, NEW a \in Actors, cur[a] \in Numbers, Continue(a)
    PROVE  /\ cur' \in [Actors -> Numbers \cup {None}]
           /\ pc' \in [Actors -> PCs]
           /\ result' \in [Actors -> {"none", "SUCCESS", "FAIL"}]
           /\ catching' \in [Actors -> BOOLEAN]
           /\ pc'[a] \notin Between => cur'[a] \in Numbers
<1>1. CASE cur[a] \in OfRunner /\ cur[a][2] \in 1..(Parts - 1)
  <2>1. <<cur[a][1], cur[a][2] + 1>> \in Numbers
    BY <1>1, InvoiceCountsAssumption DEF Numbers, OfRunner
  <2> QED BY <1>1, <2>1 DEF Continue, TypeOK, Goto, PCs
<1>2. CASE ~(cur[a] \in OfRunner /\ cur[a][2] \in 1..(Parts - 1))
  BY <1>2 DEF Continue, TypeOK, Goto, PCs, Between
<1> QED BY <1>1, <1>2

LEMMA InvoiceTypeNext == TypeOK /\ AttemptOK /\ Asked /\ [Next]_vars => TypeOK'
<1> SUFFICES ASSUME TypeOK, AttemptOK, Asked, [Next]_vars PROVE TypeOK'
  OBVIOUS
<1>0. tx \in [Txs -> TxType] /\ (tx' \in [Txs -> TxType] => tx' \in
          [Txs -> [writes : [Payments -> PaymentRow \cup {None}], orders : SUBSET Orders,
                   inserted : SUBSET Orders, aborted : BOOLEAN, pending : SUBSET Numbers]])
  BY DEF TypeOK, TxType
<1>1. ASSUME NEW r \in Runners, Select(r) PROVE TypeOK'
  BY <1>1 DEF Select, TypeOK, Goto, PCs, Actors, dbVars, ezpayVars
<1>2. ASSUME NEW r \in Runners, EndBatch(r) PROVE TypeOK'
  <2>1. <<r, "batch">> \in Txs
    BY DEF Txs
  <2>2. /\ pay' \in [Payments -> PaymentRow] /\ invoiced' \in SUBSET Orders
        /\ tx' \in [Txs -> TxType] /\ lost' \in [Numbers -> Nat]
        /\ split' \in SUBSET Payments
    BY <1>2, <2>1, CommitType DEF EndBatch
  <2> QED BY <1>0, <1>2, <2>2 DEF EndBatch, TypeOK, Goto, PCs, Actors, ezpayVars
<1>3. ASSUME NEW r \in Runners, NEW p \in Payments, Take(r, p) PROVE TypeOK'
  <2>1. <<p, IF p \in split THEN 1 ELSE 0>> \in Numbers
    BY InvoiceCountsAssumption DEF Numbers, OfRunner
  <2> QED BY <1>3, <2>1 DEF Take, TypeOK, Goto, PCs, Actors, dbVars, ezpayVars
<1>4. ASSUME NEW c \in Clerks, NEW o \in Orders, Request(c, o) PROVE TypeOK'
  <2>1. <<c, o>> \in Numbers
    BY DEF Numbers, OfClerk
  <2> QED BY <1>4, <2>1 DEF Request, TypeOK, Goto, PCs, Actors, dbVars, ezpayVars
<1>5. ASSUME NEW a \in Actors, Configure(a) PROVE TypeOK'
  BY <1>5 DEF Configure, TypeOK, Goto, PCs, dbVars, ezpayVars
<1>6. ASSUME NEW a \in Actors, NotEnabled(a) PROVE TypeOK'
  <2>1. Throw(a)
    BY <1>6 DEF NotEnabled
  <2> QED BY <1>6, <2>1, ThrowType DEF NotEnabled, TypeOK, dbVars, ezpayVars
<1>7. ASSUME NEW a \in Actors, Call(a)
      PROVE  cur[a] \in Numbers /\ calls' \in [Numbers -> 0..MaxCalls]
  <2>1. cur[a] \in Numbers /\ calls[cur[a]] < MaxCalls
    BY <1>7 DEF Call, AttemptOK, Between
  <2>2. calls[cur[a]] + 1 \in 0..MaxCalls /\ calls \in [Numbers -> 0..MaxCalls]
    BY <2>1, InvoiceCountsAssumption DEF TypeOK
  <2> QED BY <1>7, <2>1, <2>2 DEF Call
<1>8. ASSUME NEW a \in Actors, Call(a), NewInvoice(cur[a])
      PROVE  invoices' \in [Numbers -> 0..MaxCalls]
  <2>1. cur[a] \in Numbers /\ calls[cur[a]] < MaxCalls
    BY <1>7, <1>8 DEF Call
  <2>2. invoices[cur[a]] + 1 \in 0..MaxCalls
    BY <2>1, InvoiceCountsAssumption DEF Asked, TypeOK
  <2> QED BY <1>8, <2>1, <2>2 DEF NewInvoice, TypeOK
<1>9. ASSUME NEW a \in Actors, Issued(a) PROVE TypeOK'
  <2>1. Call(a) /\ NewInvoice(cur[a])
    BY <1>9 DEF Issued
  <2>2. /\ cur[a] \in Numbers /\ calls' \in [Numbers -> 0..MaxCalls]
        /\ invoices' \in [Numbers -> 0..MaxCalls]
    BY <2>1, <1>7, <1>8
  <2>3. tx' \in [Txs -> TxType]
    BY <1>0, <1>9, <2>2, TxIn DEF Issued, TxType
  <2> QED BY <1>0, <1>9, <2>2, <2>3 DEF Issued, TypeOK, Goto, PCs
<1>10. ASSUME NEW a \in Actors, Refused(a) PROVE TypeOK'
  <2>1. calls' \in [Numbers -> 0..MaxCalls]
    BY <1>7, <1>10 DEF Refused
  <2> QED BY <1>10, <2>1 DEF Refused, TypeOK, Goto, PCs, dbVars
<1>11. ASSUME NEW a \in Actors, Unreached(a) PROVE TypeOK'
  <2>1. Throw(a) /\ calls' \in [Numbers -> 0..MaxCalls]
    BY <1>7, <1>11 DEF Unreached
  <2> QED BY <1>11, <2>1, ThrowType DEF Unreached, TypeOK, dbVars
<1>12. ASSUME NEW a \in Actors, AnswerLost(a) PROVE TypeOK'
  <2>1. Throw(a) /\ Call(a) /\ NewInvoice(cur[a])
    BY <1>12 DEF AnswerLost
  <2>2. calls' \in [Numbers -> 0..MaxCalls] /\ invoices' \in [Numbers -> 0..MaxCalls]
    BY <2>1, <1>7, <1>8
  <2>3. lost' \in [Numbers -> Nat]
    BY <1>12, LoseType DEF AnswerLost, TypeOK
  <2> QED BY <1>12, <2>1, <2>2, <2>3, ThrowType DEF AnswerLost, TypeOK, dbVars
<1>13. ASSUME NEW a \in Actors, ReadRows(a) PROVE TypeOK'
  <2>1. cur[a] \in Numbers
    BY <1>13 DEF ReadRows, AttemptOK, Between
  <2>2. PaymentsOf(cur[a]) \subseteq Payments
    BY <2>1, PaymentsOfType
  <2>3. \A p \in Payments : View(Tx(a), p).retry \in 0..MaxRetry
    BY <1>0, TxIn, ViewType DEF TypeOK, PaymentRow
  <2> QED BY <1>13, <2>2, <2>3, InvoiceCountsAssumption
          DEF ReadRows, TypeOK, Goto, PCs, dbVars, ezpayVars
<1>14. ASSUME NEW a \in Actors, NEW p \in Payments, SavePayment(a, p) PROVE TypeOK'
  <2> DEFINE rec == [status |-> result[a], retry |-> NextRetry(seen[a][p]),
                     issued |-> IssuedAt(View(Tx(a), p).issued, result[a])]
  <2>1. View(Tx(a), p).issued \in BOOLEAN
    BY <1>0, TxIn, ViewType DEF TypeOK, PaymentRow
  <2>2. NextRetry(seen[a][p]) \in 0..MaxRetry /\ result[a] \in {"none", "SUCCESS", "FAIL"}
    BY NextRetryType DEF TypeOK
  <2>3. IssuedAt(View(Tx(a), p).issued, result[a]) \in BOOLEAN
    BY DEF IssuedAt
  <2>4. rec \in PaymentRow
    BY <2>2, <2>3 DEF PaymentRow
  <2> HIDE DEF rec
  <2>5. tx' = [tx EXCEPT ![Tx(a)].writes[p] = rec]
    BY <1>14 DEF SavePayment, rec
  <2>6. tx' \in [Txs -> TxType]
    BY <1>0, <2>4, <2>5, TxIn DEF TxType
  <2>7. pc' \in [Actors -> PCs]
    BY <1>14 DEF SavePayment, TypeOK, Goto, PCs
  <2>8. saving' \in [Actors -> SUBSET Payments]
    BY <1>14 DEF SavePayment, TypeOK
  <2>9. seen' \in [Actors -> [Payments -> 0..MaxRetry]]
    BY <1>14, InvoiceCountsAssumption DEF SavePayment, TypeOK
  <2>10. UNCHANGED <<split, pay, invoiced, cur, batch, result, catching, ezpayVars, lost>>
    BY <1>14 DEF SavePayment
  <2> QED BY <1>0, <2>6, <2>7, <2>8, <2>9, <2>10 DEF TypeOK, ezpayVars
<1>15. ASSUME NEW a \in Actors, SaveOrder(a) PROVE TypeOK'
  <2>1. OrderOf(cur[a]) \in Orders
    BY <1>15, OrderOfType DEF SaveOrder, AttemptOK, Between
  <2>2. tx' \in [Txs -> TxType]
    BY <1>0, <1>15, <2>1, TxIn DEF SaveOrder, TxType
  <2> QED BY <1>0, <1>15, <2>2 DEF SaveOrder, TypeOK, Goto, PCs, ezpayVars
<1>16. ASSUME NEW a \in Actors, InsertInvoice(a) PROVE TypeOK'
  <2>1. OrderOf(cur[a]) \in Orders
    BY <1>16, OrderOfType DEF InsertInvoice, AttemptOK, Between
  <2>2. tx' \in [Txs -> TxType]
    BY <1>0, <1>16, <2>1, TxIn DEF InsertInvoice, TxType
  <2> QED BY <1>0, <1>16, <2>2 DEF InsertInvoice, TypeOK, Goto, PCs, ezpayVars
<1>17. ASSUME NEW a \in Actors, StatementFails(a) PROVE TypeOK'
  <2>1. Throw(a)
    BY <1>17 DEF StatementFails
  <2>2. tx' \in [Txs -> TxType]
    BY <1>0, <1>17, TxIn DEF StatementFails, TxType
  <2> QED BY <1>0, <1>17, <2>1, <2>2, ThrowType DEF StatementFails, TypeOK, ezpayVars
<1>18. ASSUME NEW a \in Actors, Finish(a) PROVE TypeOK'
  <2>1. cur[a] \in Numbers /\ Continue(a)
    BY <1>18 DEF Finish, AttemptOK, Between
  <2>2. /\ pay' \in [Payments -> PaymentRow] /\ invoiced' \in SUBSET Orders
        /\ tx' \in [Txs -> TxType] /\ lost' \in [Numbers -> Nat]
        /\ split' \in SUBSET Payments
    <3>1. CASE Tx(a)[2] = "own"
      BY <1>18, <3>1, TxIn, CommitType DEF Finish
    <3>2. CASE Tx(a)[2] # "own"
      BY <1>0, <1>18, <3>2 DEF Finish, TypeOK, dbVars
    <3> QED BY <3>1, <3>2
  <2>3. UNCHANGED <<batch, seen, saving, invoices, calls>>
    BY <1>18, <2>1 DEF Finish, Continue, ezpayVars
  <2> QED BY <1>0, <2>1, <2>2, <2>3, ContinueType DEF TypeOK
<1>19. ASSUME NEW a \in Actors, Rethrow(a) PROVE TypeOK'
  <2>1. cur[a] \in Numbers /\ Continue(a)
    BY <1>19 DEF Rethrow, AttemptOK, Between
  <2>2. /\ tx' \in [Txs -> TxType] /\ lost' \in [Numbers -> Nat]
        /\ UNCHANGED <<split, pay, invoiced>>
    <3>1. CASE Tx(a)[2] = "own"
      <4>1. /\ lost' = Lose(tx[Tx(a)].pending) /\ tx' = [tx EXCEPT ![Tx(a)] = EmptyTx]
            /\ UNCHANGED <<split, pay, invoiced>>
        BY <1>19, <3>1 DEF Rethrow
      <4>2. lost' \in [Numbers -> Nat]
        BY <4>1, LoseType DEF TypeOK
      <4>3. tx' \in [Txs -> TxType]
        BY <1>0, <4>1, EmptyTxType
      <4> QED BY <4>1, <4>2, <4>3
    <3>2. CASE Tx(a)[2] # "own"
      BY <1>0, <1>19, <3>2 DEF Rethrow, TypeOK, dbVars
    <3> QED BY <3>1, <3>2
  <2>3. UNCHANGED <<batch, seen, saving, invoices, calls>>
    BY <1>19, <2>1 DEF Rethrow, Continue, ezpayVars
  <2> QED BY <1>0, <2>1, <2>2, <2>3, ContinueType DEF TypeOK
<1>20. ASSUME NEW a \in Actors, Die(a) PROVE TypeOK'
  <2>1. tx' \in [Txs -> TxType]
    BY <1>0, <1>20, EmptyTxType DEF Die
  <2>2. lost' \in [Numbers -> Nat]
    BY <1>20, LoseType DEF Die, TypeOK
  <2> QED BY <1>0, <1>20, <2>1, <2>2, InvoiceCountsAssumption
          DEF Die, TypeOK, Goto, PCs, ezpayVars
<1>21. CASE UNCHANGED vars
  BY <1>21 DEF TypeOK, vars, dbVars, actorVars, ezpayVars
<1> QED
  BY <1>1, <1>2, <1>3, <1>4, <1>5, <1>6, <1>9, <1>10, <1>11, <1>12, <1>13, <1>14,
     <1>15, <1>16, <1>17, <1>18, <1>19, <1>20, <1>21 DEF Next, Attempt

-----------------------------------------------------------------------------
(* The other parts of the invariant.                                         *)

(* ezPay takes no invoice back.                                              *)
LEMMA InvoicesGrow ==
    ASSUME TypeOK, AttemptOK, [Next]_vars
    PROVE  /\ \A n \in Numbers : invoices[n] > 0 => invoices'[n] > 0
           /\ \A p : HasInvoice(p) => HasInvoice(p)'
           /\ \A o : OrderHasInvoice(o) => OrderHasInvoice(o)'
<1>1. ASSUME NEW a \in Actors, NewInvoice(cur[a]), NEW n \in Numbers, invoices[n] > 0
      PROVE  invoices'[n] > 0
  BY <1>1 DEF NewInvoice, TypeOK
<1>2. \A n \in Numbers : invoices[n] > 0 => invoices'[n] > 0
  <2>1. CASE invoices' = invoices
    BY <2>1
  <2>2. CASE \E a \in Actors : NewInvoice(cur[a])
    BY <1>1, <2>2
  <2>3. invoices' = invoices \/ \E a \in Actors : NewInvoice(cur[a])
    BY DEF Next, Attempt, vars, ezpayVars, Select, EndBatch, Take, Request, Configure,
           NotEnabled, Issued, Refused, Unreached, AnswerLost, ReadRows, SavePayment,
           SaveOrder, InsertInvoice, StatementFails, Finish, Rethrow, Die
  <2> QED BY <2>1, <2>2, <2>3
<1> QED BY <1>2 DEF HasInvoice, OrderHasInvoice, PaymentsOf, OrderOf

LEMMA AskedNext == TypeOK /\ AttemptOK /\ Asked /\ [Next]_vars => Asked'
<1> SUFFICES ASSUME TypeOK, AttemptOK, Asked, [Next]_vars PROVE Asked'
  OBVIOUS
<1>1. ASSUME NEW a \in Actors, Call(a), NewInvoice(cur[a]) PROVE Asked'
  <2>1. cur[a] \in Numbers
    BY <1>1 DEF Call, AttemptOK, Between
  <2> QED BY <1>1, <2>1 DEF Call, NewInvoice, Asked, TypeOK
<1>2. ASSUME NEW a \in Actors, Call(a), invoices' = invoices PROVE Asked'
  <2>1. cur[a] \in Numbers
    BY <1>2 DEF Call, AttemptOK, Between
  <2> QED BY <1>2, <2>1 DEF Call, Asked, TypeOK
<1>3. CASE UNCHANGED ezpayVars
  BY <1>3 DEF Asked, ezpayVars
<1>4. \/ UNCHANGED ezpayVars
      \/ \E a \in Actors : Call(a) /\ (NewInvoice(cur[a]) \/ invoices' = invoices)
  BY DEF Next, Attempt, vars, ezpayVars, Select, EndBatch, Take, Request, Configure,
         NotEnabled, Issued, Refused, Unreached, AnswerLost, ReadRows, SavePayment,
         SaveOrder, InsertInvoice, StatementFails, Finish, Rethrow, Die
<1> QED BY <1>1, <1>2, <1>3, <1>4

(* A step of one actor leaves the attempts of the others alone.              *)
LEMMA AttemptKept ==
    ASSUME TypeOK, AttemptOK, [Next]_vars, NEW a \in Actors,
           \A b \in Actors \ {a} : /\ pc'[b] = pc[b] /\ cur'[b] = cur[b]
                                   /\ result'[b] = result[b] /\ saving'[b] = saving[b],
           pc'[a] \notin Between => cur'[a] \in Numbers,
           pc'[a] \in Undecided => result'[a] # "SUCCESS",
           result'[a] = "SUCCESS" => invoices'[cur'[a]] > 0,
           pc'[a] = "inserting" => result'[a] = "SUCCESS",
           pc'[a] = "saving" => saving'[a] \subseteq PaymentsOf(cur'[a])
    PROVE  AttemptOK'
<1>1. ASSUME NEW b \in Actors \ {a}, result[b] = "SUCCESS" PROVE invoices'[cur[b]] > 0
  <2>1. pc[b] \notin Between
    BY <1>1 DEF AttemptOK, Undecided
  <2>2. cur[b] \in Numbers /\ invoices[cur[b]] > 0
    BY <1>1, <2>1 DEF AttemptOK
  <2> QED BY <2>2, InvoicesGrow
<1>2. \A n : PaymentsOf(n)' = PaymentsOf(n)
  BY DEF PaymentsOf
<1>3. \A b \in Actors \ {a} :
          /\ pc'[b] \notin Between => cur'[b] \in Numbers
          /\ pc'[b] \in Undecided => result'[b] # "SUCCESS"
          /\ result'[b] = "SUCCESS" => invoices'[cur'[b]] > 0
          /\ pc'[b] = "inserting" => result'[b] = "SUCCESS"
          /\ pc'[b] = "saving" => saving'[b] \subseteq PaymentsOf(cur'[b])
  BY <1>1 DEF AttemptOK
<1> QED BY <1>3 DEF AttemptOK, PaymentsOf, Between, Undecided

LEMMA AttemptNext == TypeOK /\ AttemptOK /\ [Next]_vars => AttemptOK'
<1> SUFFICES ASSUME TypeOK, AttemptOK, [Next]_vars PROVE AttemptOK'
  OBVIOUS
<1> USE DEF Between, Undecided
<1>1. ASSUME NEW r \in Runners, Select(r) PROVE AttemptOK'
  <2>1. r \in Actors /\ result[r] # "SUCCESS"
    BY <1>1 DEF Actors, Select, AttemptOK
  <2> QED BY <1>1, <2>1, AttemptKept DEF Select, TypeOK, Goto
<1>2. ASSUME NEW r \in Runners, EndBatch(r) PROVE AttemptOK'
  <2>1. r \in Actors /\ result[r] # "SUCCESS"
    BY <1>2 DEF Actors, EndBatch, AttemptOK
  <2> QED BY <1>2, <2>1, AttemptKept DEF EndBatch, TypeOK, Goto
<1>3. ASSUME NEW r \in Runners, NEW p \in Payments, Take(r, p) PROVE AttemptOK'
  <2>1. r \in Actors /\ result[r] # "SUCCESS"
    BY <1>3 DEF Actors, Take, AttemptOK
  <2>2. <<p, IF p \in split THEN 1 ELSE 0>> \in Numbers
    BY InvoiceCountsAssumption DEF Numbers, OfRunner
  <2> QED BY <1>3, <2>1, <2>2, AttemptKept DEF Take, TypeOK, Goto
<1>4. ASSUME NEW c \in Clerks, NEW o \in Orders, Request(c, o) PROVE AttemptOK'
  <2>1. c \in Actors /\ result[c] # "SUCCESS"
    BY <1>4 DEF Actors, Request, AttemptOK
  <2>2. <<c, o>> \in Numbers
    BY DEF Numbers, OfClerk
  <2> QED BY <1>4, <2>1, <2>2, AttemptKept DEF Request, TypeOK, Goto
<1>5. ASSUME NEW a \in Actors, Configure(a) PROVE AttemptOK'
  <2>1. cur[a] \in Numbers /\ result[a] # "SUCCESS"
    BY <1>5 DEF Configure, AttemptOK
  <2> QED BY <1>5, <2>1, AttemptKept DEF Configure, TypeOK, Goto
<1>6. ASSUME NEW a \in Actors, Throw(a), pc[a] \notin Between, UNCHANGED cur PROVE AttemptOK'
  <2>1. cur'[a] \in Numbers
    BY <1>6 DEF AttemptOK
  <2>2. result'[a] = "FAIL" /\ pc'[a] \in {"reading", "throwing"}
    BY <1>6 DEF Throw, TypeOK, Goto
  <2>3. \A b \in Actors \ {a} : /\ pc'[b] = pc[b] /\ cur'[b] = cur[b]
                                /\ result'[b] = result[b] /\ saving'[b] = saving[b]
    BY <1>6 DEF Throw, TypeOK, Goto
  <2> QED BY <2>1, <2>2, <2>3, AttemptKept
<1>7. ASSUME NEW a \in Actors,
             NotEnabled(a) \/ Unreached(a) \/ AnswerLost(a) \/ StatementFails(a)
      PROVE  AttemptOK'
  BY <1>6, <1>7 DEF NotEnabled, Unreached, AnswerLost, StatementFails, Call
<1>8. ASSUME NEW a \in Actors, Issued(a) PROVE AttemptOK'
  <2>1. cur[a] \in Numbers /\ cur' = cur
    BY <1>8 DEF Issued, Call, AttemptOK
  <2>2. invoices'[cur[a]] > 0
    BY <1>8, <2>1 DEF Issued, NewInvoice, TypeOK
  <2> QED BY <1>8, <2>1, <2>2, AttemptKept DEF Issued, TypeOK, Goto
<1>9. ASSUME NEW a \in Actors, Refused(a) PROVE AttemptOK'
  <2>1. cur[a] \in Numbers
    BY <1>9 DEF Refused, Call, AttemptOK
  <2> QED BY <1>9, <2>1, AttemptKept DEF Refused, TypeOK, Goto
<1>10. ASSUME NEW a \in Actors, ReadRows(a) PROVE AttemptOK'
  <2>1. cur[a] \in Numbers /\ (result[a] = "SUCCESS" => invoices[cur[a]] > 0)
    BY <1>10 DEF ReadRows, AttemptOK
  <2> QED BY <1>10, <2>1, AttemptKept DEF ReadRows, TypeOK, Goto, ezpayVars
<1>11. ASSUME NEW a \in Actors, NEW p \in Payments, SavePayment(a, p) PROVE AttemptOK'
  <2>1. /\ cur[a] \in Numbers /\ (result[a] = "SUCCESS" => invoices[cur[a]] > 0)
        /\ saving[a] \subseteq PaymentsOf(cur[a])
    BY <1>11 DEF SavePayment, AttemptOK
  <2>2. pc'[a] \in {"saving", "ordering"} /\ saving'[a] \subseteq saving[a]
    BY <1>11 DEF SavePayment, TypeOK, Goto
  <2>3. \A b \in Actors \ {a} : /\ pc'[b] = pc[b] /\ cur'[b] = cur[b]
                                /\ result'[b] = result[b] /\ saving'[b] = saving[b]
    BY <1>11 DEF SavePayment, TypeOK, Goto
  <2>4. cur' = cur /\ result' = result /\ invoices' = invoices
    BY <1>11 DEF SavePayment, ezpayVars
  <2> QED BY <2>1, <2>2, <2>3, <2>4, AttemptKept
<1>12. ASSUME NEW a \in Actors, SaveOrder(a) PROVE AttemptOK'
  <2>1. cur[a] \in Numbers /\ (result[a] = "SUCCESS" => invoices[cur[a]] > 0)
    BY <1>12 DEF SaveOrder, AttemptOK
  <2> QED BY <1>12, <2>1, AttemptKept DEF SaveOrder, TypeOK, Goto, Recorded, ezpayVars
<1>13. ASSUME NEW a \in Actors, InsertInvoice(a) PROVE AttemptOK'
  <2>1. cur[a] \in Numbers /\ (result[a] = "SUCCESS" => invoices[cur[a]] > 0)
    BY <1>13 DEF InsertInvoice, AttemptOK
  <2> QED BY <1>13, <2>1, AttemptKept DEF InsertInvoice, TypeOK, Goto, ezpayVars
<1>14. ASSUME NEW a \in Actors, Continue(a), pc[a] \notin Between PROVE AttemptOK'
  <2>1. cur[a] \in Numbers
    BY <1>14 DEF AttemptOK
  <2>2. (pc'[a] \notin {"idle", "next"} => cur'[a] \in Numbers) /\ result'[a] = "none"
    BY <1>14, <2>1, ContinueType DEF Continue, TypeOK
  <2>3. pc'[a] \in {"configuring", "next", "idle"}
    BY <1>14 DEF Continue, TypeOK, Goto
  <2>4. \A b \in Actors \ {a} : /\ pc'[b] = pc[b] /\ cur'[b] = cur[b]
                                /\ result'[b] = result[b] /\ saving'[b] = saving[b]
    BY <1>14 DEF Continue, TypeOK, Goto
  <2> QED BY <2>2, <2>3, <2>4, AttemptKept
<1>15. ASSUME NEW a \in Actors, Finish(a) \/ Rethrow(a) PROVE AttemptOK'
  BY <1>14, <1>15 DEF Finish, Rethrow
<1>16. ASSUME NEW a \in Actors, Die(a) PROVE AttemptOK'
  <2>1. result'[a] = "none" /\ pc'[a] = "idle"
    BY <1>16 DEF Die, TypeOK, Goto
  <2>2. \A b \in Actors \ {a} : /\ pc'[b] = pc[b] /\ cur'[b] = cur[b]
                                /\ result'[b] = result[b] /\ saving'[b] = saving[b]
    BY <1>16 DEF Die, TypeOK, Goto
  <2> QED BY <2>1, <2>2, AttemptKept
<1>17. CASE UNCHANGED vars
  BY <1>17 DEF AttemptOK, vars, actorVars, ezpayVars, PaymentsOf
<1> QED
  BY <1>1, <1>2, <1>3, <1>4, <1>5, <1>7, <1>8, <1>9, <1>10, <1>11, <1>12, <1>13, <1>15,
     <1>16, <1>17 DEF Next, Attempt

(* The row an attempt writes claims an invoice only if there is one.         *)
LEMMA ViewIsReal ==
    ASSUME RecordsAreReal, DraftsAreReal, NEW t \in Txs, NEW p \in Payments,
           View(t, p).issued
    PROVE  HasInvoice(p)
BY DEF View, RecordsAreReal, DraftsAreReal, HasInvoice

LEMMA CommitIsReal ==
    ASSUME TypeOK, AttemptOK, RecordsAreReal, DraftsAreReal, [Next]_vars,
           NEW t \in Txs, Commit(t)
    PROVE  RecordsAreReal' /\ DraftsAreReal'
<1>1. ASSUME NEW p \in Payments, pay'[p].issued PROVE HasInvoice(p)'
  <2>1. HasInvoice(p)
    <3>1. CASE tx[t].aborted
      BY <1>1, <3>1 DEF Commit, RecordsAreReal, HasInvoice
    <3>2. CASE ~tx[t].aborted
      BY <1>1, <3>2, ViewIsReal DEF Commit
    <3> QED BY <3>1, <3>2
  <2> QED BY <2>1, InvoicesGrow
<1>2. ASSUME NEW o \in invoiced' PROVE OrderHasInvoice(o)'
  <2>1. OrderHasInvoice(o)
    BY <1>2 DEF Commit, RecordsAreReal, DraftsAreReal, OrderHasInvoice
  <2> QED BY <2>1, InvoicesGrow
<1>3. RecordsAreReal'
  BY <1>1, <1>2 DEF RecordsAreReal, HasInvoice, OrderHasInvoice
<1>4. ASSUME NEW u \in Txs, NEW p \in Payments, tx'[u].writes[p] # None,
             tx'[u].writes[p].issued
      PROVE  HasInvoice(p)'
  <2>1. u # t
    BY <1>4 DEF Commit, TypeOK, EmptyTx, NoWrites
  <2>2. tx'[u] = tx[u]
    BY <2>1 DEF Commit, TypeOK
  <2> QED BY <1>4, <2>2, InvoicesGrow DEF DraftsAreReal
<1>5. ASSUME NEW u \in Txs, NEW o \in tx'[u].inserted PROVE OrderHasInvoice(o)'
  <2>1. u # t
    BY <1>5 DEF Commit, TypeOK, EmptyTx
  <2>2. tx'[u] = tx[u]
    BY <2>1 DEF Commit, TypeOK
  <2> QED BY <1>5, <2>2, InvoicesGrow DEF DraftsAreReal
<1> QED BY <1>3, <1>4, <1>5 DEF DraftsAreReal

(* A step that writes and commits nothing.                                   *)
LEMMA NothingWritten ==
    ASSUME TypeOK, AttemptOK, RecordsAreReal, DraftsAreReal, [Next]_vars,
           UNCHANGED <<pay, invoiced>>,
           \A t \in Txs : \/ tx'[t] = EmptyTx
                          \/ tx'[t].writes = tx[t].writes /\ tx'[t].inserted = tx[t].inserted
    PROVE  RecordsAreReal' /\ DraftsAreReal'
<1>1. RecordsAreReal'
  BY InvoicesGrow DEF RecordsAreReal, HasInvoice, OrderHasInvoice
<1>2. ASSUME NEW u \in Txs, NEW p \in Payments, tx'[u].writes[p] # None,
             tx'[u].writes[p].issued
      PROVE  HasInvoice(p)'
  <2>1. tx'[u].writes = tx[u].writes
    BY <1>2 DEF EmptyTx, NoWrites
  <2> QED BY <1>2, <2>1, InvoicesGrow DEF DraftsAreReal
<1>3. ASSUME NEW u \in Txs, NEW o \in tx'[u].inserted PROVE OrderHasInvoice(o)'
  <2>1. tx'[u].inserted = tx[u].inserted
    BY <1>3 DEF EmptyTx
  <2> QED BY <1>3, <2>1, InvoicesGrow DEF DraftsAreReal
<1> QED BY <1>1, <1>2, <1>3 DEF DraftsAreReal

LEMMA RealNext ==
    TypeOK /\ AttemptOK /\ RecordsAreReal /\ DraftsAreReal /\ [Next]_vars
        => RecordsAreReal' /\ DraftsAreReal'
<1> SUFFICES ASSUME TypeOK, AttemptOK, RecordsAreReal, DraftsAreReal, [Next]_vars
             PROVE  RecordsAreReal' /\ DraftsAreReal'
  OBVIOUS
<1>1. CASE UNCHANGED <<pay, invoiced, tx>>
  BY <1>1, NothingWritten
<1>2. ASSUME NEW r \in Runners, EndBatch(r) PROVE RecordsAreReal' /\ DraftsAreReal'
  BY <1>2, CommitIsReal DEF EndBatch, Txs
<1>3. ASSUME NEW a \in Actors, Issued(a) PROVE RecordsAreReal' /\ DraftsAreReal'
  <2>1. \A t \in Txs : tx'[t].writes = tx[t].writes /\ tx'[t].inserted = tx[t].inserted
    BY <1>3, TxIn DEF Issued, TypeOK
  <2> QED BY <1>3, <2>1, NothingWritten DEF Issued
<1>4. ASSUME NEW a \in Actors, NEW p \in Payments, SavePayment(a, p)
      PROVE  RecordsAreReal' /\ DraftsAreReal'
  <2> DEFINE issued == IssuedAt(View(Tx(a), p).issued, result[a])
  <2>1. Tx(a) \in Txs /\ UNCHANGED <<pay, invoiced>>
    BY <1>4, TxIn DEF SavePayment
  <2>2. issued => HasInvoice(p)
    <3>1. CASE View(Tx(a), p).issued
      BY <2>1, <3>1, ViewIsReal
    <3>2. CASE result[a] = "SUCCESS"
      <4>1. cur[a] \in Numbers /\ invoices[cur[a]] > 0 /\ p \in PaymentsOf(cur[a])
        BY <1>4, <3>2 DEF SavePayment, AttemptOK, Between
      <4> QED BY <4>1 DEF HasInvoice
    <3> QED BY <3>1, <3>2 DEF IssuedAt
  <2>3. ASSUME NEW t \in Txs, NEW q \in Payments, ~(t = Tx(a) /\ q = p)
        PROVE  tx'[t].writes[q] = tx[t].writes[q]
    BY <1>4, <2>1, <2>3 DEF SavePayment, TypeOK
  <2>4. tx'[Tx(a)].writes[p].issued = issued
    BY <1>4, <2>1 DEF SavePayment, TypeOK
  <2>5. \A t \in Txs : tx'[t].inserted = tx[t].inserted
    BY <1>4, <2>1 DEF SavePayment, TypeOK
  <2>6. RecordsAreReal'
    BY <2>1, InvoicesGrow DEF RecordsAreReal, HasInvoice, OrderHasInvoice
  <2>7. ASSUME NEW t \in Txs, NEW q \in Payments, tx'[t].writes[q] # None,
               tx'[t].writes[q].issued
        PROVE  HasInvoice(q)'
    <3> HIDE DEF issued
    <3>1. CASE t = Tx(a) /\ q = p
      <4>1. issued
        BY <2>4, <2>7, <3>1
      <4> QED BY <2>2, <3>1, <4>1, InvoicesGrow
    <3>2. CASE ~(t = Tx(a) /\ q = p)
      BY <2>3, <2>7, <3>2, InvoicesGrow DEF DraftsAreReal
    <3> QED BY <3>1, <3>2
  <2>8. ASSUME NEW t \in Txs, NEW o \in tx'[t].inserted PROVE OrderHasInvoice(o)'
    BY <2>5, <2>8, InvoicesGrow DEF DraftsAreReal
  <2> QED BY <2>6, <2>7, <2>8 DEF DraftsAreReal
<1>5. ASSUME NEW a \in Actors, SaveOrder(a) PROVE RecordsAreReal' /\ DraftsAreReal'
  <2>1. \A t \in Txs : tx'[t].writes = tx[t].writes /\ tx'[t].inserted = tx[t].inserted
    BY <1>5, TxIn DEF SaveOrder, TypeOK
  <2> QED BY <1>5, <2>1, NothingWritten DEF SaveOrder
<1>6. ASSUME NEW a \in Actors, InsertInvoice(a) PROVE RecordsAreReal' /\ DraftsAreReal'
  <2>1. UNCHANGED <<pay, invoiced>> /\ Tx(a) \in Txs
    BY <1>6, TxIn DEF InsertInvoice
  <2>2. \A t \in Txs : tx'[t].writes = tx[t].writes
    BY <1>6, <2>1 DEF InsertInvoice, TypeOK
  <2>3. \A t \in Txs : tx'[t].inserted \subseteq tx[t].inserted \cup {OrderOf(cur[a])}
    BY <1>6, <2>1 DEF InsertInvoice, TypeOK
  <2>4. OrderHasInvoice(OrderOf(cur[a]))
    BY <1>6 DEF InsertInvoice, AttemptOK, Between, OrderHasInvoice
  <2>5. RecordsAreReal'
    BY <2>1, InvoicesGrow DEF RecordsAreReal, HasInvoice, OrderHasInvoice
  <2>6. \A t \in Txs : \A p \in Payments :
            tx'[t].writes[p] # None /\ tx'[t].writes[p].issued => HasInvoice(p)'
    BY <2>2, InvoicesGrow DEF DraftsAreReal
  <2>7. \A t \in Txs : \A o \in tx'[t].inserted : OrderHasInvoice(o)'
    BY <2>3, <2>4, InvoicesGrow DEF DraftsAreReal
  <2> QED BY <2>5, <2>6, <2>7 DEF DraftsAreReal
<1>7. ASSUME NEW a \in Actors, StatementFails(a) PROVE RecordsAreReal' /\ DraftsAreReal'
  <2>1. \A t \in Txs : tx'[t].writes = tx[t].writes /\ tx'[t].inserted = tx[t].inserted
    BY <1>7, TxIn DEF StatementFails, TypeOK
  <2> QED BY <1>7, <2>1, NothingWritten DEF StatementFails
<1>8. ASSUME NEW a \in Actors, Finish(a) PROVE RecordsAreReal' /\ DraftsAreReal'
  BY <1>8, <1>1, TxIn, CommitIsReal DEF Finish, dbVars
<1>9. ASSUME NEW a \in Actors, Rethrow(a) PROVE RecordsAreReal' /\ DraftsAreReal'
  <2>1. UNCHANGED <<pay, invoiced>>
    BY <1>9 DEF Rethrow, dbVars
  <2>2. \A t \in Txs : tx'[t] = EmptyTx \/ tx'[t] = tx[t]
    BY <1>9, TxIn DEF Rethrow, dbVars, TypeOK
  <2> QED BY <2>1, <2>2, NothingWritten
<1>10. ASSUME NEW a \in Actors, Die(a) PROVE RecordsAreReal' /\ DraftsAreReal'
  <2>1. \A t \in Txs : tx'[t] = EmptyTx \/ tx'[t] = tx[t]
    BY <1>10 DEF Die, TypeOK
  <2> QED BY <1>10, <2>1, NothingWritten DEF Die
<1>11. \/ UNCHANGED <<pay, invoiced, tx>>
       \/ \E r \in Runners : EndBatch(r)
       \/ \E a \in Actors : \/ Issued(a) \/ (\E p \in Payments : SavePayment(a, p))
                            \/ SaveOrder(a) \/ InsertInvoice(a) \/ StatementFails(a)
                            \/ Finish(a) \/ Rethrow(a) \/ Die(a)
  BY DEF Next, Attempt, vars, dbVars, Select, Take, Request, Configure, NotEnabled,
         Refused, Unreached, AnswerLost, ReadRows
<1> QED BY <1>1, <1>2, <1>3, <1>4, <1>5, <1>6, <1>7, <1>8, <1>9, <1>10, <1>11

(* A step of one actor aborts no transaction of another.                     *)
LEMMA CallsReadyKept ==
    ASSUME CallsReady, NEW a \in Actors,
           \A b \in Actors \ {a} : pc'[b] = pc[b] /\ cur'[b] = cur[b],
           \A t \in Txs \ {Tx(a)} : tx'[t].aborted => tx[t].aborted,
           pc'[a] # "calling"
    PROVE  CallsReady'
<1>1. ASSUME NEW b \in Actors, pc'[b] = "calling" PROVE ~tx'[Tx(b)'].aborted
  <2>1. b # a /\ pc[b] = "calling" /\ cur'[b] = cur[b]
    BY <1>1
  <2>2. Tx(b)' = Tx(b)
    BY <2>1 DEF Tx
  <2>3. Tx(b) \in Txs \ {Tx(a)}
    BY <2>1, TxIn, TxOwner
  <2> QED BY <2>1, <2>2, <2>3 DEF CallsReady
<1> QED BY <1>1 DEF CallsReady, Tx

LEMMA CallsReadyNext == TypeOK /\ AttemptOK /\ CallsReady /\ [Next]_vars => CallsReady'
<1> SUFFICES ASSUME TypeOK, AttemptOK, CallsReady, [Next]_vars PROVE CallsReady'
  OBVIOUS
<1>1. ASSUME NEW r \in Runners, Select(r) \/ EndBatch(r) \/ \E p \in Payments : Take(r, p)
      PROVE  CallsReady'
  <2>1. /\ r \in Actors /\ pc'[r] # "calling"
        /\ \A b \in Actors \ {r} : pc'[b] = pc[b] /\ cur'[b] = cur[b]
    BY <1>1 DEF Actors, Select, EndBatch, Take, Goto, TypeOK
  <2>2. \A t \in Txs : tx'[t].aborted => tx[t].aborted
    <3>1. CASE EndBatch(r)
      <4>1. \A t \in Txs : tx'[t] = IF t = <<r, "batch">> THEN EmptyTx ELSE tx[t]
        BY <3>1 DEF EndBatch, Commit, TypeOK
      <4> QED BY <4>1 DEF EmptyTx
    <3>2. CASE ~EndBatch(r)
      BY <1>1, <3>2 DEF Select, Take, dbVars
    <3> QED BY <3>1, <3>2
  <2> QED BY <2>1, <2>2, CallsReadyKept
<1>2. ASSUME NEW c \in Clerks, NEW o \in Orders, Request(c, o) PROVE CallsReady'
  <2>1. c \in Actors
    BY DEF Actors
  <2> QED BY <1>2, <2>1, CallsReadyKept DEF Request, Goto, TypeOK, dbVars
<1>3. ASSUME NEW a \in Actors, Configure(a) PROVE CallsReady'
  <2>1. \A b \in Actors : Tx(b)' = Tx(b)
    BY <1>3 DEF Configure, Tx
  <2> QED BY <1>3, <2>1 DEF Configure, Ready, Goto, TypeOK, dbVars, CallsReady
<1>4. ASSUME NEW a \in Actors, Throw(a), UNCHANGED cur,
             \A t \in Txs \ {Tx(a)} : tx'[t].aborted => tx[t].aborted
      PROVE  CallsReady'
  <2>1. /\ pc'[a] # "calling"
        /\ \A b \in Actors \ {a} : pc'[b] = pc[b] /\ cur'[b] = cur[b]
    BY <1>4 DEF Throw, Goto, TypeOK
  <2> QED BY <1>4, <2>1, CallsReadyKept
<1>5. ASSUME NEW a \in Actors, NotEnabled(a) \/ Unreached(a) \/ AnswerLost(a)
      PROVE  CallsReady'
  BY <1>4, <1>5 DEF NotEnabled, Unreached, AnswerLost, dbVars
<1>6. ASSUME NEW a \in Actors, StatementFails(a) PROVE CallsReady'
  <2>1. \A t \in Txs \ {Tx(a)} : tx'[t].aborted => tx[t].aborted
    BY <1>6 DEF StatementFails, TypeOK
  <2> QED BY <1>4, <1>6, <2>1 DEF StatementFails
<1>7. ASSUME NEW a \in Actors,
             \/ Issued(a) \/ Refused(a) \/ ReadRows(a) \/ SaveOrder(a) \/ InsertInvoice(a)
             \/ \E p \in Payments : SavePayment(a, p)
      PROVE  CallsReady'
  <2>1. \A t \in Txs \ {Tx(a)} : tx'[t].aborted => tx[t].aborted
    BY <1>7 DEF Issued, Refused, ReadRows, SaveOrder, InsertInvoice, SavePayment, dbVars,
                TypeOK
  <2>2. /\ pc'[a] # "calling"
        /\ \A b \in Actors \ {a} : pc'[b] = pc[b] /\ cur'[b] = cur[b]
    BY <1>7 DEF Issued, Refused, ReadRows, SaveOrder, InsertInvoice, SavePayment, Goto,
                TypeOK
  <2> QED BY <2>1, <2>2, CallsReadyKept
<1>8. ASSUME NEW a \in Actors, Finish(a) \/ Rethrow(a) PROVE CallsReady'
  <2>1. \A t \in Txs \ {Tx(a)} : tx'[t].aborted => tx[t].aborted
    BY <1>8 DEF Finish, Rethrow, Commit, dbVars, TypeOK
  <2>2. /\ pc'[a] # "calling"
        /\ \A b \in Actors \ {a} : pc'[b] = pc[b] /\ cur'[b] = cur[b]
    BY <1>8 DEF Finish, Rethrow, Continue, Goto, TypeOK
  <2> QED BY <2>1, <2>2, CallsReadyKept
<1>9. ASSUME NEW a \in Actors, Die(a) PROVE CallsReady'
  <2>1. \A t \in Txs : tx'[t] = EmptyTx \/ tx'[t] = tx[t]
    BY <1>9 DEF Die, TypeOK
  <2>2. \A t \in Txs \ {Tx(a)} : tx'[t].aborted => tx[t].aborted
    BY <2>1 DEF EmptyTx
  <2>3. /\ pc'[a] # "calling"
        /\ \A b \in Actors \ {a} : pc'[b] = pc[b] /\ cur'[b] = cur[b]
    BY <1>9 DEF Die, Goto, TypeOK
  <2> QED BY <2>3, <2>2, CallsReadyKept
<1>10. CASE UNCHANGED vars
  BY <1>10 DEF vars, dbVars, actorVars, CallsReady, Tx
<1> QED
  BY <1>1, <1>2, <1>3, <1>5, <1>6, <1>7, <1>8, <1>9, <1>10 DEF Next, Attempt

-----------------------------------------------------------------------------
(* The invariant.                                                            *)

LEMMA InvoiceInvNext == InvoiceInv /\ [Next]_vars => InvoiceInv'
BY InvoiceTypeNext, AttemptNext, AskedNext, RealNext, CallsReadyNext DEF InvoiceInv

LEMMA InvoiceInvariant == Spec => []InvoiceInv
BY InvoiceInit, InvoiceInvNext, PTL DEF Spec

-----------------------------------------------------------------------------
(* The books: what becomes of an invoice once ezPay has issued it.           *)

Answered == {"reading", "saving", "ordering", "inserting", "done", "throwing"}
Asking == {"configuring", "calling"}

(* A row is written by one open transaction at a time (the row lock), and a  *)
(* row written over one that claims an invoice claims it, too.               *)
LocksHeld == \A p \in Payments, t, u \in Txs :
                 t # u => tx[t].writes[p] = None \/ tx[u].writes[p] = None
ClaimsKept == \A t \in Txs, p \in Payments :
                 tx[t].writes[p] # None /\ pay[p].issued => tx[t].writes[p].issued

(* The runner's attempts are its own, and it takes a payment once per batch. *)
CurOK(a) ==
    /\ a \in Clerks => pc[a] # "next"
    /\ pc[a] \notin Between =>
        /\ a \in Runners => cur[a] \in OfRunner /\ cur[a][1] \notin batch[a]
        /\ a \in Clerks => cur[a] \in OfClerk /\ cur[a][1] = a

(* Where an invoice is pending: in the transaction of the attempt that got   *)
(* it, or in that of the batch, which then does not ask for it again.        *)
PlaceOK(t, n) ==
    LET a == t[1] IN
    \/ t[2] = "own" /\ pc[a] \in Answered /\ cur[a] = n /\ Tx(a) = t
    \/ /\ t[2] = "batch" /\ a \in Runners /\ n \in OfRunner /\ n[2] = 0
       /\ pc[a] # "idle" /\ n[1] \notin batch[a]
       /\ pc[a] \in Asking => cur[a] # n

(* The row of p is still to be written by the attempt that got the invoice.  *)
Underway(t, n, p) ==
    LET a == t[1] IN
    /\ Tx(a) = t /\ cur[a] = n /\ result[a] = "SUCCESS"
    /\ pc[a] = "reading" \/ (pc[a] = "saving" /\ p \in saving[a])
SaveOK(t, n) ==
    ~ tx[t].aborted => \A p \in PaymentsOf(n) : View(t, p).issued \/ Underway(t, n, p)

PendingOK == \A t \in Txs : \A n \in tx[t].pending : PlaceOK(t, n) /\ SaveOK(t, n)

Holders(n) == {t \in Txs : n \in tx[t].pending}

Accounted(n) ==
    /\ IsFiniteSet(Holders(n))
    /\ \/ invoices[n] <= lost[n] + Cardinality(Holders(n))
       \/ \A p \in PaymentsOf(n) : pay[p].issued

BooksInv ==
    /\ LocksHeld /\ ClaimsKept /\ PendingOK
    /\ \A a \in Actors : CurOK(a)
    /\ \A n \in Numbers : Accounted(n)

(* What a runner may still ask for before it selects again: the invoices of  *)
(* the payments it has still to take, the one it is about to ask for and     *)
(* those that follow it.                                                     *)
ToAsk(r, n) ==
    /\ n \in OfRunner
    /\ \/ n[1] \in batch[r]
       \/ /\ pc[r] \notin Between /\ n[1] = cur[r][1]
          /\ n[2] > cur[r][2] \/ (n[2] = cur[r][2] /\ pc[r] \in Asking)

(* An only runner asks for no invoice that exists, unless it was lost.       *)
Fresh(n) == invoices[n] <= lost[n]
FreshInv == \A r \in Runners, n \in OfRunner : ToAsk(r, n) => Fresh(n)
DuplicatesInv ==
    Cardinality(Runners) = 1 =>
        FreshInv /\ \A n \in OfRunner : invoices[n] <= lost[n] + 1

-----------------------------------------------------------------------------
(* Steps are of one actor, which leaves the others alone.                    *)

Acts(a) ==
    \/ a \in Runners /\ (Select(a) \/ EndBatch(a) \/ \E p \in Payments : Take(a, p))
    \/ a \in Clerks /\ \E o \in Orders : Request(a, o)
    \/ Attempt(a)

OthersRest(a) ==
    /\ \A b \in Actors \ {a} : /\ pc'[b] = pc[b] /\ cur'[b] = cur[b]
                               /\ result'[b] = result[b] /\ saving'[b] = saving[b]
                               /\ b \in Runners => batch'[b] = batch[b]
    /\ \A t \in Txs : t[1] # a => tx'[t] = tx[t]

LEMMA TxOf ==
    \A a \in Actors :
        /\ Tx(a) \in Txs /\ Tx(a)[1] = a
        /\ Tx(a) = <<a, "batch">> <=> a \in Runners /\ cur[a][2] = 0
        /\ Tx(a) = <<a, "own">> <=> ~(a \in Runners /\ cur[a][2] = 0)
        /\ Tx(a)[2] = "own" <=> ~(a \in Runners /\ cur[a][2] = 0)
BY DEF Tx, Txs, Actors

LEMMA TxsOf ==
    \A t \in Txs : /\ t[1] \in Actors
                   /\ t = <<t[1], "batch">> \/ t = <<t[1], "own">>
                   /\ t[2] = "batch" <=> t = <<t[1], "batch">>
                   /\ t[2] = "own" <=> t = <<t[1], "own">>
BY DEF Txs, Actors

LEMMA SomeoneActs ==
    [Next]_vars => UNCHANGED vars \/ \E a \in Actors : Acts(a)
BY DEF Next, Acts, Actors

LEMMA OnlyOneActs ==
    ASSUME TypeOK, NEW a \in Actors, Acts(a)
    PROVE  OthersRest(a)
<1>0. \A t \in Txs : t[1] # a => t # Tx(a) /\ t # <<a, "batch">>
  BY TxOf
<1>1. CASE a \in Runners /\ (Select(a) \/ EndBatch(a) \/ \E p \in Payments : Take(a, p))
  BY <1>0, <1>1 DEF OthersRest, Select, EndBatch, Take, Commit, Goto, TypeOK, dbVars
<1>2. CASE a \in Clerks /\ \E o \in Orders : Request(a, o)
  BY <1>2 DEF OthersRest, Request, Goto, TypeOK, dbVars
<1>3. CASE NotEnabled(a) \/ Unreached(a) \/ AnswerLost(a)
  BY <1>3 DEF OthersRest, NotEnabled, Unreached, AnswerLost, Throw, Goto, TypeOK, dbVars
<1>4. CASE Configure(a) \/ Refused(a) \/ ReadRows(a)
  BY <1>4 DEF OthersRest, Configure, Refused, ReadRows, Goto, TypeOK, dbVars
<1>5. CASE Issued(a) \/ SaveOrder(a) \/ InsertInvoice(a)
  BY <1>0, <1>5 DEF OthersRest, Issued, SaveOrder, InsertInvoice, Goto, TypeOK
<1>6. ASSUME NEW p \in Payments, SavePayment(a, p) PROVE OthersRest(a)
  BY <1>0, <1>6 DEF OthersRest, SavePayment, Goto, TypeOK
<1>7. CASE StatementFails(a)
  BY <1>0, <1>7 DEF OthersRest, StatementFails, Throw, Goto, TypeOK
<1>8. CASE Finish(a)
  BY <1>0, <1>8 DEF OthersRest, Finish, Commit, Continue, Goto, TypeOK, dbVars
<1>9. CASE Rethrow(a)
  BY <1>0, <1>9 DEF OthersRest, Rethrow, Continue, Goto, TypeOK, dbVars
<1>10. CASE Die(a)
  BY <1>10 DEF OthersRest, Die, Goto, TypeOK
<1> QED
  BY <1>1, <1>2, <1>3, <1>4, <1>5, <1>6, <1>7, <1>8, <1>9, <1>10 DEF Acts, Attempt

-----------------------------------------------------------------------------
(* Locks.                                                                    *)

(* A step writes no row, or one that no other transaction has written, or it *)
(* commits the rows of one transaction.                                      *)
Kept == /\ pay' = pay
        /\ \A t \in Txs : tx'[t] = EmptyTx \/ tx'[t].writes = tx[t].writes
Committed(t) == /\ t \in Txs /\ ~tx[t].aborted
                /\ pay' = [p \in Payments |-> View(t, p)]
                /\ tx' = [tx EXCEPT ![t] = EmptyTx]

LEMMA Writes ==
    ASSUME TypeOK, [Next]_vars
    PROVE  \/ Kept
           \/ \E t \in Txs : Committed(t)
           \/ \E a \in Actors, p \in Payments : SavePayment(a, p)
<1>0. ASSUME NEW t \in Txs, Commit(t) PROVE Kept \/ Committed(t)
  BY <1>0 DEF Commit, Kept, Committed, TypeOK
<1>1. ASSUME NEW r \in Runners, EndBatch(r) PROVE \E t \in Txs : Kept \/ Committed(t)
  <2>1. <<r, "batch">> \in Txs
    BY DEF Txs
  <2> QED BY <1>0, <1>1, <2>1 DEF EndBatch
<1>2. CASE UNCHANGED <<pay, tx>>
  BY <1>2 DEF Kept
<1>3. ASSUME NEW a \in Actors, Issued(a) \/ SaveOrder(a) \/ InsertInvoice(a)
      PROVE  Kept
  <2>1. pay' = pay
    BY <1>3 DEF Issued, SaveOrder, InsertInvoice
  <2>2. \A t \in Txs : tx'[t].writes = tx[t].writes
    <3>1. CASE Issued(a)
      BY <3>1, TxIn DEF Issued, TypeOK
    <3>2. CASE SaveOrder(a)
      BY <3>2, TxIn DEF SaveOrder, TypeOK
    <3>3. CASE InsertInvoice(a)
      BY <3>3, TxIn DEF InsertInvoice, TypeOK
    <3> QED BY <1>3, <3>1, <3>2, <3>3
  <2> QED BY <2>1, <2>2 DEF Kept
<1>4. ASSUME NEW a \in Actors, StatementFails(a) PROVE Kept
  BY <1>4, TxIn DEF StatementFails, Kept, TypeOK
<1>5. ASSUME NEW a \in Actors, Finish(a) PROVE \E t \in Txs : Kept \/ Committed(t)
  <2>1. Tx(a) \in Txs
    BY TxIn
  <2>2. CASE Tx(a)[2] = "own"
    BY <1>0, <1>5, <2>1, <2>2 DEF Finish
  <2>3. CASE Tx(a)[2] # "own"
    BY <1>5, <2>1, <2>3 DEF Finish, Kept, dbVars
  <2> QED BY <2>2, <2>3
<1>6. ASSUME NEW a \in Actors, Rethrow(a) \/ Die(a) PROVE Kept
  BY <1>6, TxIn DEF Rethrow, Die, Kept, TypeOK, dbVars
<1>7. \/ UNCHANGED <<pay, tx>>
      \/ \E r \in Runners : EndBatch(r)
      \/ \E a \in Actors : \/ Issued(a) \/ (\E p \in Payments : SavePayment(a, p))
                           \/ SaveOrder(a) \/ InsertInvoice(a) \/ StatementFails(a)
                           \/ Finish(a) \/ Rethrow(a) \/ Die(a)
  BY DEF Next, Attempt, vars, dbVars, Select, Take, Request, Configure, NotEnabled,
         Refused, Unreached, AnswerLost, ReadRows
<1> QED BY <1>1, <1>2, <1>3, <1>4, <1>5, <1>6, <1>7

(* What SavePayment writes.                                                  *)
LEMMA Saved ==
    ASSUME TypeOK, NEW a \in Actors, NEW p \in Payments, SavePayment(a, p)
    PROVE  /\ pay' = pay
           /\ \A t \in Txs : \A q \in Payments :
                  ~(t = Tx(a) /\ q = p) => tx'[t].writes[q] = tx[t].writes[q]
           /\ tx'[Tx(a)].writes[p] # None
           /\ tx'[Tx(a)].writes[p].issued = IssuedAt(View(Tx(a), p).issued, result[a])
           /\ \A t \in Txs : /\ tx'[t].pending = tx[t].pending
                             /\ tx'[t].aborted = tx[t].aborted
           /\ \A t \in Txs \ {Tx(a)} : tx[t].writes[p] = None
<1> DEFINE rec == [status |-> result[a], retry |-> NextRetry(seen[a][p]),
                   issued |-> IssuedAt(View(Tx(a), p).issued, result[a])]
<1>0. Tx(a) \in Txs /\ tx \in [Txs -> TxType]
  BY TxIn DEF TypeOK, TxType
<1>2. NextRetry(seen[a][p]) \in 0..MaxRetry /\ result[a] \in {"none", "SUCCESS", "FAIL"}
  BY NextRetryType DEF TypeOK
<1>3. View(Tx(a), p) \in PaymentRow
  BY <1>0, ViewType DEF TypeOK
<1>4. IssuedAt(View(Tx(a), p).issued, result[a]) \in BOOLEAN
  BY <1>3 DEF IssuedAt, PaymentRow
<1>5. rec # None
  <2>1. rec \in PaymentRow
    BY <1>2, <1>4 DEF PaymentRow
  <2> QED BY <2>1, NoneAssumption
<1>6. rec.issued = IssuedAt(View(Tx(a), p).issued, result[a])
  OBVIOUS
<1> HIDE DEF rec
<1>7. tx' = [tx EXCEPT ![Tx(a)].writes[p] = rec]
  BY DEF SavePayment, rec
<1>8. tx'[Tx(a)].writes[p] = rec
  BY <1>0, <1>7 DEF TxType
<1>9. \A t \in Txs : \A q \in Payments :
          ~(t = Tx(a) /\ q = p) => tx'[t].writes[q] = tx[t].writes[q]
  BY <1>0, <1>7 DEF TxType
<1>10. \A t \in Txs : tx'[t].pending = tx[t].pending /\ tx'[t].aborted = tx[t].aborted
  BY <1>0, <1>7 DEF TxType
<1> QED BY <1>5, <1>6, <1>8, <1>9, <1>10 DEF SavePayment

LEMMA LocksNext ==
    ASSUME TypeOK, LocksHeld, ClaimsKept, [Next]_vars
    PROVE  /\ LocksHeld' /\ ClaimsKept'
           /\ \A p \in Payments : pay[p].issued => pay'[p].issued
<1>0. \A p \in Payments : EmptyTx.writes[p] = None
  BY DEF EmptyTx, NoWrites
<1>1. CASE Kept
  <2>1. \A t \in Txs, p \in Payments :
            tx'[t].writes[p] = None \/ tx'[t].writes[p] = tx[t].writes[p]
    BY <1>0, <1>1 DEF Kept
  <2>2. LocksHeld'
    BY <2>1 DEF LocksHeld
  <2>3. ClaimsKept'
    BY <1>1, <2>1 DEF ClaimsKept, Kept
  <2> QED BY <1>1, <2>2, <2>3 DEF Kept
<1>2. ASSUME NEW t \in Txs, Committed(t)
      PROVE  /\ LocksHeld' /\ ClaimsKept'
             /\ \A p \in Payments : pay[p].issued => pay'[p].issued
  <2>1. \A u \in Txs : tx'[u] = IF u = t THEN EmptyTx ELSE tx[u]
    BY <1>2 DEF Committed, TypeOK
  <2>2. \A p \in Payments : pay'[p] = View(t, p)
    BY <1>2 DEF Committed
  <2>3. LocksHeld'
    BY <1>0, <2>1 DEF LocksHeld
  <2>4. ASSUME NEW u \in Txs, NEW p \in Payments, tx'[u].writes[p] # None, pay'[p].issued
        PROVE  tx'[u].writes[p].issued
    <3>1. u # t /\ tx'[u] = tx[u]
      BY <1>0, <2>1, <2>4
    <3>2. tx[t].writes[p] = None
      BY <2>4, <3>1 DEF LocksHeld
    <3>3. pay'[p] = pay[p]
      BY <2>2, <3>2 DEF View
    <3> QED BY <2>4, <3>1, <3>3 DEF ClaimsKept
  <2>5. ClaimsKept'
    BY <2>4 DEF ClaimsKept
  <2>6. \A p \in Payments : pay[p].issued => pay'[p].issued
    BY <2>2 DEF ClaimsKept, View
  <2> QED BY <2>3, <2>5, <2>6
<1>3. ASSUME NEW a \in Actors, NEW p \in Payments, SavePayment(a, p)
      PROVE  /\ LocksHeld' /\ ClaimsKept'
             /\ \A q \in Payments : pay[q].issued => pay'[q].issued
  <2>1. LocksHeld'
    BY <1>3, Saved DEF LocksHeld
  <2>2. ASSUME NEW t \in Txs, NEW q \in Payments, tx'[t].writes[q] # None, pay'[q].issued
        PROVE  tx'[t].writes[q].issued
    <3>1. CASE t = Tx(a) /\ q = p
      <4>1. View(t, p).issued
        BY <1>3, <2>2, <3>1, Saved DEF View, ClaimsKept
      <4> QED BY <1>3, <3>1, <4>1, Saved DEF IssuedAt
    <3>2. CASE ~(t = Tx(a) /\ q = p)
      BY <1>3, <2>2, <3>2, Saved DEF ClaimsKept
    <3> QED BY <3>1, <3>2
  <2>3. ClaimsKept'
    BY <2>2 DEF ClaimsKept
  <2> QED BY <1>3, <2>1, <2>3, Saved
<1> QED BY <1>1, <1>2, <1>3, Writes

-----------------------------------------------------------------------------
(* Attempts, and the invoices that are pending.                              *)

LEMMA NumbersApart == \A n \in OfRunner : n \notin OfClerk /\ PaymentsOf(n) = {n[1]}
BY NamesAssumption DEF OfRunner, OfClerk, PaymentsOf

LEMMA ClerksApart == \A c \in Clerks : c \notin Runners
BY NamesAssumption

LEMMA CurOther ==
    ASSUME NEW a \in Actors, NEW b \in Actors, b # a, CurOK(b), OthersRest(a)
    PROVE  CurOK(b)'
BY DEF CurOK, OthersRest

LEMMA CurSame ==
    ASSUME NEW a \in Actors, CurOK(a), cur' = cur, batch' = batch,
           pc[a] \notin Between, a \in Clerks => pc'[a] # "next"
    PROVE  CurOK(a)'
BY DEF CurOK

LEMMA ContinueCur ==
    ASSUME TypeOK, NEW a \in Actors, CurOK(a), pc[a] \notin Between, Continue(a)
    PROVE  /\ CurOK(a)'
           /\ pc'[a] \in Between \cup {"configuring"}
           /\ pc'[a] = "configuring" =>
                  /\ cur[a] \in OfRunner /\ cur[a][2] \in 1..(Parts - 1)
                  /\ cur'[a] = <<cur[a][1], cur[a][2] + 1>>
           /\ batch' = batch
           /\ a \in Runners => pc'[a] # "idle"
<1>1. CASE cur[a] \in OfRunner /\ cur[a][2] \in 1..(Parts - 1)
  <2>1. /\ cur'[a] = <<cur[a][1], cur[a][2] + 1>> /\ pc'[a] = "configuring"
        /\ batch' = batch
    BY <1>1 DEF Continue, Goto, TypeOK
  <2>2. a \in Runners
    BY <1>1, NumbersApart DEF CurOK, Actors
  <2>3. cur'[a] \in OfRunner /\ cur'[a][1] = cur[a][1]
    BY <1>1, <2>1, InvoiceCountsAssumption DEF OfRunner
  <2>4. CurOK(a)'
    BY <2>1, <2>2, <2>3, ClerksApart DEF CurOK
  <2> QED BY <1>1, <2>1, <2>2, <2>4 DEF Between
<1>2. CASE ~(cur[a] \in OfRunner /\ cur[a][2] \in 1..(Parts - 1))
  <2>1. pc'[a] = (IF a \in Runners THEN "next" ELSE "idle") /\ batch' = batch
    BY <1>2 DEF Continue, Goto, TypeOK
  <2> QED BY <2>1, ClerksApart DEF CurOK, Between
<1> QED BY <1>1, <1>2

LEMMA ThrowPc ==
    ASSUME TypeOK, NEW a \in Actors, Throw(a)
    PROVE  pc'[a] \in {"reading", "throwing"}
BY DEF Throw, Goto, TypeOK

LEMMA CurNext ==
    ASSUME TypeOK, NEW a \in Actors, CurOK(a), Acts(a)
    PROVE  CurOK(a)'
<1> USE DEF Between
<1>1. CASE a \in Runners /\ (Select(a) \/ EndBatch(a))
  BY <1>1, ClerksApart DEF Select, EndBatch, Goto, TypeOK, CurOK
<1>2. ASSUME a \in Runners, NEW p \in Payments, Take(a, p) PROVE CurOK(a)'
  <2>1. /\ cur'[a] = <<p, IF p \in split THEN 1 ELSE 0>>
        /\ p \notin batch'[a]
    BY <1>2 DEF Take, TypeOK
  <2>2. cur'[a] \in OfRunner
    BY <2>1, InvoiceCountsAssumption DEF OfRunner
  <2> QED BY <1>2, <2>1, <2>2, ClerksApart DEF CurOK
<1>3. ASSUME a \in Clerks, NEW o \in Orders, Request(a, o) PROVE CurOK(a)'
  <2>1. cur'[a] = <<a, o>> /\ pc'[a] = "configuring"
    BY <1>3 DEF Request, Goto, TypeOK
  <2>2. cur'[a] \in OfClerk
    BY <1>3, <2>1 DEF OfClerk
  <2> QED BY <1>3, <2>1, <2>2, ClerksApart DEF CurOK
<1>4. CASE NotEnabled(a) \/ Unreached(a) \/ AnswerLost(a) \/ StatementFails(a)
  BY <1>4, CurSame, ThrowPc
     DEF NotEnabled, Unreached, AnswerLost, StatementFails, Call
<1>5. CASE Configure(a) \/ Issued(a) \/ Refused(a) \/ ReadRows(a)
  BY <1>5, CurSame DEF Configure, Issued, Refused, ReadRows, Call, Goto, TypeOK
<1>6. CASE SaveOrder(a) \/ InsertInvoice(a)
  BY <1>6, CurSame DEF SaveOrder, InsertInvoice, Goto, TypeOK
<1>7. ASSUME NEW p \in Payments, SavePayment(a, p) PROVE CurOK(a)'
  BY <1>7, CurSame DEF SavePayment, Goto, TypeOK
<1>8. CASE Finish(a) \/ Rethrow(a)
  <2>1. pc[a] \notin Between /\ Continue(a)
    BY <1>8 DEF Finish, Rethrow
  <2> QED BY <2>1, ContinueCur
<1>9. CASE Die(a)
  BY <1>9 DEF Die, Goto, TypeOK, CurOK
<1> QED
  BY <1>1, <1>2, <1>3, <1>4, <1>5, <1>6, <1>7, <1>8, <1>9 DEF Acts, Attempt

LEMMA PlacesApart ==
    ASSUME NEW t \in Txs, NEW n, PlaceOK(t, n)
    PROVE  /\ pc[t[1]] # "idle"
           /\ t[2] = "own" => pc[t[1]] \in Answered /\ cur[t[1]] = n /\ Tx(t[1]) = t
           /\ t[2] = "batch" => /\ t[1] \in Runners /\ n \in OfRunner /\ n[2] = 0
                                /\ n[1] \notin batch[t[1]]
                                /\ pc[t[1]] \in Asking => cur[t[1]] # n
BY TxsOf DEF PlaceOK, Answered

LEMMA PendingOther ==
    ASSUME PendingOK, NEW a \in Actors, OthersRest(a),
           \A p \in Payments : pay[p].issued => pay'[p].issued,
           NEW t \in Txs, t[1] # a, NEW n \in Numbers, n \in tx'[t].pending
    PROVE  PlaceOK(t, n)' /\ SaveOK(t, n)'
<1>1. /\ tx'[t] = tx[t] /\ pc'[t[1]] = pc[t[1]] /\ cur'[t[1]] = cur[t[1]]
      /\ result'[t[1]] = result[t[1]] /\ saving'[t[1]] = saving[t[1]]
      /\ t[1] \in Runners => batch'[t[1]] = batch[t[1]]
  BY TxsOf DEF OthersRest
<1>2. Tx(t[1])' = Tx(t[1])
  BY <1>1 DEF Tx
<1>3. PlaceOK(t, n) /\ SaveOK(t, n)
  BY <1>1 DEF PendingOK
<1>4. PlaceOK(t, n)'
  BY <1>1, <1>2, <1>3 DEF PlaceOK
<1>5. ASSUME NEW p \in Payments, View(t, p).issued PROVE View(t, p)'.issued
  BY <1>1, <1>5 DEF View
<1>6. \A p \in PaymentsOf(n) : Underway(t, n, p) => Underway(t, n, p)'
  BY <1>1, <1>2 DEF Underway
<1>7. SaveOK(t, n)'
  <2>1. \A p \in PaymentsOf(n) : p \in Payments
    BY PaymentsOfType
  <2> QED BY <1>1, <1>3, <1>5, <1>6, <2>1 DEF SaveOK, PaymentsOf
<1> QED BY <1>4, <1>7

(* A row that claims an invoice still does after a step that leaves the      *)
(* writes of the transaction alone.                                          *)
LEMMA SaveKept ==
    ASSUME NEW t \in Txs, NEW n \in Numbers, SaveOK(t, n),
           \A p \in Payments : pay[p].issued => pay'[p].issued,
           tx'[t].writes = tx[t].writes, tx'[t].aborted = tx[t].aborted,
           pc[t[1]] \notin {"reading", "saving"} \/ Tx(t[1]) # t
    PROVE  SaveOK(t, n)'
<1>1. \A p \in PaymentsOf(n) : p \in Payments
  BY PaymentsOfType
<1>2. \A p : ~Underway(t, n, p)
  BY DEF Underway
<1> QED BY <1>1, <1>2 DEF SaveOK, View, PaymentsOf

(* A step that only takes the actor further: none of its invoices changes    *)
(* its place.                                                                *)
LEMMA PendingRest ==
    ASSUME TypeOK, PendingOK, NEW a \in Actors, CurOK(a),
           \A p \in Payments : pay[p].issued => pay'[p].issued,
           \A t \in Txs : t[1] = a => tx'[t] = tx[t],
           pc[a] \notin {"reading", "saving"}, pc'[a] # "idle",
           \/ /\ cur' = cur /\ batch' = batch
              /\ pc[a] \in Answered <=> pc'[a] \in Answered
              /\ pc[a] \in Asking <=> pc'[a] \in Asking
           \/ /\ cur' = cur /\ batch' = batch
              /\ pc[a] \in Asking /\ pc'[a] \in Answered
           \/ /\ pc[a] \notin Answered
              /\ \E p \in batch[a] : cur'[a][1] = p /\ batch'[a] = batch[a] \ {p},
           NEW t \in Txs, t[1] = a, NEW n \in Numbers, n \in tx'[t].pending
    PROVE  PlaceOK(t, n)' /\ SaveOK(t, n)'
<1>1. tx'[t] = tx[t] /\ PlaceOK(t, n) /\ SaveOK(t, n)
  BY DEF PendingOK
<1>2. cur' = cur => Tx(a)' = Tx(a)
  BY DEF Tx
<1>3. CASE t[2] = "own"
  <2>1. pc[a] \in Answered /\ cur[a] = n /\ Tx(a) = t
    BY <1>1, <1>3, PlacesApart
  <2>2. cur' = cur /\ pc'[a] \in Answered
    BY <2>1 DEF Answered, Asking
  <2> QED BY <1>1, <1>2, <1>3, <2>1, <2>2, SaveKept DEF PlaceOK
<1>4. CASE t[2] # "own"
  <2>1. t[2] = "batch"
    BY <1>4, TxsOf
  <2>2. /\ a \in Runners /\ n \in OfRunner /\ n[2] = 0 /\ n[1] \notin batch[a]
        /\ pc[a] \in Asking => cur[a] # n
    BY <1>1, <2>1, PlacesApart
  <2>3. n[1] \notin batch'[a] /\ (pc'[a] \in Asking => cur'[a] # n)
    BY <2>2 DEF Answered, Asking
  <2>4. PlaceOK(t, n)'
    BY <2>1, <2>2, <2>3 DEF PlaceOK
  <2> QED BY <1>1, <2>4, SaveKept
<1> QED BY <1>3, <1>4

(* Ending an attempt leaves only the invoices of the batch.                  *)
LEMMA PendingContinue ==
    ASSUME TypeOK, PendingOK, NEW a \in Actors, CurOK(a),
           pc[a] \in {"done", "throwing"}, Continue(a),
           \A p \in Payments : pay[p].issued => pay'[p].issued,
           \A t \in Txs : t[1] = a => tx'[t] = tx[t] \/ tx'[t] = EmptyTx,
           Tx(a)[2] = "own" => tx'[Tx(a)] = EmptyTx,
           NEW t \in Txs, t[1] = a, NEW n \in Numbers, n \in tx'[t].pending
    PROVE  PlaceOK(t, n)' /\ SaveOK(t, n)'
<1>1. tx'[t] = tx[t] /\ PlaceOK(t, n) /\ SaveOK(t, n)
  BY DEF PendingOK, EmptyTx
<1>2. t[2] = "batch"
  <2>1. CASE t[2] = "own"
    <3>1. Tx(a) = t
      BY <1>1, <2>1, PlacesApart
    <3> QED BY <2>1, <3>1 DEF EmptyTx
  <2> QED BY <2>1, TxsOf
<1>3. a \in Runners /\ n \in OfRunner /\ n[2] = 0 /\ n[1] \notin batch[a]
  BY <1>1, <1>2, PlacesApart
<1>4. pc[a] \notin Between
  BY DEF Between
<1>5. /\ pc'[a] \in Between \cup {"configuring"} /\ pc'[a] # "idle" /\ batch' = batch
      /\ pc'[a] = "configuring" => /\ cur[a] \in OfRunner /\ cur[a][2] \in 1..(Parts - 1)
                                   /\ cur'[a] = <<cur[a][1], cur[a][2] + 1>>
  BY <1>3, <1>4, ContinueCur
<1>6. pc'[a] \in Asking => cur'[a][2] # 0
  <2>1. ASSUME pc'[a] = "configuring" PROVE cur'[a][2] # 0
    <3>1. cur'[a][2] = cur[a][2] + 1 /\ cur[a][2] \in 1..(Parts - 1)
      BY <1>5, <2>1
    <3> QED BY <3>1, InvoiceCountsAssumption
  <2> QED BY <1>5, <2>1 DEF Asking, Between
<1>7. PlaceOK(t, n)'
  BY <1>2, <1>3, <1>5, <1>6 DEF PlaceOK
<1> QED BY <1>1, <1>7, SaveKept

LEMMA PendingIssued ==
    ASSUME TypeOK, AttemptOK, PendingOK, NEW a \in Actors, CurOK(a), Issued(a),
           NEW t \in Txs, t[1] = a, NEW n \in Numbers, n \in tx'[t].pending
    PROVE  PlaceOK(t, n)' /\ SaveOK(t, n)'
<1>0. pc[a] = "calling" /\ pc'[a] = "reading" /\ result'[a] = "SUCCESS"
  BY DEF Issued, Call, Goto, TypeOK
<1>1. /\ tx'[t].writes = tx[t].writes /\ tx'[t].aborted = tx[t].aborted
      /\ n \in tx[t].pending \/ (t = Tx(a) /\ n = cur[a])
      /\ cur' = cur /\ batch' = batch /\ pay' = pay
  BY TxIn DEF Issued, TypeOK
<1>2. Tx(a)' = Tx(a)
  BY <1>1 DEF Tx
<1>3. CASE n \in tx[t].pending
  <2>1. PlaceOK(t, n) /\ SaveOK(t, n)
    BY <1>3 DEF PendingOK
  <2>2. t[2] = "batch"
    BY <1>0, <2>1, PlacesApart, TxsOf DEF Answered
  <2>3. PlaceOK(t, n)'
    BY <1>0, <1>1, <2>1, <2>2, PlacesApart DEF PlaceOK, Asking
  <2> QED BY <1>0, <1>1, <2>1, <2>3, SaveKept
<1>4. CASE t = Tx(a) /\ n = cur[a]
  <2>1. PlaceOK(t, n)'
    <3>1. CASE t[2] = "own"
      BY <1>0, <1>1, <1>2, <1>4, <3>1 DEF PlaceOK, Answered
    <3>2. CASE t[2] = "batch"
      <4>1. a \in Runners /\ cur[a][2] = 0
        BY <1>4, <3>2, TxOf, TxsOf
      <4>2. cur[a] \in OfRunner /\ cur[a][1] \notin batch[a]
        BY <1>0, <4>1 DEF CurOK, Between
      <4> QED BY <1>0, <1>1, <1>4, <3>2, <4>1, <4>2 DEF PlaceOK, Asking
    <3> QED BY <3>1, <3>2, TxsOf
  <2>2. \A p : Underway(t, n, p)'
    BY <1>0, <1>1, <1>2, <1>4 DEF Underway
  <2>3. SaveOK(t, n)'
    BY <2>2 DEF SaveOK
  <2> QED BY <2>1, <2>3
<1> QED BY <1>1, <1>3, <1>4

LEMMA PendingRead ==
    ASSUME TypeOK, PendingOK, NEW a \in Actors, ReadRows(a),
           NEW t \in Txs, t[1] = a, NEW n \in Numbers, n \in tx'[t].pending
    PROVE  PlaceOK(t, n)' /\ SaveOK(t, n)'
<1>1. /\ tx' = tx /\ pay' = pay /\ cur' = cur /\ batch' = batch /\ result' = result
      /\ pc[a] = "reading" /\ pc'[a] = "saving" /\ saving'[a] = PaymentsOf(cur[a])
  BY DEF ReadRows, dbVars, Goto, TypeOK
<1>2. Tx(a)' = Tx(a)
  BY <1>1 DEF Tx
<1>3. PlaceOK(t, n) /\ SaveOK(t, n)
  BY <1>1 DEF PendingOK
<1>4. PlaceOK(t, n)'
  BY <1>1, <1>2, <1>3 DEF PlaceOK, Answered, Asking
<1>5. \A p \in PaymentsOf(n) : Underway(t, n, p) => Underway(t, n, p)'
  BY <1>1, <1>2 DEF Underway
<1>6. \A p : View(t, p)' = View(t, p)
  BY <1>1 DEF View
<1> QED BY <1>1, <1>3, <1>4, <1>5, <1>6 DEF SaveOK, PaymentsOf

LEMMA PendingSave ==
    ASSUME TypeOK, PendingOK, NEW a \in Actors, NEW q \in Payments, SavePayment(a, q),
           NEW t \in Txs, t[1] = a, NEW n \in Numbers, n \in tx'[t].pending
    PROVE  PlaceOK(t, n)' /\ SaveOK(t, n)'
<1>1. /\ cur' = cur /\ batch' = batch /\ result' = result
      /\ pc[a] = "saving" /\ q \in saving[a] /\ saving'[a] = saving[a] \ {q}
      /\ pc'[a] = (IF saving[a] = {q} THEN "ordering" ELSE "saving")
  BY DEF SavePayment, Goto, TypeOK
<1>2. Tx(a)' = Tx(a)
  BY <1>1 DEF Tx
<1>3. n \in tx[t].pending /\ tx'[t].aborted = tx[t].aborted
  BY Saved
<1>4. PlaceOK(t, n) /\ SaveOK(t, n)
  BY <1>3 DEF PendingOK
<1>5. PlaceOK(t, n)'
  BY <1>1, <1>2, <1>4 DEF PlaceOK, Answered, Asking
<1>8. /\ tx'[Tx(a)].writes[q] # None
      /\ View(Tx(a), q).issued => tx'[Tx(a)].writes[q].issued
      /\ result[a] = "SUCCESS" => tx'[Tx(a)].writes[q].issued
  <2>1. tx'[Tx(a)].writes[q].issued = IssuedAt(View(Tx(a), q).issued, result[a])
    BY Saved
  <2> QED BY <2>1, Saved DEF IssuedAt
<1>6. ASSUME NEW p \in PaymentsOf(n), ~tx[t].aborted
      PROVE  View(t, p)'.issued \/ Underway(t, n, p)'
  <2>0. p \in Payments
    BY <1>6, PaymentsOfType
  <2>1. CASE View(t, p).issued
    <3>1. CASE t = Tx(a) /\ p = q
      <4>1. tx'[t].writes[p] # None /\ tx'[t].writes[p].issued
        BY <1>8, <2>1, <3>1
      <4> QED BY <4>1 DEF View
    <3>2. CASE ~(t = Tx(a) /\ p = q)
      BY <2>0, <2>1, <3>2, Saved DEF View
    <3> QED BY <3>1, <3>2
  <2>2. CASE Underway(t, n, p)
    <3>1. t = Tx(a) /\ cur[a] = n /\ result[a] = "SUCCESS" /\ p \in saving[a]
      BY <1>1, <2>2 DEF Underway
    <3>2. CASE p = q
      <4>1. tx'[t].writes[p] # None /\ tx'[t].writes[p].issued
        BY <1>8, <3>1, <3>2
      <4> QED BY <4>1 DEF View
    <3>3. CASE p # q
      BY <1>1, <1>2, <3>1, <3>3 DEF Underway
    <3> QED BY <3>2, <3>3
  <2> QED BY <1>4, <1>6, <2>1, <2>2 DEF SaveOK
<1>7. SaveOK(t, n)'
  BY <1>3, <1>6 DEF SaveOK, PaymentsOf
<1> QED BY <1>5, <1>7

(* SaveOrder and InsertInvoice write no payment.                             *)
LEMMA PendingOrder ==
    ASSUME TypeOK, PendingOK, NEW a \in Actors, SaveOrder(a) \/ InsertInvoice(a),
           NEW t \in Txs, t[1] = a, NEW n \in Numbers, n \in tx'[t].pending
    PROVE  PlaceOK(t, n)' /\ SaveOK(t, n)'
<1>1. /\ cur' = cur /\ batch' = batch /\ pay' = pay
      /\ pc[a] \in {"ordering", "inserting"}
      /\ pc'[a] \in {"throwing", "inserting", "done"}
  BY DEF SaveOrder, InsertInvoice, Goto, TypeOK
<1>2. /\ tx'[t].writes = tx[t].writes /\ tx'[t].aborted = tx[t].aborted
      /\ tx'[t].pending = tx[t].pending
  <2>1. CASE SaveOrder(a)
    BY <2>1, TxIn DEF SaveOrder, TypeOK
  <2>2. CASE InsertInvoice(a)
    BY <2>2, TxIn DEF InsertInvoice, TypeOK
  <2> QED BY <2>1, <2>2
<1>3. Tx(a)' = Tx(a)
  BY <1>1 DEF Tx
<1>4. PlaceOK(t, n) /\ SaveOK(t, n)
  BY <1>2 DEF PendingOK
<1>5. PlaceOK(t, n)'
  BY <1>1, <1>3, <1>4 DEF PlaceOK, Answered, Asking
<1> QED BY <1>1, <1>2, <1>4, <1>5, SaveKept

LEMMA PendingFails ==
    ASSUME TypeOK, PendingOK, NEW a \in Actors, StatementFails(a),
           NEW t \in Txs, t[1] = a, NEW n \in Numbers, n \in tx'[t].pending
    PROVE  PlaceOK(t, n)' /\ SaveOK(t, n)'
<1>1. /\ cur' = cur /\ batch' = batch /\ pay' = pay
      /\ pc'[a] \in {"reading", "throwing"} /\ pc[a] # "calling"
  BY ThrowPc DEF StatementFails
<1>2. /\ tx'[t].writes = tx[t].writes /\ tx'[t].pending = tx[t].pending
      /\ t = Tx(a) => tx'[t].aborted
      /\ t # Tx(a) => tx'[t].aborted = tx[t].aborted
  <2>1. tx' = [tx EXCEPT ![Tx(a)] = [@ EXCEPT !.aborted = TRUE]]
    BY DEF StatementFails
  <2>2. t # Tx(a) => tx'[t] = tx[t]
    BY <2>1 DEF TypeOK
  <2>3. t = Tx(a) => tx'[t] = [tx[t] EXCEPT !.aborted = TRUE]
    BY <2>1 DEF TypeOK
  <2>4. tx[t] \in TxType
    BY DEF TypeOK, TxType
  <2> QED BY <2>2, <2>3, <2>4 DEF TxType
<1>3. Tx(a)' = Tx(a)
  BY <1>1 DEF Tx
<1>4. PlaceOK(t, n) /\ SaveOK(t, n)
  BY <1>2 DEF PendingOK
<1>5. PlaceOK(t, n)'
  BY <1>1, <1>3, <1>4 DEF PlaceOK, Answered, Asking
<1>6. CASE t = Tx(a)
  BY <1>2, <1>5, <1>6 DEF SaveOK
<1>7. CASE t # Tx(a)
  <2>1. tx'[t].aborted = tx[t].aborted
    BY <1>2, <1>7 DEF TypeOK
  <2> QED BY <1>1, <1>2, <1>4, <1>5, <1>7, <2>1, SaveKept
<1> QED BY <1>6, <1>7

LEMMA PendingNext ==
    ASSUME InvoiceInv, LocksHeld, ClaimsKept, PendingOK, \A a \in Actors : CurOK(a),
           [Next]_vars
    PROVE  PendingOK'
<1>0. /\ TypeOK /\ AttemptOK
      /\ \A p \in Payments : pay[p].issued => pay'[p].issued
  BY LocksNext DEF InvoiceInv
<1>1. CASE UNCHANGED vars
  BY <1>1 DEF vars, dbVars, actorVars, PendingOK, PlaceOK, SaveOK, Tx, View, Underway,
              PaymentsOf
<1>2. ASSUME NEW a \in Actors, Acts(a) PROVE PendingOK'
  <2>0. OthersRest(a) /\ CurOK(a)
    BY <1>0, <1>2, OnlyOneActs
  <2> SUFFICES ASSUME NEW t \in Txs, t[1] = a, NEW n \in Numbers, n \in tx'[t].pending
               PROVE  PlaceOK(t, n)' /\ SaveOK(t, n)'
    <3>1. tx' \in [Txs -> TxType]
      BY InvoiceInvNext DEF InvoiceInv, TypeOK, TxType
    <3> QED BY <1>0, <2>0, <3>1, PendingOther DEF PendingOK, TxType
  <2>1. CASE (a \in Runners /\ Select(a)) \/ (a \in Clerks /\ \E o \in Orders : Request(a, o))
    <3>1. pc[a] = "idle" /\ n \in tx[t].pending
      BY <2>1 DEF Select, Request, dbVars
    <3> QED BY <3>1, PlacesApart DEF PendingOK
  <2>2. CASE EndBatch(a)
    <3>1. t # <<a, "batch">> /\ tx'[t] = tx[t] /\ pc[a] = "next"
      BY <1>0, <2>2 DEF EndBatch, Commit, TypeOK, EmptyTx
    <3> QED BY <3>1, PlacesApart, TxsOf DEF PendingOK, Answered
  <2>3. ASSUME a \in Runners, NEW p \in Payments, Take(a, p)
        PROVE  PlaceOK(t, n)' /\ SaveOK(t, n)'
    <3>1. /\ tx' = tx /\ pc[a] = "next" /\ pc'[a] = "configuring" /\ p \in batch[a]
          /\ cur'[a][1] = p /\ batch'[a] = batch[a] \ {p}
      BY <1>0, <2>3 DEF Take, Goto, TypeOK, dbVars
    <3> QED BY <1>0, <2>0, <3>1, PendingRest DEF Answered
  <2>4. CASE Configure(a) \/ NotEnabled(a) \/ Refused(a) \/ Unreached(a) \/ AnswerLost(a)
    <3>1. /\ cur' = cur /\ batch' = batch /\ tx' = tx
          /\ pc[a] \in {"configuring", "calling"}
      BY <2>4 DEF Configure, NotEnabled, Refused, Unreached, AnswerLost, Call, dbVars
    <3>2. \/ pc'[a] = "calling"
          \/ pc'[a] \in {"reading", "throwing"}
      BY <1>0, <2>4, ThrowPc DEF Configure, NotEnabled, Refused, Unreached, AnswerLost,
                                 Goto, TypeOK
    <3> QED BY <1>0, <2>0, <3>1, <3>2, PendingRest DEF Answered, Asking
  <2>5. CASE Issued(a)
    BY <1>0, <2>0, <2>5, PendingIssued
  <2>6. CASE ReadRows(a)
    BY <1>0, <2>6, PendingRead
  <2>7. ASSUME NEW p \in Payments, SavePayment(a, p) PROVE PlaceOK(t, n)' /\ SaveOK(t, n)'
    BY <1>0, <2>7, PendingSave
  <2>8. CASE SaveOrder(a) \/ InsertInvoice(a)
    BY <1>0, <2>8, PendingOrder
  <2>9. CASE StatementFails(a)
    BY <1>0, <2>9, PendingFails
  <2>10. CASE Finish(a) \/ Rethrow(a)
    <3>1. /\ pc[a] \in {"done", "throwing"} /\ Continue(a)
          /\ \A u \in Txs : tx'[u] = tx[u] \/ tx'[u] = EmptyTx
          /\ Tx(a)[2] = "own" => tx'[Tx(a)] = EmptyTx
      <4>1. Tx(a)[2] = "own" => tx' = [tx EXCEPT ![Tx(a)] = EmptyTx]
        BY <2>10 DEF Finish, Rethrow, Commit
      <4>2. Tx(a)[2] # "own" => tx' = tx
        BY <2>10 DEF Finish, Rethrow, dbVars
      <4>3. pc[a] \in {"done", "throwing"} /\ Continue(a)
        BY <2>10 DEF Finish, Rethrow
      <4> QED BY <1>0, <4>1, <4>2, <4>3, TxIn DEF TypeOK
    <3> QED BY <1>0, <2>0, <3>1, PendingContinue
  <2>11. CASE Die(a)
    <3>1. tx'[t] = EmptyTx
      BY <2>11 DEF Die
    <3> QED BY <3>1 DEF EmptyTx
  <2> QED
    BY <1>2, <2>1, <2>2, <2>3, <2>4, <2>5, <2>6, <2>7, <2>8, <2>9, <2>10, <2>11
       DEF Acts, Attempt
<1> QED BY <1>1, <1>2, SomeoneActs

-----------------------------------------------------------------------------
(* The accounts: how a step changes what is issued, pending and lost.        *)

ClaimsGrow == \A p \in Payments : pay[p].issued => pay'[p].issued

LEMMA AccountKept ==
    ASSUME TypeOK, TypeOK', ClaimsGrow, NEW n \in Numbers, Accounted(n),
           Holders(n)' = Holders(n),
           \/ invoices'[n] = invoices[n] /\ lost'[n] = lost[n]
           \/ invoices'[n] = invoices[n] + 1 /\ lost'[n] = lost[n] + 1
    PROVE  Accounted(n)'
<1>1. IsFiniteSet(Holders(n)) /\ Cardinality(Holders(n)) \in Nat
  BY FS_CardinalityType DEF Accounted
<1>2. /\ invoices[n] \in Int /\ lost[n] \in Nat
      /\ invoices'[n] \in Int /\ lost'[n] \in Nat
  BY InvoiceCountsAssumption DEF TypeOK
<1>3. \A p \in PaymentsOf(n) : p \in Payments
  BY PaymentsOfType
<1>4. CASE \A p \in PaymentsOf(n) : pay[p].issued
  BY <1>1, <1>3, <1>4 DEF Accounted, ClaimsGrow, PaymentsOf
<1>5. CASE invoices[n] <= lost[n] + Cardinality(Holders(n))
  <2>1. invoices'[n] <= lost'[n] + Cardinality(Holders(n))
    BY <1>1, <1>2, <1>5
  <2>2. IsFiniteSet(Holders(n)') /\ Cardinality(Holders(n)') = Cardinality(Holders(n))
    BY <1>1
  <2> QED BY <2>1, <2>2 DEF Accounted
<1> QED BY <1>4, <1>5 DEF Accounted

LEMMA AccountAdded ==
    ASSUME TypeOK, TypeOK', ClaimsGrow, NEW n \in Numbers, Accounted(n),
           NEW u, u \notin Holders(n), Holders(n)' = Holders(n) \cup {u},
           invoices'[n] = invoices[n] + 1, lost'[n] = lost[n]
    PROVE  Accounted(n)'
<1>1. IsFiniteSet(Holders(n)) /\ Cardinality(Holders(n)) \in Nat
  BY FS_CardinalityType DEF Accounted
<1>2. /\ IsFiniteSet(Holders(n) \cup {u})
      /\ Cardinality(Holders(n) \cup {u}) = Cardinality(Holders(n)) + 1
  BY <1>1, FS_AddElement
<1>3. invoices[n] \in Int /\ lost[n] \in Nat
  BY InvoiceCountsAssumption DEF TypeOK
<1>4. \A p \in PaymentsOf(n) : p \in Payments
  BY PaymentsOfType
<1>5. CASE \A p \in PaymentsOf(n) : pay[p].issued
  BY <1>2, <1>4, <1>5 DEF Accounted, ClaimsGrow, PaymentsOf
<1>6. CASE invoices[n] <= lost[n] + Cardinality(Holders(n))
  <2>1. invoices'[n] <= lost'[n] + Cardinality(Holders(n) \cup {u})
    BY <1>1, <1>2, <1>3, <1>6
  <2> QED BY <1>2, <2>1 DEF Accounted
<1> QED BY <1>5, <1>6 DEF Accounted

(* A transaction that had an invoice pending is rolled back, or committed.   *)
LEMMA AccountTaken ==
    ASSUME TypeOK, TypeOK', ClaimsGrow, NEW n \in Numbers, Accounted(n),
           NEW u, u \in Holders(n), Holders(n)' = Holders(n) \ {u},
           invoices'[n] = invoices[n],
           lost'[n] = lost[n] + 1 \/ \A p \in PaymentsOf(n) : pay'[p].issued
    PROVE  Accounted(n)'
<1>1. IsFiniteSet(Holders(n)) /\ Cardinality(Holders(n)) \in Nat
  BY FS_CardinalityType DEF Accounted
<1>2. /\ IsFiniteSet(Holders(n) \ {u})
      /\ Cardinality(Holders(n) \ {u}) = Cardinality(Holders(n)) - 1
  BY <1>1, FS_RemoveElement
<1>3. invoices[n] \in Int /\ lost[n] \in Nat
  BY InvoiceCountsAssumption DEF TypeOK
<1>4. \A p \in PaymentsOf(n) : p \in Payments
  BY PaymentsOfType
<1>5. CASE \A p \in PaymentsOf(n) : pay[p].issued
  BY <1>2, <1>4, <1>5 DEF Accounted, ClaimsGrow, PaymentsOf
<1>6. CASE \A p \in PaymentsOf(n) : pay'[p].issued
  BY <1>2, <1>6 DEF Accounted, PaymentsOf
<1>7. CASE lost'[n] = lost[n] + 1 /\ invoices[n] <= lost[n] + Cardinality(Holders(n))
  <2>1. invoices'[n] <= lost'[n] + Cardinality(Holders(n) \ {u})
    BY <1>1, <1>2, <1>3, <1>7
  <2> QED BY <1>2, <2>1 DEF Accounted
<1> QED BY <1>5, <1>6, <1>7 DEF Accounted

(* One transaction ends.                                                     *)
LEMMA HoldersEnd ==
    ASSUME TypeOK, NEW t \in Txs, tx' = [tx EXCEPT ![t] = EmptyTx], NEW n
    PROVE  Holders(n)' = Holders(n) \ {t}
BY DEF Holders, EmptyTx, TypeOK

LEMMA AccountRolled ==
    ASSUME TypeOK, TypeOK', ClaimsGrow, NEW t \in Txs, NEW n \in Numbers, Accounted(n),
           tx' = [tx EXCEPT ![t] = EmptyTx], lost' = Lose(tx[t].pending),
           invoices' = invoices
    PROVE  Accounted(n)'
<1>1. Holders(n)' = Holders(n) \ {t} /\ (t \in Holders(n) <=> n \in tx[t].pending)
  BY HoldersEnd DEF Holders
<1>2. CASE t \in Holders(n)
  <2>1. lost'[n] = lost[n] + 1
    BY <1>1, <1>2 DEF Lose
  <2> QED BY <1>1, <1>2, <2>1, AccountTaken
<1>3. CASE t \notin Holders(n)
  <2>1. lost'[n] = lost[n] /\ Holders(n)' = Holders(n)
    BY <1>1, <1>3 DEF Lose
  <2> QED BY <2>1, AccountKept
<1> QED BY <1>2, <1>3

(* The rows of what is pending are written when the transaction commits.     *)
LEMMA AccountCommitted ==
    ASSUME TypeOK, TypeOK', ClaimsGrow, PendingOK, NEW t \in Txs, NEW n \in Numbers,
           Accounted(n), Commit(t), ~tx[t].aborted, invoices' = invoices,
           pc[t[1]] \notin {"reading", "saving"}
    PROVE  Accounted(n)'
<1>1. /\ Holders(n)' = Holders(n) \ {t} /\ (t \in Holders(n) <=> n \in tx[t].pending)
      /\ lost' = lost
  BY HoldersEnd DEF Holders, Commit
<1>2. CASE t \in Holders(n)
  <2>1. \A p \in PaymentsOf(n) : View(t, p).issued
    BY <1>1, <1>2 DEF PendingOK, SaveOK, Underway
  <2>2. \A p \in PaymentsOf(n) : p \in Payments
    BY PaymentsOfType
  <2>3. \A p \in PaymentsOf(n) : pay'[p].issued
    BY <2>1, <2>2 DEF Commit
  <2> QED BY <1>1, <1>2, <2>3, AccountTaken
<1>3. CASE t \notin Holders(n)
  <2>1. Holders(n)' = Holders(n)
    BY <1>1, <1>3
  <2> QED BY <1>1, <2>1, AccountKept
<1> QED BY <1>2, <1>3

LEMMA AccountCommit ==
    ASSUME TypeOK, TypeOK', ClaimsGrow, PendingOK, NEW t \in Txs, NEW n \in Numbers,
           Accounted(n), Commit(t), invoices' = invoices,
           pc[t[1]] \notin {"reading", "saving"}
    PROVE  Accounted(n)'
<1>1. CASE tx[t].aborted
  BY <1>1, AccountRolled DEF Commit
<1>2. CASE ~tx[t].aborted
  BY <1>2, AccountCommitted
<1> QED BY <1>1, <1>2

(* An actor has an invoice pending in one of its transactions at most.       *)
LEMMA AccountDied ==
    ASSUME TypeOK, TypeOK', ClaimsGrow, PendingOK, NEW a \in Actors, Die(a),
           NEW n \in Numbers, Accounted(n)
    PROVE  Accounted(n)'
<1> DEFINE open == {t \in Txs : t[1] = a}
<1>1. \A t \in Txs : tx'[t] = IF t \in open THEN EmptyTx ELSE tx[t]
  BY DEF Die, TypeOK
<1>2. Holders(n)' = Holders(n) \ open
  BY <1>1 DEF Holders, EmptyTx
<1>3. /\ lost'[n] = (IF n \in UNION {tx[t].pending : t \in open} THEN lost[n] + 1 ELSE lost[n])
      /\ invoices' = invoices
  BY DEF Die, Lose, ezpayVars
<1>4. n \in UNION {tx[t].pending : t \in open} <=> Holders(n) \cap open # {}
  BY DEF Holders
<1>5. \A t, u \in Holders(n) \cap open : t = u
  <2>1. \A t \in Holders(n) \cap open : t \in Txs /\ t[1] = a /\ PlaceOK(t, n)
    BY DEF Holders, PendingOK
  <2>2. ASSUME NEW t \in Holders(n) \cap open, t[2] = "own",
               NEW u \in Holders(n) \cap open, u[2] = "batch"
        PROVE  FALSE
    <3>1. cur[a] = n /\ Tx(a) = t
      BY <2>1, <2>2, PlacesApart
    <3>2. a \in Runners /\ n[2] = 0
      BY <2>1, <2>2, PlacesApart
    <3> QED BY <2>2, <3>1, <3>2, TxOf
  <2>3. \A t \in Holders(n) \cap open :
            \/ t = <<a, "batch">> /\ t[2] = "batch"
            \/ t = <<a, "own">> /\ t[2] = "own"
    BY <2>1, TxsOf
  <2> QED BY <2>2, <2>3
<1> HIDE DEF open
<1>6. CASE Holders(n) \cap open = {}
  <2>1. Holders(n)' = Holders(n) /\ lost'[n] = lost[n]
    BY <1>2, <1>3, <1>4, <1>6
  <2> QED BY <1>3, <2>1, AccountKept
<1>7. CASE Holders(n) \cap open # {}
  <2>1. PICK u \in Holders(n) \cap open : TRUE
    BY <1>7
  <2>2. Holders(n)' = Holders(n) \ {u} /\ lost'[n] = lost[n] + 1 /\ u \in Holders(n)
    BY <1>2, <1>3, <1>4, <1>5, <1>7, <2>1
  <2> QED BY <1>3, <2>2, AccountTaken
<1> QED BY <1>6, <1>7

LEMMA AccountIssued ==
    ASSUME TypeOK, TypeOK', AttemptOK, ClaimsGrow, PendingOK, NEW a \in Actors,
           Issued(a), NEW n \in Numbers, Accounted(n)
    PROVE  Accounted(n)'
<1>0. pc[a] = "calling" /\ lost' = lost /\ cur[a] \in Numbers
  BY DEF Issued, Call, AttemptOK, Between
<1>1. \A t \in Txs : tx'[t].pending = IF t = Tx(a) THEN tx[t].pending \cup {cur[a]}
                                      ELSE tx[t].pending
  BY TxIn DEF Issued, TypeOK
<1>2. CASE n = cur[a]
  <2>1. Holders(n)' = Holders(n) \cup {Tx(a)}
    BY <1>1, <1>2, TxIn DEF Holders
  <2>2. Tx(a) \notin Holders(n)
    <3>1. ASSUME n \in tx[Tx(a)].pending PROVE FALSE
      <4>1. PlaceOK(Tx(a), n)
        BY <3>1, TxIn DEF PendingOK
      <4> QED BY <1>0, <1>2, <4>1, PlacesApart, TxOf, TxsOf DEF Answered, Asking
    <3> QED BY <3>1 DEF Holders
  <2>3. invoices'[n] = invoices[n] + 1
    BY <1>2 DEF Issued, NewInvoice, TypeOK
  <2> QED BY <1>0, <2>1, <2>2, <2>3, AccountAdded
<1>3. CASE n # cur[a]
  <2>1. Holders(n)' = Holders(n) /\ invoices'[n] = invoices[n]
    BY <1>0, <1>1, <1>3 DEF Holders, Issued, NewInvoice, TypeOK
  <2> QED BY <1>0, <2>1, AccountKept
<1> QED BY <1>2, <1>3

LEMMA AccountsNext ==
    ASSUME InvoiceInv, LocksHeld, ClaimsKept, PendingOK, [Next]_vars,
           NEW n \in Numbers, Accounted(n)
    PROVE  Accounted(n)'
<1>0. TypeOK /\ TypeOK' /\ AttemptOK /\ ClaimsGrow
  BY LocksNext, InvoiceInvNext DEF InvoiceInv, ClaimsGrow
<1>1. CASE /\ \A t \in Txs : tx'[t].pending = tx[t].pending
           /\ lost' = lost /\ invoices' = invoices
  <2>1. Holders(n)' = Holders(n)
    BY <1>1 DEF Holders
  <2> QED BY <1>0, <1>1, <2>1, AccountKept
<1>2. ASSUME NEW r \in Runners, EndBatch(r) PROVE Accounted(n)'
  <2>1. <<r, "batch">> \in Txs /\ <<r, "batch">>[1] = r /\ Commit(<<r, "batch">>)
    BY <1>2 DEF EndBatch, Txs
  <2> QED BY <1>0, <1>2, <2>1, AccountCommit DEF EndBatch, ezpayVars
<1>3. ASSUME NEW a \in Actors, Issued(a) PROVE Accounted(n)'
  BY <1>0, <1>3, AccountIssued
<1>4. ASSUME NEW a \in Actors, AnswerLost(a) PROVE Accounted(n)'
  <2>1. cur[a] \in Numbers /\ tx' = tx
    BY <1>0, <1>4 DEF AnswerLost, Call, AttemptOK, Between, dbVars
  <2>2. Holders(n)' = Holders(n)
    BY <2>1 DEF Holders
  <2>3. CASE n = cur[a]
    <3>1. invoices'[n] = invoices[n] + 1 /\ lost'[n] = lost[n] + 1
      BY <1>0, <1>4, <2>3 DEF AnswerLost, NewInvoice, Lose, TypeOK
    <3> QED BY <1>0, <2>2, <3>1, AccountKept
  <2>4. CASE n # cur[a]
    <3>1. invoices'[n] = invoices[n] /\ lost'[n] = lost[n]
      BY <1>0, <1>4, <2>1, <2>4 DEF AnswerLost, NewInvoice, Lose, TypeOK
    <3> QED BY <1>0, <2>2, <3>1, AccountKept
  <2> QED BY <2>3, <2>4
<1>5. ASSUME NEW a \in Actors, NEW p \in Payments, SavePayment(a, p) PROVE Accounted(n)'
  BY <1>0, <1>1, <1>5, Saved DEF SavePayment, ezpayVars
<1>6. ASSUME NEW a \in Actors, SaveOrder(a) \/ InsertInvoice(a) \/ StatementFails(a)
      PROVE  Accounted(n)'
  <2>1. \A t \in Txs : tx'[t].pending = tx[t].pending
    <3>1. CASE SaveOrder(a)
      BY <1>0, <3>1, TxIn DEF SaveOrder, TypeOK
    <3>2. CASE InsertInvoice(a)
      BY <1>0, <3>2, TxIn DEF InsertInvoice, TypeOK
    <3>3. CASE StatementFails(a)
      BY <1>0, <3>3, TxIn DEF StatementFails, TypeOK
    <3> QED BY <1>6, <3>1, <3>2, <3>3
  <2> QED BY <1>1, <1>6, <2>1 DEF SaveOrder, InsertInvoice, StatementFails, ezpayVars
<1>7. ASSUME NEW a \in Actors, Finish(a) PROVE Accounted(n)'
  <2>1. CASE Tx(a)[2] = "own"
    BY <1>0, <1>7, <2>1, TxOf, AccountCommit DEF Finish, ezpayVars
  <2>2. CASE Tx(a)[2] # "own"
    BY <1>1, <1>7, <2>2 DEF Finish, dbVars, ezpayVars
  <2> QED BY <2>1, <2>2
<1>8. ASSUME NEW a \in Actors, Rethrow(a) PROVE Accounted(n)'
  <2>1. CASE Tx(a)[2] = "own"
    BY <1>0, <1>8, <2>1, TxOf, AccountRolled DEF Rethrow, ezpayVars
  <2>2. CASE Tx(a)[2] # "own"
    BY <1>1, <1>8, <2>2 DEF Rethrow, dbVars, ezpayVars
  <2> QED BY <2>1, <2>2
<1>9. ASSUME NEW a \in Actors, Die(a) PROVE Accounted(n)'
  BY <1>0, <1>9, AccountDied
<1>10. CASE UNCHANGED <<tx, lost, invoices>>
  BY <1>1, <1>10
<1>11. \/ UNCHANGED <<tx, lost, invoices>>
       \/ \E r \in Runners : EndBatch(r)
       \/ \E a \in Actors :
              \/ Issued(a) \/ AnswerLost(a) \/ (\E p \in Payments : SavePayment(a, p))
              \/ SaveOrder(a) \/ InsertInvoice(a) \/ StatementFails(a)
              \/ Finish(a) \/ Rethrow(a) \/ Die(a)
  BY DEF Next, Attempt, vars, dbVars, ezpayVars, Select, Take, Request, Configure,
         NotEnabled, Refused, Unreached, ReadRows
<1> QED BY <1>2, <1>3, <1>4, <1>5, <1>6, <1>7, <1>8, <1>9, <1>10, <1>11

LEMMA BooksInit == Init => BooksInv
<1> SUFFICES ASSUME Init PROVE BooksInv
  OBVIOUS
<1>1. \A t \in Txs : tx[t].pending = {} /\ tx[t].writes = NoWrites
  BY DEF Init, EmptyTx
<1>2. LocksHeld /\ ClaimsKept /\ PendingOK
  BY <1>1 DEF LocksHeld, ClaimsKept, PendingOK, NoWrites
<1>3. \A a \in Actors : CurOK(a)
  BY DEF Init, CurOK, Between
<1>4. ASSUME NEW n \in Numbers PROVE Accounted(n)
  <2>1. Holders(n) = {}
    BY <1>1 DEF Holders
  <2>2. IsFiniteSet(Holders(n)) /\ Cardinality(Holders(n)) = 0
    BY <2>1, FS_EmptySet
  <2> QED BY <2>2 DEF Accounted, Init
<1> QED BY <1>2, <1>3, <1>4 DEF BooksInv

LEMMA BooksNext == InvoiceInv /\ BooksInv /\ [Next]_vars => BooksInv'
<1> SUFFICES ASSUME InvoiceInv, BooksInv, [Next]_vars PROVE BooksInv'
  OBVIOUS
<1>0. /\ TypeOK /\ LocksHeld /\ ClaimsKept /\ PendingOK
      /\ \A a \in Actors : CurOK(a)
      /\ \A n \in Numbers : Accounted(n)
  BY DEF BooksInv, InvoiceInv
<1>1. LocksHeld' /\ ClaimsKept'
  BY <1>0, LocksNext
<1>2. PendingOK'
  BY <1>0, PendingNext
<1>3. \A n \in Numbers : Accounted(n)'
  BY <1>0, AccountsNext
<1>4. ASSUME NEW b \in Actors PROVE CurOK(b)'
  <2>1. CASE UNCHANGED vars
    BY <1>0, <2>1 DEF vars, actorVars, CurOK
  <2>2. ASSUME NEW a \in Actors, Acts(a) PROVE CurOK(b)'
    BY <1>0, <2>2, OnlyOneActs, CurOther, CurNext
  <2> QED BY <2>1, <2>2, SomeoneActs
<1> QED BY <1>1, <1>2, <1>3, <1>4 DEF BooksInv

LEMMA BooksInvariant == Spec => [](InvoiceInv /\ BooksInv)
<1>1. InvoiceInv /\ BooksInv /\ [Next]_vars => (InvoiceInv /\ BooksInv)'
  BY InvoiceInvNext, BooksNext
<1> QED BY <1>1, InvoiceInit, BooksInit, PTL DEF Spec

-----------------------------------------------------------------------------
(* One runner.                                                               *)

(* An invoice is issued only by an actor whose attempt has its number.       *)
LEMMA FreshKept ==
    ASSUME TypeOK, AttemptOK, [Next]_vars, NEW n \in Numbers, NEW k \in Nat
    PROVE  \/ invoices[n] <= lost[n] + k => invoices'[n] <= lost'[n] + k
           \/ \E a \in Actors : Issued(a) /\ cur[a] = n
<1>0. /\ invoices[n] \in Int /\ lost[n] \in Nat
      /\ \A ns : Lose(ns)[n] \in {lost[n], lost[n] + 1}
  BY InvoiceCountsAssumption DEF TypeOK, Lose
<1>1. CASE invoices' = invoices /\ (lost' = lost \/ \E ns : lost' = Lose(ns))
  BY <1>0, <1>1
<1>2. ASSUME NEW a \in Actors, AnswerLost(a)
      PROVE  invoices[n] <= lost[n] + k => invoices'[n] <= lost'[n] + k
  <2>1. CASE n = cur[a]
    <3>1. invoices'[n] = invoices[n] + 1 /\ lost'[n] = lost[n] + 1
      BY <1>2, <2>1 DEF AnswerLost, NewInvoice, Lose, TypeOK
    <3> QED BY <1>0, <3>1
  <2>2. CASE n # cur[a]
    <3>1. cur[a] \in Numbers
      BY <1>2 DEF AnswerLost, Call, AttemptOK, Between
    <3>2. invoices'[n] = invoices[n] /\ lost'[n] = lost[n]
      BY <1>2, <2>2, <3>1 DEF AnswerLost, NewInvoice, Lose, TypeOK
    <3> QED BY <3>2
  <2> QED BY <2>1, <2>2
<1>3. ASSUME NEW a \in Actors, Issued(a), cur[a] # n
      PROVE  invoices[n] <= lost[n] + k => invoices'[n] <= lost'[n] + k
  <2>1. cur[a] \in Numbers
    BY <1>3 DEF Issued, Call, AttemptOK, Between
  <2>2. invoices'[n] = invoices[n] /\ lost'[n] = lost[n]
    BY <1>3, <2>1 DEF Issued, NewInvoice, TypeOK
  <2> QED BY <2>2
<1>4. \/ invoices' = invoices /\ (lost' = lost \/ \E ns : lost' = Lose(ns))
      \/ \E a \in Actors : AnswerLost(a) \/ Issued(a)
  <2>1. CASE \/ UNCHANGED <<lost, invoices>>
             \/ \E a \in Actors : AnswerLost(a) \/ Issued(a)
    BY <2>1
  <2>2. ASSUME NEW t, Commit(t) PROVE lost' = lost \/ \E ns : lost' = Lose(ns)
    BY <2>2 DEF Commit
  <2>3. ASSUME NEW r \in Runners, EndBatch(r)
        PROVE  invoices' = invoices /\ (lost' = lost \/ \E ns : lost' = Lose(ns))
    BY <2>2, <2>3 DEF EndBatch, ezpayVars
  <2>4. ASSUME NEW a \in Actors, Finish(a)
        PROVE  invoices' = invoices /\ (lost' = lost \/ \E ns : lost' = Lose(ns))
    BY <2>2, <2>4 DEF Finish, ezpayVars
  <2>5. ASSUME NEW a \in Actors, Rethrow(a) \/ Die(a)
        PROVE  invoices' = invoices /\ (lost' = lost \/ \E ns : lost' = Lose(ns))
    BY <2>5 DEF Rethrow, Die, ezpayVars
  <2>6. \/ UNCHANGED <<lost, invoices>>
        \/ \E r \in Runners : EndBatch(r)
        \/ \E a \in Actors : Issued(a) \/ AnswerLost(a) \/ Finish(a) \/ Rethrow(a) \/ Die(a)
    BY DEF Next, Attempt, vars, dbVars, ezpayVars, Select, Take, Request, Configure,
           NotEnabled, Refused, Unreached, ReadRows, SavePayment, SaveOrder,
           InsertInvoice, StatementFails
  <2> QED BY <2>1, <2>3, <2>4, <2>5, <2>6
<1> QED BY <1>1, <1>2, <1>3, <1>4

(* What a selected payment lacks, ezPay has not issued, or it is lost: with  *)
(* nobody in an attempt of the runner, nothing of it is pending.             *)
LEMMA SelectedFresh ==
    ASSUME TypeOK, PendingOK, \A a \in Actors : CurOK(a),
           NEW r \in Runners, Runners = {r}, pc[r] = "idle",
           NEW n \in OfRunner, Accounted(n), ~pay[n[1]].issued
    PROVE  Fresh(n)
<1>1. Holders(n) = {}
  <2> SUFFICES ASSUME NEW t \in Txs, n \in tx[t].pending PROVE FALSE
    BY DEF Holders
  <2>1. PlaceOK(t, n)
    BY DEF PendingOK, Numbers
  <2>2. t[1] \in Clerks
    BY <2>1, PlacesApart, TxsOf DEF Actors
  <2>3. pc[t[1]] \in Answered /\ cur[t[1]] = n
    BY <2>1, <2>2, ClerksApart, PlacesApart, TxsOf
  <2>4. cur[t[1]] \in OfClerk
    BY <2>2, <2>3 DEF CurOK, Actors, Answered, Between
  <2> QED BY <2>3, <2>4, NumbersApart
<1>2. Cardinality(Holders(n)) = 0
  BY <1>1, FS_EmptySet
<1>3. invoices[n] \in Int /\ lost[n] \in Nat
  BY InvoiceCountsAssumption DEF TypeOK, Numbers
<1>4. n[1] \in PaymentsOf(n)
  BY NumbersApart
<1> QED BY <1>2, <1>3, <1>4 DEF Accounted, Fresh

(* The runner's list gets longer only when it selects a batch.               *)
LEMMA ToAskNext ==
    ASSUME TypeOK, \A a \in Actors : CurOK(a), NEW r \in Runners, Acts(r),
           NEW n \in OfRunner, ToAsk(r, n)'
    PROVE  ToAsk(r, n) \/ (pc[r] = "idle" /\ ~pay[n[1]].issued)
<1>0. r \in Actors /\ n[2] \in 0..Parts /\ r \notin Clerks
  BY ClerksApart DEF Actors, OfRunner
<1> USE DEF Between, Asking
<1>1. CASE Select(r)
  <2>1. PICK s \in SUBSET {p \in Payments : Due(pay[p])} : batch' = [batch EXCEPT ![r] = s]
    BY <1>1 DEF Select
  <2>2. batch'[r] = s /\ pc[r] = "idle" /\ pc'[r] = "next"
    BY <1>0, <1>1, <2>1 DEF Select, Goto, TypeOK
  <2> QED BY <2>1, <2>2 DEF ToAsk, Due
<1>2. CASE EndBatch(r)
  BY <1>0, <1>2 DEF ToAsk, EndBatch, Goto, TypeOK
<1>3. ASSUME NEW p \in Payments, Take(r, p) PROVE ToAsk(r, n)
  <2>1. batch'[r] = batch[r] \ {p} /\ p \in batch[r] /\ cur'[r][1] = p
    BY <1>0, <1>3 DEF Take, TypeOK
  <2> QED BY <2>1 DEF ToAsk
<1>4. ASSUME cur' = cur, batch' = batch, pc[r] \notin Between,
             pc'[r] \in Asking => pc[r] \in Asking
      PROVE  ToAsk(r, n)
  BY <1>4 DEF ToAsk
<1>5. CASE NotEnabled(r) \/ Unreached(r) \/ AnswerLost(r) \/ StatementFails(r)
  <2>1. Throw(r) /\ cur' = cur /\ batch' = batch /\ pc[r] \notin Between
    BY <1>5 DEF NotEnabled, Unreached, AnswerLost, StatementFails, Call
  <2> QED BY <1>0, <1>4, <2>1, ThrowPc
<1>6. CASE Configure(r) \/ Issued(r) \/ Refused(r) \/ ReadRows(r) \/ SaveOrder(r) \/ InsertInvoice(r)
  <2>1. cur' = cur /\ batch' = batch /\ pc[r] \notin Between
    BY <1>6 DEF Configure, Issued, Refused, ReadRows, SaveOrder, InsertInvoice, Call
  <2>2. pc'[r] \in Asking => pc[r] \in Asking
    BY <1>0, <1>6 DEF Configure, Issued, Refused, ReadRows, SaveOrder, InsertInvoice, Goto,
                      TypeOK
  <2> QED BY <1>4, <2>1, <2>2
<1>7. ASSUME NEW p \in Payments, SavePayment(r, p) PROVE ToAsk(r, n)
  BY <1>0, <1>4, <1>7 DEF SavePayment, Goto, TypeOK
<1>8. CASE Finish(r) \/ Rethrow(r)
  <2>1. pc[r] \notin Between /\ Continue(r)
    BY <1>8 DEF Finish, Rethrow
  <2>2. /\ batch' = batch
        /\ pc'[r] \in Between \cup {"configuring"}
        /\ pc'[r] = "configuring" =>
               /\ cur[r] \in OfRunner /\ cur[r][2] \in 1..(Parts - 1)
               /\ cur'[r] = <<cur[r][1], cur[r][2] + 1>>
    BY <1>0, <2>1, ContinueCur
  <2>3. CASE n[1] \in batch[r]
    BY <2>3 DEF ToAsk
  <2>4. CASE n[1] \notin batch[r]
    <3>1. /\ pc'[r] = "configuring" /\ n[1] = cur'[r][1]
          /\ n[2] > cur'[r][2] \/ n[2] = cur'[r][2]
      BY <2>2, <2>4 DEF ToAsk
    <3>2. n[1] = cur[r][1] /\ cur'[r][2] = cur[r][2] + 1 /\ cur[r][2] \in 1..(Parts - 1)
      BY <2>2, <3>1
    <3>3. n[2] > cur[r][2]
      BY <1>0, <3>1, <3>2, InvoiceCountsAssumption
    <3> QED BY <2>1, <3>2, <3>3 DEF ToAsk
  <2> QED BY <2>3, <2>4
<1>9. CASE Die(r)
  <2>1. batch'[r] = {} /\ pc'[r] = "idle"
    BY <1>0, <1>9 DEF Die, Goto, TypeOK
  <2> QED BY <2>1 DEF ToAsk
<1> QED
  BY <1>0, <1>1, <1>2, <1>3, <1>5, <1>6, <1>7, <1>8, <1>9 DEF Acts, Attempt

(* The runner does not issue what it has still to ask for in a later call.   *)
LEMMA ToAskLater ==
    ASSUME TypeOK, \A a \in Actors : CurOK(a), NEW r \in Runners, Runners = {r},
           NEW n \in OfRunner, ToAsk(r, n)', NEW a \in Actors, Issued(a), cur[a] = n
    PROVE  FALSE
<1>1. pc[a] \notin Between /\ cur' = cur /\ batch' = batch /\ pc'[a] = "reading"
  BY DEF Issued, Call, Between, Goto, TypeOK
<1>2. a = r
  BY <1>1, NumbersApart DEF Actors, CurOK
<1>3. n[1] \notin batch[r]
  BY <1>1, <1>2 DEF CurOK
<1>4. n[2] \in Int /\ ~(n[2] > n[2])
  BY InvoiceCountsAssumption DEF OfRunner
<1> QED BY <1>1, <1>2, <1>3, <1>4 DEF ToAsk, Asking

LEMMA DuplicatesInit == Init => DuplicatesInv
<1> SUFFICES ASSUME Init, Cardinality(Runners) = 1
             PROVE  FreshInv /\ \A n \in OfRunner : invoices[n] <= lost[n] + 1
  BY DEF DuplicatesInv
<1>1. \A n \in OfRunner : invoices[n] = 0 /\ lost[n] = 0
  BY DEF Init, Numbers
<1>2. \A r \in Runners : batch[r] = {} /\ pc[r] = "idle"
  BY DEF Init, Actors
<1> QED BY <1>1, <1>2 DEF FreshInv, ToAsk, Between

LEMMA DuplicatesNext == InvoiceInv /\ BooksInv /\ DuplicatesInv /\ [Next]_vars => DuplicatesInv'
<1> SUFFICES ASSUME InvoiceInv, BooksInv, DuplicatesInv, [Next]_vars,
                    Cardinality(Runners) = 1
             PROVE  FreshInv' /\ \A n \in OfRunner : invoices'[n] <= lost'[n] + 1
  BY DEF DuplicatesInv
<1>0. /\ TypeOK /\ AttemptOK /\ PendingOK
      /\ \A a \in Actors : CurOK(a)
      /\ \A n \in Numbers : Accounted(n)
      /\ FreshInv /\ \A n \in OfRunner : invoices[n] <= lost[n] + 1
  BY DEF InvoiceInv, BooksInv, DuplicatesInv
<1>1. PICK r \in Runners : Runners = {r}
  <2>1. \E x : Runners = {x}
    BY FS_Singleton, NamesAssumption
  <2> QED BY <2>1
<1>2. TypeOK' /\ \A a \in Actors : CurOK(a)'
  <2>1. InvoiceInv' /\ BooksInv'
    BY InvoiceInvNext, BooksNext
  <2> QED BY <2>1 DEF InvoiceInv, BooksInv
<1>3. \A n \in OfRunner : ToAsk(r, n) => Fresh(n)
  BY <1>0, <1>1 DEF FreshInv
<1>4. ASSUME NEW n \in OfRunner, ToAsk(r, n)' PROVE Fresh(n)'
  <2>1. ToAsk(r, n) \/ (pc[r] = "idle" /\ ~pay[n[1]].issued)
    <3>1. CASE Acts(r)
      BY <1>0, <1>4, <3>1, ToAskNext
    <3>2. ASSUME NEW a \in Actors, a # r, Acts(a) PROVE ToAsk(r, n)
      <4>1. OthersRest(a)
        BY <1>0, <3>2, OnlyOneActs
      <4>2. pc'[r] = pc[r] /\ cur'[r] = cur[r] /\ batch'[r] = batch[r]
        BY <3>2, <4>1 DEF OthersRest, Actors
      <4> QED BY <1>4, <4>2 DEF ToAsk
    <3>3. CASE UNCHANGED vars
      BY <1>4, <3>3 DEF ToAsk, vars, actorVars
    <3> QED BY <3>1, <3>2, <3>3, SomeoneActs
  <2>2. Fresh(n)
    <3>1. CASE ToAsk(r, n)
      BY <1>3, <3>1
    <3>2. CASE pc[r] = "idle" /\ ~pay[n[1]].issued
      BY <1>0, <1>1, <3>2, SelectedFresh DEF Numbers
    <3> QED BY <2>1, <3>1, <3>2
  <2>3. ~ \E a \in Actors : Issued(a) /\ cur[a] = n
    BY <1>0, <1>1, <1>4, ToAskLater
  <2>4. invoices[n] <= lost[n] + 0 => invoices'[n] <= lost'[n] + 0
    BY <1>0, <2>3, FreshKept DEF Numbers
  <2>5. lost[n] \in Nat /\ lost'[n] \in Nat
    BY <1>0, <1>2 DEF TypeOK, Numbers
  <2> QED BY <2>2, <2>4, <2>5 DEF Fresh
<1>5. FreshInv'
  BY <1>1, <1>4 DEF FreshInv
<1>6. ASSUME NEW n \in OfRunner PROVE invoices'[n] <= lost'[n] + 1
  <2>0. /\ n \in Numbers /\ invoices[n] \in Int /\ lost[n] \in Nat
        /\ invoices'[n] \in Int /\ lost'[n] \in Nat
    BY <1>0, <1>2, InvoiceCountsAssumption DEF TypeOK, Numbers
  <2>1. CASE \E a \in Actors : Issued(a) /\ cur[a] = n
    <3>1. PICK a \in Actors : Issued(a) /\ cur[a] = n
      BY <2>1
    <3>2. pc[a] = "calling" /\ invoices'[n] = invoices[n] + 1 /\ lost'[n] = lost[n]
      BY <1>0, <2>0, <3>1 DEF Issued, Call, NewInvoice, TypeOK
    <3>3. a = r
      BY <1>0, <1>1, <3>1, <3>2, NumbersApart DEF Actors, CurOK, Between
    <3>4. ToAsk(r, n)
      BY <3>1, <3>2, <3>3 DEF ToAsk, Asking, Between
    <3> QED BY <1>3, <2>0, <3>2, <3>4 DEF Fresh
  <2>2. CASE ~ \E a \in Actors : Issued(a) /\ cur[a] = n
    BY <1>0, <2>0, <2>2, FreshKept
  <2> QED BY <2>1, <2>2
<1> QED BY <1>5, <1>6

LEMMA DuplicatesInvariant == Spec => []DuplicatesInv
<1>1. InvoiceInv /\ BooksInv => (DuplicatesInv /\ [Next]_vars => DuplicatesInv')
  BY DuplicatesNext
<1> QED BY <1>1, BooksInvariant, DuplicatesInit, PTL DEF Spec

-----------------------------------------------------------------------------
(* The theorems.                                                             *)

(* Every state of Invoice is well typed: the counts stay within their caps,  *)
(* also those of a payment whose options a request and the runner overwrite. *)
THEOREM InvoiceTypeCorrect == Spec => []TypeOK
<1>1. InvoiceInv => TypeOK
  BY DEF InvoiceInv
<1> QED BY <1>1, InvoiceInvariant, PTL

(* The database claims no invoice that ezPay has not issued, whichever       *)
(* transactions roll back and whichever actors overlap or die.               *)
THEOREM InvoiceRecordsAreReal == Spec => []RecordsAreReal
<1>1. InvoiceInv => RecordsAreReal
  BY DEF InvoiceInv
<1> QED BY <1>1, InvoiceInvariant, PTL

(* No call of ezPay is made whose record would go into an aborted            *)
(* transaction.                                                              *)
THEOREM InvoiceAbortedBatch == Spec => AbortedBatchIssuesNothing
<1>1. InvoiceInv => \A a \in Actors : pc[a] = "calling" => ~tx[Tx(a)].aborted
  BY DEF InvoiceInv, CallsReady
<1>2. (\A a \in Actors : pc[a] = "calling" => ~tx[Tx(a)].aborted)
          => [\A a \in Actors : pc[a] = "calling" /\ calls' # calls /\ pc'[a] # "calling"
                  => ~tx[Tx(a)].aborted]_vars
  OBVIOUS
<1> QED BY <1>1, <1>2, InvoiceInvariant, PTL DEF AbortedBatchIssuesNothing

(* Every invoice ezPay has issued is known to the database, or still in an   *)
(* open transaction, or counted among those lost by a rollback or with       *)
(* ezPay's answer: whatever runners and requests overlap or die.             *)
THEOREM InvoiceUnrecorded == Spec => []UnrecordedOnlyIfLost
<1>1. InvoiceInv /\ BooksInv => UnrecordedOnlyIfLost
  <2> SUFFICES ASSUME InvoiceInv, BooksInv, NEW n \in Numbers,
                      invoices[n] > lost[n] + Cardinality(Holders(n))
               PROVE  \A p \in PaymentsOf(n) : pay[p].issued
    BY DEF UnrecordedOnlyIfLost, Holders
  <2>1. Accounted(n)
    BY DEF BooksInv
  <2>2. Cardinality(Holders(n)) \in Nat
    BY <2>1, FS_CardinalityType DEF Accounted
  <2>3. invoices[n] \in Int /\ lost[n] \in Nat
    BY InvoiceCountsAssumption DEF InvoiceInv, TypeOK
  <2> QED BY <2>1, <2>2, <2>3 DEF Accounted
<1> QED BY <1>1, BooksInvariant, PTL

(* One runner issues an invoice again only if the record of it was lost,     *)
(* however requests overwrite the rows it selects from.                      *)
THEOREM InvoiceDuplicates == Spec => []DuplicatesOnlyAfterLoss
<1>1. DuplicatesInv => DuplicatesOnlyAfterLoss
  BY DEF DuplicatesInv, DuplicatesOnlyAfterLoss
<1> QED BY <1>1, DuplicatesInvariant, PTL

============================================================================

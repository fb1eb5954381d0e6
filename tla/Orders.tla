------------------------------- MODULE Orders -------------------------------
(***************************************************************************)
(* Orders, their lines, and the transfer of a received order (src/order).  *)
(*                                                                         *)
(* Orders are placed, paid, delivered and refunded by the back office and  *)
(* its database triggers, outside of src/; this server reads them, as the  *)
(* proof of what a member owns, and moves one to another member.  Time is  *)
(* discrete, and a tick may pass over several instants.                    *)
(***************************************************************************)
EXTENDS Integers, FiniteSets, Functions

CONSTANTS
  Members,    \* member.id
  OrderIds,   \* order_log.id
  LineIds,    \* order_product.id
  Discounts,  \* order_discount.target: coupons, and what names no coupon
  Coupons,    \* coupon.id (vouchers are read by the same code)
  Products,   \* rows of product: [type, target]
  Shelves,    \* what an app sells: sets of offers, a product and its term
  WalletOf,   \* coupon.member_id
  DealsOf,    \* the discounts and shipping fees of an order with a product
  PriceOf,    \* order_product.price, by product
  ReductionOf, \* order_discount.price, by target
  ExportConditions, \* OrderExportDTO: [statuses, productIds, coupons], see below
  MaxTime,    \* bound on the clock
  MaxTransfers, \* bound: the transfers of the order most transferred
  NULL

Time == 0 .. MaxTime
Moment == Time \cup {NULL}

(* order_log.status, as far as the queries tell statuses apart.            *)
Statuses == {"UNPAID", "SUCCESS", "REFUND"}

ProductTypes ==
  {"Program", "ProgramPlan", "Card", "ProgramPackagePlan", "ActivityTicket",
   "PodcastPlan", "PodcastProgram"}

Offer == [product: Products, startedAt: Moment, endedAt: Moment]

(* The rows of order_discount of an order, and the fee of its shipping,    *)
(* 0 if it has none.                                                       *)
Deal == [discounts: SUBSET Discounts, fee: Nat]

OrderLog ==
  [member: Members, status: Statuses, discounts: SUBSET Discounts, fee: Nat,
   transfers: 0 .. MaxTransfers]

OrderProduct ==
  [order: OrderIds, product: Products, deliveredAt: Moment,
   startedAt: Moment, endedAt: Moment]

ASSUME OrdersAssumption ==
  /\ MaxTime \in Nat /\ MaxTransfers \in Nat
  /\ NULL \notin Time /\ NULL \notin Members /\ NULL \notin OrderIds
  /\ NULL \notin OrderLog /\ NULL \notin OrderProduct
  /\ IsFiniteSet(Discounts) /\ Coupons \subseteq Discounts
  /\ WalletOf \in [Coupons -> Members]
  /\ \A p \in Products : DealsOf[p] \subseteq Deal
  /\ PriceOf \in [Products -> Nat] /\ ReductionOf \in [Discounts -> Nat]
  /\ \A p \in Products : p.type \in ProductTypes
  /\ \A s \in Shelves : s \subseteq Offer
  /\ IsFiniteSet(LineIds)
  /\ \A c \in ExportConditions : c.coupons \in {NULL} \cup SUBSET Coupons

VARIABLES
  now,      \* NOW() of the statement that reads
  shelf,    \* the offers on sale
  orders,   \* order_log, NULL before the order is placed
  lines     \* order_product, NULL before its order is placed

orderVars == <<now, shelf, orders, lines>>

OrdersTypeOK ==
  /\ now \in Time
  /\ shelf \in Shelves
  /\ orders \in [OrderIds -> OrderLog \cup {NULL}]
  /\ lines \in [LineIds -> OrderProduct \cup {NULL}]

OrdersInit ==
  /\ now = 0
  /\ shelf \in Shelves
  /\ orders = [o \in OrderIds |-> NULL]
  /\ lines = [l \in LineIds |-> NULL]

Placed == {o \in OrderIds : orders[o] # NULL}
Sold == {l \in LineIds : lines[l] # NULL}

(* External: a member places order o, a product in each of the unused      *)
(* lines of the cart, with the discounts and the fee of one of them.  A    *)
(* coupon is the member's own, and no other order has spent it.            *)
Purchase(o, m, cart) ==
  /\ orders[o] = NULL
  /\ \A l \in cart : lines[l] = NULL
  /\ \E choice \in [cart -> shelf] :
     \E deal \in UNION {DealsOf[choice[l].product] : l \in cart} :
       /\ \A k \in deal.discounts \cap Coupons :
            WalletOf[k] = m /\ \A q \in Placed : k \notin orders[q].discounts
       /\ orders' = [orders EXCEPT ![o] =
            [member |-> m, status |-> "UNPAID", discounts |-> deal.discounts,
             fee |-> deal.fee, transfers |-> 0]]
       /\ lines' = [i \in LineIds |->
            IF i \notin cart THEN lines[i] ELSE
              [order |-> o, product |-> choice[i].product, deliveredAt |-> NULL,
               startedAt |-> choice[i].startedAt, endedAt |-> choice[i].endedAt]]
  /\ UNCHANGED <<now, shelf>>

(* External: the payment succeeds, and the lines are delivered.            *)
Pay(o) ==
  /\ o \in Placed /\ orders[o].status = "UNPAID"
  /\ orders' = [orders EXCEPT ![o].status = "SUCCESS"]
  /\ lines' = [l \in LineIds |->
       IF l \in Sold /\ lines[l].order = o
         THEN [lines[l] EXCEPT !.deliveredAt = now] ELSE lines[l]]
  /\ UNCHANGED <<now, shelf>>

(* External: the order is refunded; its lines keep their delivery or lose  *)
(* it.                                                                     *)
Refund(o) ==
  /\ o \in Placed /\ orders[o].status = "SUCCESS"
  /\ orders' = [orders EXCEPT ![o].status = "REFUND"]
  /\ \/ UNCHANGED lines
     \/ lines' = [l \in LineIds |->
          IF l \in Sold /\ lines[l].order = o
            THEN [lines[l] EXCEPT !.deliveredAt = NULL] ELSE lines[l]]
  /\ UNCHANGED <<now, shelf>>

BugTransferUndelivered(o, m) ==  \* delivers the lines anew
  /\ o \in Placed
  /\ \A q \in Placed : orders[q].transfers < MaxTransfers
  /\ orders' = [orders EXCEPT ![o].member = m, ![o].transfers = @ + 1]
  /\ lines' = [l \in LineIds |->
       IF l \in Sold /\ lines[l].order = o
         THEN [lines[l] EXCEPT !.deliveredAt = NULL] ELSE lines[l]]
  /\ UNCHANGED <<now, shelf>>

BugTransferReceivedOrder(o, m) ==  \* forgets transferredAt
  /\ o \in Placed
  /\ \A q \in Placed : orders[q].transfers < MaxTransfers
  /\ orders' = [orders EXCEPT ![o].member = m]
  /\ UNCHANGED <<now, shelf, lines>>

(* The order of the token goes to member m in one transaction: only the    *)
(* row of order_log changes, whatever its status, and the lines follow it. *)
(* The discounts keep the coupons of the member who paid.                  *)
TransferReceivedOrder(o, m) ==
  /\ o \in Placed
  /\ \A q \in Placed : orders[q].transfers < MaxTransfers
  /\ orders' = [orders EXCEPT ![o].member = m, ![o].transfers = @ + 1]
  /\ UNCHANGED <<now, shelf, lines>>

(* External: time passes, over any number of instants.                     *)
Tick ==
  /\ \E t \in now + 1 .. MaxTime : now' = t
  /\ UNCHANGED <<shelf, orders, lines>>

OrdersNext ==
  \/ \E o \in OrderIds, m \in Members, cart \in (SUBSET LineIds) \ {{}} :
       Purchase(o, m, cart)
  \/ \E o \in OrderIds : Pay(o) \/ Refund(o)
  \/ \E o \in OrderIds, m \in Members : TransferReceivedOrder(o, m)
  \/ Tick

-----------------------------------------------------------------------------
(* What the queries read from the lines.                                   *)

LinesOf(o) == {l \in Sold : lines[l].order = o}

(* order_product joined to the order_log of member m.                      *)
MyLines(m) == {l \in Sold : orders[lines[l].order].member = m}

Delivered(l) == lines[l].deliveredAt # NULL /\ lines[l].deliveredAt < now

(* The term of the line has begun and has not ended.                       *)
OnTerm(l) ==
  /\ lines[l].endedAt = NULL \/ lines[l].endedAt > now
  /\ lines[l].startedAt = NULL \/ lines[l].startedAt <= now

(* The join every entitlement query repeats; no query but the expired ones *)
(* reads order_log.status.                                                 *)
Active(l) == Delivered(l) /\ OnTerm(l)

(* order_product of a SUCCESS order whose term has ended.                  *)
Lapsed(l) ==
  /\ orders[lines[l].order].status = "SUCCESS"
  /\ lines[l].endedAt # NULL /\ lines[l].endedAt < now

(* The targets of the products of one type among the lines L.              *)
Targets(L, type) ==
  {lines[l].product.target : l \in {k \in L : lines[k].product.type = type}}

ActiveOf(L) == {l \in L : Active(l)}
LapsedOf(L) == {l \in L : Lapsed(l)}

(* getOwnedPodcastPlan: the podcast plans a member can listen to.          *)
GetOwnedPodcastPlan(m) == Targets(ActiveOf(MyLines(m)), "PodcastPlan")

(* getCouponByMemberId and its twin for vouchers: a coupon is used          *)
(* when a discount of a SUCCESS order of the same member names it.         *)
CouponUsed(k) ==
  \E o \in Placed :
    /\ orders[o].status = "SUCCESS"
    /\ orders[o].member = WalletOf[k]
    /\ k \in orders[o].discounts

-----------------------------------------------------------------------------
(* The three exports of the back office.  A condition that is not given is *)
(* NULL; coupons are those of the plans that are asked for.  The ranges of *)
(* dates, which all three compare alike, are left out.                     *)

(* getOrderDiscountTargetsByPlanIds: plans without a coupon do not filter. *)
DiscountTargets(c) == IF c.coupons = {} THEN NULL ELSE c.coupons

OfStatus(o, c) == c.statuses = NULL \/ orders[o].status \in c.statuses
OfProducts(l, c) == c.productIds = NULL \/ lines[l].product \in c.productIds
OfTarget(k, c) == DiscountTargets(c) = NULL \/ k \in DiscountTargets(c)

LinesShown(o, c) == {l \in LinesOf(o) : OfProducts(l, c)}
DiscountsShown(o, c) == {k \in orders[o].discounts : OfTarget(k, c)}

(* A condition on a relation asks for one row of it at least; a condition  *)
(* that is not given asks for none.                                        *)
SomeLine(o, c) == c.productIds = NULL \/ LinesShown(o, c) # {}
SomeDiscount(o, c) == DiscountTargets(c) = NULL \/ DiscountsShown(o, c) # {}

(* The order export: as the same join selects an order and loads its       *)
(* relations, the other lines and discounts of the order are not shown.    *)
Row(o, c) ==
  [order |-> o, lines |-> LinesShown(o, c), discounts |-> DiscountsShown(o, c),
   fee |-> orders[o].fee]
ExportOrderLogs(c) ==
  {Row(o, c) : o \in {q \in Placed : OfStatus(q, c) /\ SomeLine(q, c) /\ SomeDiscount(q, c)}}

BugExportOrderProducts(c) ==  \* forgets the discounts
  {l \in Sold : OfProducts(l, c) /\ OfStatus(lines[l].order, c)}

ExportOrderProducts(c) ==
  {l \in Sold :
     OfProducts(l, c) /\ OfStatus(lines[l].order, c) /\ SomeDiscount(lines[l].order, c)}

(* The rows of order_discount, each named by its order and its target.     *)
ExportOrderDiscounts(c) ==
  {d \in Placed \X Discounts :
     /\ d[2] \in orders[d[1]].discounts /\ OfTarget(d[2], c)
     /\ OfStatus(d[1], c) /\ SomeLine(d[1], c)}

(* orderLogToRawCsv adds up what is shown of the order and the shipping    *)
(* fee, never below zero.                                                  *)
PricesOf(L) == SumFunctionOnSet([l \in L |-> PriceOf[lines[l].product]], L)
ReductionsOf(D) == SumFunctionOnSet(ReductionOf, D)
Payable(gross, cut, fee) ==
  LET sum == gross - cut + fee IN IF sum > 0 THEN sum ELSE 0

OrderLogTotalPrice(row) ==
  Payable(PricesOf(row.lines), ReductionsOf(row.discounts), row.fee)

-----------------------------------------------------------------------------
(* The three exports of one condition agree.  The lines and the discounts  *)
(* shown by the order export are the rows of the other two, and its totals *)
(* are what these add up to with the shipping fee.  Every order has one of *)
(* the discounts asked for, unless the plans asked for have no coupon and  *)
(* filter nothing.  A condition on discounts hides the other discounts of  *)
(* an order: its total is then no less than that of the whole order.       *)
OrderExportsAgree ==
  \A c \in ExportConditions :
    LET rows == ExportOrderLogs(c)
        sold == ExportOrderProducts(c)
        spent == ExportOrderDiscounts(c)
    IN /\ UNION {row.lines : row \in rows} = sold
       /\ UNION {{row.order} \X row.discounts : row \in rows} = spent
       /\ \A row \in rows :
            LET o == row.order
                total == OrderLogTotalPrice(row)
                gross == PricesOf({l \in sold : lines[l].order = o})
                cut == ReductionsOf({k \in Discounts : <<o, k>> \in spent})
            IN /\ total = Payable(gross, cut, orders[o].fee)
               /\ c.coupons \notin {NULL, {}} => \E k \in c.coupons : <<o, k>> \in spent
               /\ c.productIds = NULL =>
                    total >= Payable(gross, ReductionsOf(orders[o].discounts), orders[o].fee)

(* A coupon spent in a successful order is shown as unused only when that  *)
(* order was transferred: nothing else hides that it was spent, and the    *)
(* member who paid with it is offered it again.                            *)
SpentCouponShown ==
  \A o \in Placed :
    orders[o].status = "SUCCESS" =>
      \A k \in orders[o].discounts \cap Coupons : CouponUsed(k) \/ orders[o].transfers > 0

=============================================================================

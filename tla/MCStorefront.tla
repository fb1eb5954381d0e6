---------------------------- MODULE MCStorefront ----------------------------
(* An instance of Storefront for TLC.                                      *)
EXTENDS Storefront, TLC

CONSTANTS m1, m2, o1, o2, l1, l2, k1, sale, p1, p2, c1, c2, c3,
          all, some, fresh, card, pack, full, drip, a1, t1, t2, s1, s2,
          v1, x1, x2, call1, call2, pod, mute,
          cast1, cast2, cast3, host, guest

Of(type, target) == [type |-> type, target |-> target]

(* Sold for ever, or from instant 1 and up to instant 2.                   *)
Ever(p) == [product |-> p, startedAt |-> NULL, endedAt |-> NULL]
Term(p) == [product |-> p, startedAt |-> 1, endedAt |-> 2]

MCShelves == {
  {Ever(Of("ProgramPlan", fresh)), Term(Of("ProgramPlan", all))},
  {Ever(Of("ProgramPlan", some)), Term(Of("Card", card))},
  {Ever(Of("ProgramPackagePlan", drip)), Term(Of("ProgramPackagePlan", full))},
  {Ever(Of("ActivityTicket", t1)), Ever(Of("ActivityTicket", t2))},
  {Ever(Of("PodcastPlan", pod)), Term(Of("Program", p1))},
  {Term(Of("PodcastPlan", pod)), Ever(Of("PodcastPlan", mute)),
   Ever(Of("PodcastProgram", cast1))}}
MCProducts == {offer.product : offer \in UNION MCShelves}

MCProgramOf == (c1 :> p1) @@ (c2 :> p1) @@ (c3 :> p2)
MCPlans ==
  (all :> [type |-> 3, program |-> p1, contents |-> {}]) @@
  (some :> [type |-> 1, program |-> p1, contents |-> {c1}]) @@
  (fresh :> [type |-> 2, program |-> p1, contents |-> {c1, c2}])
MCCardProducts == (card :> {fresh, all})
MCPackagePlans ==
  (full :> [package |-> pack, tempo |-> FALSE]) @@
  (drip :> [package |-> pack, tempo |-> TRUE])
MCPackagePrograms == {<<pack, p1>>, <<pack, p2>>}
MCDisplayMode == (c1 :> "payToWatch") @@ (c2 :> "loginToTrial") @@ (c3 :> "payToWatch")

Nobody == [roles |-> {}, granted |-> {}, claimed |-> {}, admins |-> {}, owners |-> {}]
MCStaffs == {
  Nobody,
  [Nobody EXCEPT !.roles = {<<p1, m2, "instructor">>, <<p2, m2, "assistant">>},
                 !.granted = {m2}, !.claimed = {m2}, !.owners = {m1}]}

MCActivityOfTicket == (t1 :> a1) @@ (t2 :> a1)
MCActivityOfSession == (s1 :> a1) @@ (s2 :> a1)
MCSessionTickets == {
  [session |-> s1, ticket |-> t1, type |-> "offline"],
  [session |-> s1, ticket |-> t1, type |-> "online"],
  [session |-> s2, ticket |-> t1, type |-> "online"],
  [session |-> s2, ticket |-> t2, type |-> "online"]}
MCWalletOf == k1 :> m1

(* Plain orders; podcast plans with a coupon and a sale that is no coupon, *)
(* which together are more than the plan costs; a program that is shipped. *)
Plain == [discounts |-> {}, fee |-> 0]
MCDealsOf == [p \in MCProducts |->
  CASE p.target = pod -> {Plain, [discounts |-> {k1, sale}, fee |-> 1]}
    [] p.target = p1 -> {[discounts |-> {}, fee |-> 1]}
    [] OTHER -> {Plain}]
MCReductionOf == (k1 :> 2) @@ (sale :> 3)
MCPriceOf == [p \in MCProducts |-> IF p.type \in {"ProgramPlan", "PodcastPlan"} THEN 3 ELSE 1]
Export(statuses, productIds, coupons) ==
  [statuses |-> statuses, productIds |-> productIds, coupons |-> coupons]
MCExportConditions == {
  Export(NULL, NULL, {}), Export({"SUCCESS"}, NULL, NULL), Export({"SUCCESS"}, NULL, {k1}),
  Export(NULL, {Of("PodcastPlan", pod)}, NULL), Export(NULL, {Of("PodcastPlan", pod)}, {k1}),
  Export({"SUCCESS"}, {Of("Program", p1), Of("Card", card)}, {}),
  Export(NULL, {Of("Program", p1), Of("Card", card)}, {k1})}
(* The creator of the plan pod hosts two podcasts, that of mute none.       *)
MCCreatorOf == [p \in MCProducts |->
  CASE p.target = pod -> host [] p.target = mute -> guest [] OTHER -> NULL]
MCHostsOf == (cast1 :> {host}) @@ (cast2 :> {host}) @@ (cast3 :> {})
MCAlbums == {[published |-> TRUE, podcasts |-> {cast3}],
             [published |-> FALSE, podcasts |-> {cast2}]}
MCBodies == {<<100, 50>>, <<40, NoRow>>, <<NoRow, 50>>}
(* A video, and an exam that was taken and not passed.                     *)
MCGradeOf == (<<v1, x1>> :> NoRow) @@ (<<v1, x2>> :> 50)
MCTempoChanges == {<<<<pack, p1>>, m1>>} \X {1, 2}

Scene(sh, st, fo) == [shelf |-> sh, staff |-> st, focus |-> fo]
Selling(type) == {sh \in MCShelves : \E offer \in sh : offer.product.type = type}

(* Every shelf without staff; the cards with staff too; and the progress.   *)
MCScenes ==
  {Scene(sh, Nobody, "orders") : sh \in MCShelves}
    \cup {Scene(sh, st, "orders") :
           sh \in Selling("Card"), st \in MCStaffs}
    \cup {Scene(sh, Nobody, "progress") : sh \in Selling("Program")}

Same == Permutations({o1, o2}) \cup Permutations({l1, l2})

=============================================================================

---------------------------- MODULE MCBackoffice ----------------------------
(* An instance of Backoffice for TLC.                                      *)
EXTENDS Backoffice, TLC

CONSTANTS m1, m2, n1, ann, bob, eve, ea, eb, en, t1, t2, c1, g1, h1, p1, p2,
          yes, no, vip, f, g, w1, w2

Props(a, b) == (p1 :> a) @@ (p2 :> b)
Somebody(name, email, role, tags) ==
  [name |-> name, email |-> email, role |-> role, tags |-> tags,
   categories |-> {c1}, groups |-> {g1}, phones |-> {h1},
   properties |-> Props(yes, NULL)]

MCFirstMembers ==
  {[m \in {m1, m2, n1} |->
      IF m = m1 THEN Somebody(ann, ea, "general-member", {t1, t2})
      ELSE IF m = m2 THEN [Somebody(bob, eb, vip, {}) EXCEPT !.properties = Props(yes, no)]
      ELSE NULL]}

MemberRow(id, name, email, tags, props) ==
  [id |-> id, name |-> name, email |-> email, role |-> NULL, tags |-> tags,
   categories |-> {}, phones |-> {h1}, properties |-> props]
File(key, category, rows) == [key |-> key, category |-> category, rows |-> rows]

(* Two versions of a file of coins, a file with a coin for nobody, two     *)
(* members to edit, and a member to add.                                   *)
CoinFile == File(f, "coin", {[email |-> ea]})
CoinFileAgain == File(f, "coin", {[email |-> eb]})
CoinFileOther == File(g, "coin", {[email |-> ea], [email |-> en]})
MemberFile == File(g, "member",
  {MemberRow(m1, NULL, eb, {t1}, Props(no, NULL)),
   MemberRow(m2, eve, NULL, {t1, t2}, Props(NULL, yes))})
MemberFileNew == File(f, "member", {MemberRow(NULL, eve, en, {}, Props(NULL, no))})

MemberFileOne == File(f, "member", {MemberRow(m1, eve, NULL, {t1}, Props(NULL, yes))})

Import(files) == [category |-> files[1].category, files |-> files]
MCVersions == {CoinFile, CoinFileAgain, CoinFileOther, MemberFile, MemberFileNew, MemberFileOne}
MCRequested == {
  {Import(<<CoinFile>>), Import(<<CoinFileAgain>>)}, {Import(<<CoinFile, CoinFileOther>>)},
  {Import(<<MemberFile>>)}, {Import(<<MemberFileNew>>)}, {Import(<<MemberFileOne>>)}}
MCStallable == {Import(<<CoinFile>>), Import(<<MemberFile>>), Import(<<MemberFileNew>>)}

(* A lead for a member, or for nobody when he was deleted.                 *)
MCLeads == {[name |-> bob, email |-> ea, phone |-> h1, properties |-> Props(NULL, no)]}
MCSought == {Import(<<MemberFileOne>>)}
MCJobs == UNION MCRequested

Anyone == [role |-> NULL, tag |-> NULL, category |-> NULL, group |-> NULL,
           phone |-> NULL, properties |-> NULL]
MCConditions == {
  [Anyone EXCEPT !.role = vip], [Anyone EXCEPT !.tag = {t1, t2}],
  [Anyone EXCEPT !.tag = {t2}, !.phone = {h1}, !.category = {c1}, !.group = {g1}],
  [Anyone EXCEPT !.properties = <<<<p1, {yes}>>, <<p2, {yes, no}>>>>],
  [Anyone EXCEPT !.properties = <<<<p1, {no}>>>>, !.tag = {t1}],
  [Anyone EXCEPT !.properties = <<<<p1, {yes}>>, <<p1, {yes, no}>>>>]}

Export(category, timezone) == [category |-> category, timezone |-> timezone]
MCExportJobs == {Export("orderLog", "Asia/Taipei"), Export("orderProduct", "UTC"),
                 Export("member", "UTC")}
MCUnsteady == {j \in MCExportJobs : j.timezone = "UTC"}
MCExports == {{j \in MCExportJobs : j.category # "member"}, {Export("member", "UTC")}}

Scene(fo, imports, exports) == [focus |-> fo, jobs |-> imports, exports |-> exports]
MCScenes ==
  {Scene("imports", jobs, {}) : jobs \in MCRequested}
    \cup {Scene("deletion", {}, {})}
    \cup {Scene("exports", {}, jobs) : jobs \in MCExports}

Same == Permutations({w1, w2})

=============================================================================

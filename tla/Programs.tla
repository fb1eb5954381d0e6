------------------------------ MODULE Programs ------------------------------
(***************************************************************************)
(* Who may open a program, and which of its contents (src/program,         *)
(* src/program-package).                                                   *)
(*                                                                         *)
(* Nothing stores an entitlement: every request joins the order lines of   *)
(* the member with the catalogue, in five queries for a program, in seven  *)
(* for one content, in seven others for the list of contents, and each     *)
(* repeats the conditions of the others.  An operator below is one query;  *)
(* it takes the lines it joins, so that a member's are MyLines(m).         *)
(***************************************************************************)
EXTENDS Orders

CONSTANTS
  ProgramIds, Contents, PlanIds, Cards, PackageIds, PackagePlanIds,
  ProgramOf,      \* program_content, through its section: [Contents -> ProgramIds]
  Plans,          \* program_plan: [PlanIds -> PlanRow]
  CardProducts,   \* card_product: [Cards -> SUBSET PlanIds]
  PackagePlans,   \* program_package_plan: [PackagePlanIds -> [package, tempo]]
  PackagePrograms,\* program_package_program: pairs <<package, program>>
  DisplayMode,    \* program_content.display_mode
  Staffs          \* program_role, member_permission and tokens

(* program_plan and its program_content_plan.  Type 3 is a subscription to *)
(* the whole program, 1 to the listed contents, 2 to those of them that    *)
(* are published after the delivery.                                       *)
PlanRow == [type: 1 .. 3, program: ProgramIds, contents: SUBSET Contents]

(* program_role.name by program and member; the members who hold           *)
(* PROGRAM_NORMAL in member_permission; those whose token claims it, or    *)
(* claims PROGRAM_ADMIN, or the role app-owner.                            *)
Staff == [roles: SUBSET (ProgramIds \X Members \X {"owner", "instructor", "assistant"}),
          granted: SUBSET Members, claimed: SUBSET Members,
        admins: SUBSET Members, owners: SUBSET Members]

TargetsOf(type) == {p.target : p \in {q \in Products : q.type = type}}

ASSUME CatalogueAssumption ==
  /\ ProgramOf \in [Contents -> ProgramIds]
  /\ Plans \in [PlanIds -> PlanRow]
  /\ CardProducts \in [Cards -> SUBSET PlanIds]
  /\ PackagePlans \in [PackagePlanIds -> [package: PackageIds, tempo: BOOLEAN]]
  /\ PackagePrograms \subseteq PackageIds \X ProgramIds
  /\ Staffs \subseteq Staff
  /\ DisplayMode \in [Contents -> {"trial", "loginToTrial", "payToWatch"}]
  /\ TargetsOf("Program") \subseteq ProgramIds
  /\ TargetsOf("ProgramPlan") \subseteq PlanIds
  /\ TargetsOf("Card") \subseteq Cards
  /\ TargetsOf("ProgramPackagePlan") \subseteq PackagePlanIds

(* A plan lists contents of its own program only.                          *)
ASSUME PlanContentsAssumption ==
  \A pl \in PlanIds : \A c \in Plans[pl].contents :
    ProgramOf[c] = Plans[pl].program

VARIABLES
  publishedAt,  \* program_content.published_at
  released,     \* the programs whose published_at is not null
  tempo,        \* program_tempo_delivery.delivered_at by package, program, member
  staff         \* roles and permissions

programVars == <<publishedAt, released, tempo, staff>>

ProgramsTypeOK ==
  /\ publishedAt \in [Contents -> Moment]
  /\ released \subseteq ProgramIds
  /\ tempo \in [PackagePrograms \X Members -> Moment]
  /\ staff \in Staffs

ProgramsInit ==
  /\ publishedAt = [c \in Contents |-> 0]
  /\ released = ProgramIds
  /\ tempo = [d \in PackagePrograms \X Members |-> NULL]
  /\ staff \in Staffs

(* External: the back office publishes or withdraws a content or a         *)
(* program, or hands a program of a package to a member, now or later.     *)
PublishContent(c) ==
  /\ publishedAt' = [publishedAt EXCEPT ![c] =
       IF publishedAt[c] = NULL THEN now ELSE NULL]
  /\ UNCHANGED <<released, tempo, staff>>

ReleaseProgram(p) ==
  /\ released' = IF p \in released THEN released \ {p} ELSE released \cup {p}
  /\ UNCHANGED <<publishedAt, tempo, staff>>

DeliverTempo(d, t) ==
  /\ tempo[d] = NULL /\ t >= now
  /\ tempo' = [tempo EXCEPT ![d] = t]
  /\ UNCHANGED <<publishedAt, released, staff>>

-----------------------------------------------------------------------------
(* Catalogue joins.                                                        *)

ContentsOf(p) == {c \in Contents : ProgramOf[c] = p}
Published(c) == publishedAt[c] # NULL
HasRole(p, m, names) == \E n \in names : <<p, m, n>> \in staff.roles

(* Joins with program_role drop a program without one.                     *)
Staffed(p) == \E m \in Members : HasRole(p, m, {"owner", "instructor", "assistant"})

(* The permission a request may use is the one its token claims, and it    *)
(* must still be granted.                                                  *)
MayManage(m, p) ==
  /\ HasRole(p, m, {"owner", "instructor"})
  /\ m \in staff.claimed /\ m \in staff.granted

PlansOf(L) == Targets(L, "ProgramPlan")
PlansOfCards(L) == UNION {CardProducts[k] : k \in Targets(L, "Card")}

(* A program of a package, unless its delivery to m is still to come.      *)
InPackage(m, plan, p) ==
  LET row == PackagePlans[plan] IN
  /\ <<row.package, p>> \in PackagePrograms
  /\ \/ ~row.tempo
     \/ /\ tempo[<<<<row.package, p>>, m>>] # NULL
        /\ tempo[<<<<row.package, p>>, m>>] < now

-----------------------------------------------------------------------------
(* The programs a member owns: the pages that list them.                   *)

GetOwnedProgramsDirectly(L) == Targets(ActiveOf(L), "Program")

GetOwnedProgramsFromProgramPlan(L) ==
  {Plans[pl].program : pl \in PlansOf(ActiveOf(L))}

GetOwnedProgramsFromMembershipCardEnrollment(L) ==
  {p \in {Plans[pl].program : pl \in PlansOfCards(ActiveOf(L))} : Staffed(p)}

GetProgramsWithRoleIsAssistant(m) ==
  {p \in ProgramIds : HasRole(p, m, {"assistant"})}

GetProgramsByMemberId(m) ==
  LET L == MyLines(m) IN
  GetOwnedProgramsDirectly(L) \cup GetOwnedProgramsFromProgramPlan(L)
    \cup GetOwnedProgramsFromMembershipCardEnrollment(L)
    \cup GetProgramsWithRoleIsAssistant(m)

GetExpiredProgramsByProgramPlan(L) ==
  {p \in {Plans[pl].program : pl \in PlansOf(LapsedOf(L))} : Staffed(p)}

BugGetExpiredProgramsByMembershipCard(L) ==  \* joins plans, not cards
  {p \in {Plans[pl].program : pl \in PlansOf(LapsedOf(L))} : Staffed(p)}

GetExpiredProgramsByMembershipCard(L) ==
  {p \in {Plans[pl].program : pl \in PlansOfCards(LapsedOf(L))} : Staffed(p)}

GetExpiredProgramByMemberId(m) ==
  GetExpiredProgramsByProgramPlan(MyLines(m))
    \cup GetExpiredProgramsByMembershipCard(MyLines(m))

-----------------------------------------------------------------------------
(* Whether program p opens for member m.                                   *)

GetProgramByProgramPlanEnrollment(L, p) ==
  \E pl \in PlansOf(ActiveOf(L)) : Plans[pl].program = p

BugGetProgramByMembershipCardEnrollment(L, p) ==  \* joins plans, not cards
  \E pl \in PlansOf(ActiveOf(L)) : Plans[pl].program = p

GetProgramByMembershipCardEnrollment(L, p) ==
  \E pl \in PlansOfCards(ActiveOf(L)) : Plans[pl].program = p

GetProgramByProgramEnrollment(L, p) == p \in Targets(ActiveOf(L), "Program")

GetProgramByProgramPackageEnrollment(m, L, p) ==
  \E plan \in Targets(ActiveOf(L), "ProgramPackagePlan") : InPackage(m, plan, p)

ProgramBought(m, L, p) ==
  \/ GetProgramByProgramPlanEnrollment(L, p)
  \/ GetProgramByProgramEnrollment(L, p)
  \/ GetProgramByProgramPackageEnrollment(m, L, p)
  \/ GetProgramByMembershipCardEnrollment(L, p)

GetProgramByMemberId(m, p) == ProgramBought(m, MyLines(m), p) \/ MayManage(m, p)

(* GET /programs/:programId.                                               *)
OpenProgram(m, p) == m \in staff.admins \/ GetProgramByMemberId(m, p)

-----------------------------------------------------------------------------
(* Whether content c, asked for under program p, comes with equity.  Only  *)
(* the queries on the program, its roles and its packages look at p.       *)

ContentByProgramEnrollment(L, p, c) ==
  /\ p \in Targets(ActiveOf(L), "Program")
  /\ ProgramOf[c] = p /\ Published(c)

ContentByProgramRole(m, p, c) ==
  ProgramOf[c] = p /\ HasRole(p, m, {"assistant"})

ContentByProgramRoleAndPermission(m, p, c) == ProgramOf[c] = p /\ MayManage(m, p)

(* Type 1, or type 2 for a content published after line l was delivered.   *)
InPlan(l, pl, c) ==
  /\ c \in Plans[pl].contents
  /\ \/ Plans[pl].type = 1
     \/ /\ Plans[pl].type = 2
        /\ Published(c) /\ publishedAt[c] > lines[l].deliveredAt

ContentByPlanSubscribedFromNowOrAll(L, c) ==
  \E l \in ActiveOf(L) : \E pl \in PlansOf({l}) : InPlan(l, pl, c)

ContentByPlanEnrollment(L, c) ==
  \E pl \in PlansOf(ActiveOf(L)) :
    Plans[pl].type = 3 /\ ProgramOf[c] = Plans[pl].program

ContentByPackageEnrollment(m, L, p, c) ==
  \E plan \in Targets(ActiveOf(L), "ProgramPackagePlan") :
    ProgramOf[c] = p /\ InPackage(m, plan, p)

(* The plans of a card: type 3 gives the whole program, published or not,  *)
(* the others their published contents.                                    *)
ContentByMembership(L, c) ==
  \E l \in ActiveOf(L) : \E pl \in PlansOfCards({l}) :
    \/ Plans[pl].type = 3 /\ ProgramOf[c] = Plans[pl].program
    \/ Published(c) /\ InPlan(l, pl, c)

ContentBought(m, L, p, c) ==
  \/ ContentByProgramEnrollment(L, p, c)
  \/ ContentByPlanSubscribedFromNowOrAll(L, c)
  \/ ContentByPlanEnrollment(L, c)
  \/ ContentByPackageEnrollment(m, L, p, c)
  \/ ContentByMembership(L, c)

GetEnrolledProgramContentById(m, p, c) ==
  \/ ContentBought(m, MyLines(m), p, c)
  \/ ContentByProgramRole(m, p, c)
  \/ ContentByProgramRoleAndPermission(m, p, c)

(* GET /programs/:programId/contents/:programContentId for a request with  *)
(* the token of m, or with none (NULL): isEquity of the answer.            *)
OpenContent(m, p, c) ==
  \/ DisplayMode[c] = "trial"
  \/ m # NULL /\ DisplayMode[c] = "loginToTrial"
  \/ m \in staff.admins
  \/ m # NULL /\ GetEnrolledProgramContentById(m, p, c)

-----------------------------------------------------------------------------
(* The contents listed under program p: seven other queries.               *)

ContentsByProgramEnrollment(L, p) ==
  IF p \in Targets(ActiveOf(L), "Program")
    THEN {c \in ContentsOf(p) : Published(c)} ELSE {}

ContentsByProgramRole(m, p) ==
  IF HasRole(p, m, {"assistant"}) THEN ContentsOf(p) ELSE {}

ContentsByProgramRoleAndPermission(m, p) ==
  IF MayManage(m, p) THEN ContentsOf(p) ELSE {}

ContentsByPlanSubscribedFromNowOrAll(L, p) ==
  {c \in Contents : \E l \in ActiveOf(L) : \E pl \in PlansOf({l}) :
     Plans[pl].program = p /\ InPlan(l, pl, c)}

ContentsByPlanEnrollment(L, p) ==
  UNION {ContentsOf(p) : pl \in
    {q \in PlansOf(ActiveOf(L)) : Plans[q].type = 3 /\ Plans[q].program = p}}

BugContentsByPackageEnrollment(m, L, p) ==  \* forgets tempo deliveries
  UNION {ContentsOf(p) : plan \in
    {q \in Targets(ActiveOf(L), "ProgramPackagePlan") :
       <<PackagePlans[q].package, p>> \in PackagePrograms}}

ContentsByPackageEnrollment(m, L, p) ==
  UNION {ContentsOf(p) : plan \in
    {q \in Targets(ActiveOf(L), "ProgramPackagePlan") : InPackage(m, q, p)}}

(* Not restricted to p: the contents of every card are listed under every  *)
(* program.                                                                *)
ContentsByMembershipCardEnrollment(L) ==
  {c \in Contents : \E l \in ActiveOf(L) : \E pl \in PlansOfCards({l}) :
     \/ Plans[pl].type = 3 /\ c \in ContentsOf(Plans[pl].program)
     \/ Published(c) /\ InPlan(l, pl, c)}

GetEnrolledProgramContentsByProgramId(m, p) ==
  LET L == MyLines(m) IN
  ContentsByProgramEnrollment(L, p) \cup ContentsByProgramRole(m, p)
    \cup ContentsByProgramRoleAndPermission(m, p)
    \cup ContentsByPlanSubscribedFromNowOrAll(L, p)
    \cup ContentsByPlanEnrollment(L, p)
    \cup ContentsByPackageEnrollment(m, L, p)
    \cup ContentsByMembershipCardEnrollment(L)

(* GET /programs/:programId/contents: every content for an administrator   *)
(* or an app owner.                                                        *)
ListContents(m, p) ==
  IF m \in staff.owners \cup staff.admins THEN ContentsOf(p)
    ELSE GetEnrolledProgramContentsByProgramId(m, p)

-----------------------------------------------------------------------------
(* Program packages.                                                       *)

PackagesOf(L) ==
  {PackagePlans[plan].package : plan \in Targets(L, "ProgramPackagePlan")}

GetOwnedProgramPackages(m) == PackagesOf(ActiveOf(MyLines(m)))

GetExpiredProgramPackages(m) == PackagesOf(LapsedOf(MyLines(m)))

(* The page of a package groups its rows by plan and reads the first: of    *)
(* the plans a member owns for it, any one.  No row, and the service fails *)
(* on the missing record.                                                  *)
PackageRows(m, k) ==
  {plan \in Targets(ActiveOf(MyLines(m)), "ProgramPackagePlan") :
     /\ PackagePlans[plan].package = k
     /\ \E p \in released : <<k, p>> \in PackagePrograms}

BugPackagePage(m, k, plan) ==  \* shows what is still to be delivered
  {p \in released : <<k, p>> \in PackagePrograms}

(* The released programs of the package; for a tempo plan the service      *)
(* itself drops those whose delivery is to come.                           *)
PackagePage(m, k, plan) ==
  {p \in released :
     /\ <<k, p>> \in PackagePrograms
     /\ PackagePlans[plan].tempo =>
          LET at == tempo[<<<<k, p>>, m>>] IN at # NULL /\ at < now}

-----------------------------------------------------------------------------
(* The list of a program's contents and the page of each content agree:    *)
(* the fourteen queries give the same contents to the same members.        *)
ListAgreesWithContent ==
  \A m \in Members, p \in ProgramIds :
    LET listed == GetEnrolledProgramContentsByProgramId(m, p) IN
    \A c \in ContentsOf(p) : c \in listed <=> GetEnrolledProgramContentById(m, p, c)

(* What is listed under a program opens there by the request for the       *)
(* content, and so does the program itself, but for an assistant, whose    *)
(* role opens the contents only.  An app owner without PROGRAM_ADMIN is    *)
(* listed every content and opens none by it.                              *)
ListedContentOpens ==
  \A m \in Members \ (staff.owners \ staff.admins), p \in ProgramIds :
    \A c \in ListContents(m, p) : ProgramOf[c] = p =>
      /\ OpenContent(m, p, c)
      /\ OpenProgram(m, p) \/ HasRole(p, m, {"assistant"})

(* A program on the member's page of owned programs opens, except by the   *)
(* role of assistant; one that was bought outside a package is on that     *)
(* page, except through a card when the program has no staff at all; and   *)
(* whichever plan the page of a package happens to read, the programs it   *)
(* shows open: the filter of the service and the condition of the query on *)
(* tempo deliveries agree.                                                 *)
ProgramPagesOpen ==
  \A m \in Members :
    LET L == MyLines(m)
        owned == GetProgramsByMemberId(m) IN
    /\ \A p \in owned \ GetProgramsWithRoleIsAssistant(m) : GetProgramByMemberId(m, p)
    /\ \A p \in ProgramIds \ owned :
         /\ ~GetProgramByProgramPlanEnrollment(L, p)
         /\ ~GetProgramByProgramEnrollment(L, p)
         /\ GetProgramByMembershipCardEnrollment(L, p) => ~Staffed(p)
    /\ \A k \in GetOwnedProgramPackages(m) : \A plan \in PackageRows(m, k) :
         \A p \in PackagePage(m, k, plan) :
           GetProgramByProgramPackageEnrollment(m, L, p)

(* The lines whose entitlement does not depend on deliveries to a member.  *)
NotTempo(L) ==
  {l \in L : lines[l].product.type = "ProgramPackagePlan" =>
     ~PackagePlans[lines[l].product.target].tempo}

(* A transfer moves what the order gives, at once and altogether: the new  *)
(* member gets every content of it (a tempo plan excepted, since its       *)
(* programs were handed to the first member), and the first keeps only     *)
(* what other orders give.                                                 *)
TransferMovesAccess ==
  [][\A o \in Placed : orders'[o].transfers > orders[o].transfers =>
       \A from \in {orders[o].member}, to \in Members, c \in Contents :
         orders'[o].member = to =>
            /\ ContentBought(from, NotTempo(LinesOf(o)), ProgramOf[c], c) =>
                 GetEnrolledProgramContentById(to, ProgramOf[c], c)'
            /\ /\ from # to
               /\ ContentBought(from, MyLines(from), ProgramOf[c], c)'
               => ContentBought(from, MyLines(from) \ LinesOf(o), ProgramOf[c], c)
            /\ Targets(ActiveOf(LinesOf(o)), "PodcastPlan")
                 \subseteq GetOwnedPodcastPlan(to)'
     ]_<<orderVars, programVars>>

(* When time alone takes a plan or a card away from a member, the page of  *)
(* expired programs shows it from then on, unless the order is no longer   *)
(* successful or nobody has a role in the program; the page of expired     *)
(* packages likewise.  At the very instant a term ends neither page does.  *)
LapsedIsListed ==
  [][now' > now =>
       \A m \in Members : \A l \in MyLines(m) :
         /\ Active(l) /\ ~Active(l)' /\ lines[l].endedAt # now'
         /\ orders[lines[l].order].status = "SUCCESS"
         => /\ \A p \in GetOwnedProgramsFromProgramPlan({l})
                     \cup GetOwnedProgramsFromMembershipCardEnrollment({l}) :
                 Staffed(p) => p \in GetExpiredProgramByMemberId(m)'
            /\ PackagesOf({l}) \subseteq GetExpiredProgramPackages(m)'
     ]_<<orderVars, programVars>>

=============================================================================

----------------------------- MODULE Storefront -----------------------------
(***************************************************************************)
(* The storefront of an app: the orders of its members, what they entitle  *)
(* to (Programs, Podcasts), the tickets they admit with (Activities), and  *)
(* the progress made (Progress).  The parts share the orders and the       *)
(* clock; progress shares no state with them, so a behaviour moves either  *)
(* the orders and what hangs on them, or the progress.                     *)
(***************************************************************************)
EXTENDS Podcasts, Activities, Progress

CONSTANTS
  Scenes,          \* apps: [shelf, staff, focus]
  ContentChanges,  \* contents that are published or withdrawn
  ProgramChanges,  \* programs that are released or withdrawn
  TempoChanges     \* programs of packages that are handed out, and from when

ASSUME StorefrontAssumption ==
  /\ \A scene \in Scenes : scene.focus \in {"orders", "progress"}
  /\ ContentChanges \subseteq Contents /\ ProgramChanges \subseteq ProgramIds
  /\ TempoChanges \subseteq (PackagePrograms \X Members) \X Time

VARIABLE focus  \* the part that moves

vars == <<orderVars, programVars, attendance, progressVars, focus>>

TypeOK ==
  /\ OrdersTypeOK /\ ProgramsTypeOK /\ ActivitiesTypeOK /\ ProgressTypeOK
  /\ focus \in {"orders", "progress"}

Init ==
  /\ OrdersInit /\ ProgramsInit /\ ActivitiesInit /\ ProgressInit
  /\ \E scene \in Scenes :
       shelf = scene.shelf /\ staff = scene.staff /\ focus = scene.focus

SellsA(type) == \E offer \in shelf : offer.product.type = type

(* The members' orders move; what the back office edits is limited to what *)
(* the shelf shows.                                                        *)
OrdersStep ==
  /\ focus = "orders"
  /\ OrdersNext
  /\ UNCHANGED <<programVars, attendance, progressVars, focus>>

CatalogueStep ==
  /\ focus = "orders"
  /\ \/ /\ SellsA("ProgramPlan") \/ SellsA("Card")
        /\ \E c \in ContentChanges : PublishContent(c)
     \/ /\ SellsA("ProgramPackagePlan")
        /\ \/ \E p \in ProgramChanges : ReleaseProgram(p)
           \/ \E delivery \in TempoChanges : DeliverTempo(delivery[1], delivery[2])
  /\ UNCHANGED <<orderVars, attendance, progressVars, focus>>

DoorStep ==
  /\ focus = "orders"
  /\ \E l \in LineIds, s \in Sessions : Attend(l, s)
  /\ UNCHANGED <<orderVars, programVars, progressVars, focus>>

ProgressStep ==
  /\ focus = "progress"
  /\ ProgressNext
  /\ UNCHANGED <<orderVars, programVars, attendance, focus>>

Next == OrdersStep \/ CatalogueStep \/ DoorStep \/ ProgressStep

Spec == Init /\ [][Next]_vars

(* What the pages of a member show as owned opens, and what opens is shown *)
(* there: programs and packages as in Programs, podcasts as in Podcasts.   *)
OwnedPagesOpen == ProgramPagesOpen /\ OwnedPodcastsTold

=============================================================================

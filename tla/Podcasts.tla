------------------------------ MODULE Podcasts ------------------------------
(***************************************************************************)
(* The podcasts a member can listen to (src/podcast), and who is shown as  *)
(* the owner of what was sold (src/product).  A podcast plan opens every   *)
(* podcast its creator hosts, whenever it was made; the rows of an export  *)
(* of orders name the creator of a product, which eleven queries, one for  *)
(* each type of product, look for in as many places.                       *)
(***************************************************************************)
EXTENDS Programs

CONSTANTS
  PodcastIds,
  CreatorOf,  \* creators of plans, packages and activities: [Products -> Creators or NULL]
  HostsOf,    \* podcast_program_role of instructors: [PodcastIds -> SUBSET Creators]
  Creators,
  Albums      \* podcast_album: [published, podcasts]

ASSUME PodcastsAssumption ==
  /\ NULL \notin Creators /\ NULL \notin PodcastIds
  /\ CreatorOf \in [Products -> Creators \cup {NULL}]
  /\ HostsOf \in [PodcastIds -> SUBSET Creators]
  /\ Albums \subseteq [published: BOOLEAN, podcasts: SUBSET PodcastIds]
  /\ TargetsOf("PodcastProgram") \subseteq PodcastIds

(* A target is the uuid of a row, which no row of another table shares.    *)
ASSUME TargetsAssumption == \A p, q \in Products : p.target = q.target => p = q

HostedBy(creator) == {c \in PodcastIds : creator \in HostsOf[c]}

-----------------------------------------------------------------------------
(* The three queries of getOwnedPodcasts, whose union is joined to the     *)
(* podcasts: a plan whose creator hosts nothing leaves an entry without a  *)
(* podcast in the list.                                                    *)
GetOwnedPodcastsDirectly(m) == Targets(ActiveOf(MyLines(m)), "PodcastProgram")

GetOwnedPodcastsFromPodcastPlan(m) ==
  UNION {LET hosted == HostedBy(CreatorOf[lines[l].product])
         IN IF hosted = {} THEN {NULL} ELSE hosted :
         l \in {k \in ActiveOf(MyLines(m)) : lines[k].product.type = "PodcastPlan"}}

PublicPodcasts == UNION {album.podcasts : album \in {a \in Albums : a.published}}

GetOwnedPodcasts(m) ==
  GetOwnedPodcastsDirectly(m) \cup GetOwnedPodcastsFromPodcastPlan(m)
    \cup PublicPodcasts

-----------------------------------------------------------------------------
(* The rows of one query: nobody is found for a program without an         *)
(* instructor, and a nameless one for a card, whose creator is never set.  *)
Instructors(program) == {m \in Members : HasRole(program, m, {"instructor"})}

OwnersOf(product) ==
  CASE product.type = "Program" -> Instructors(product.target)
    [] product.type = "ProgramPlan" -> Instructors(Plans[product.target].program)
    [] product.type = "Card" -> {NULL}
    [] OTHER -> {CreatorOf[product]}

(* Rows hold the target of the product and the name of an owner, and not   *)
(* the type.                                                               *)
GetProductOwnerByProducts(products) ==
  UNION {{[productId |-> p.target, owner |-> n] : n \in OwnersOf(p)} : p \in products}

(* firstMatchMap takes the first row of a product; the union has no order. *)
OwnersShown(product, exported) ==
  LET found == {o.owner : o \in {row \in GetProductOwnerByProducts(exported) :
                                   row.productId = product.target}}
  IN IF found = {} THEN {NULL} ELSE found

-----------------------------------------------------------------------------
(* What the list of podcasts holds is what the list of plans promises and  *)
(* the exports credit: every podcast of whoever is shown as the owner of a *)
(* plan the member can listen to, and else only podcasts that are public   *)
(* or were bought by themselves; and an entry without a podcast exactly    *)
(* when the owner shown for such a plan hosts none.                        *)
OwnedPodcastsTold ==
  LET credited == {lines[l].product : l \in Sold} IN
  \A m \in Members :
    LET owned == GetOwnedPodcasts(m)
        promised(plan) ==
          UNION {HostedBy(n) : n \in OwnersShown([type |-> "PodcastPlan", target |-> plan], credited)}
        plans == GetOwnedPodcastPlan(m) IN
    /\ UNION {promised(plan) : plan \in plans} \subseteq owned
    /\ owned \ {NULL} \subseteq
         PublicPodcasts \cup {lines[l].product.target : l \in ActiveOf(MyLines(m))}
           \cup UNION {promised(plan) : plan \in plans}
    /\ NULL \in owned <=> \E plan \in plans : promised(plan) = {}

=============================================================================

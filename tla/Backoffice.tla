----------------------------- MODULE Backoffice -----------------------------
(***************************************************************************)
(* The back office of an app: the searches over its members (Members), the *)
(* imports of members and coins (Imports), the deletion of a member        *)
(* (MemberDeletion) and the exports (Exports).  Imports and searches share *)
(* the members; the deletion is seen table by table, and the exports only  *)
(* as far as their time zone goes, so a behaviour moves one of the three.  *)
(***************************************************************************)
EXTENDS Imports, MemberDeletion, Exports

CONSTANT Scenes  \* what behaviours begin with: [focus, jobs, exports]

ASSUME ScenesAssumption == \A s \in Scenes : s.focus \in {"imports", "deletion", "exports"}

VARIABLE focus  \* the part that moves

vars == <<importVars, deletionVars, exportVars, focus>>

TypeOK ==
  /\ MembersTypeOK /\ ImportsTypeOK /\ DeletionTypeOK /\ ExportsTypeOK
  /\ focus \in {"imports", "deletion", "exports"}

Init ==
  /\ \E scene \in Scenes :
       /\ ImportsInit(scene.jobs) /\ DeletionInit /\ ExportsInit(scene.exports)
       /\ focus = scene.focus

ImportsStep ==
  /\ focus = "imports" /\ ImportsNext
  /\ UNCHANGED <<deletionVars, exportVars, focus>>

DeletionStep ==
  /\ focus = "deletion" /\ DeletionNext
  /\ UNCHANGED <<importVars, exportVars, focus>>

ExportsStep ==
  /\ focus = "exports" /\ ExportsNext
  /\ UNCHANGED <<importVars, deletionVars, focus>>

Next == ImportsStep \/ DeletionStep \/ ExportsStep

Spec == Init /\ [][Next]_vars

=============================================================================

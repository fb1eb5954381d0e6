----------------------------- MODULE MCAppCache -----------------------------
(* An instance of AppCache for TLC.                                        *)
EXTENDS AppCache, TLC

CONSTANTS v1, a1

(* One app has every row, and the other none: nothing of it is cached.     *)
MCSeeds == {[a \in Apps |-> [h \in Hashes |-> [f \in Fields |->
               IF a = a1 THEN v1 ELSE NULL]]]}

(* The rows of one app change; the host may be bound to the other.         *)
MCEdits == {<<a1, h>> : h \in Hashes}

=============================================================================

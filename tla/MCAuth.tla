------------------------------- MODULE MCAuth -------------------------------
(* Instances of Auth for TLC.                                              *)
EXTENDS Auth, TLC

CONSTANTS email, name, capitals, near, far

(* The email may be typed in capitals: the counters are the same, the      *)
(* member is not found.                                                    *)
MCAccountOf == email :> email @@ name :> name @@ capitals :> email

(* A member with a password logs in by both names, from two addresses; a   *)
(* member without one asks for two links.  Three attempts are the least    *)
(* that exceed a cap of two after a counter below it expired.              *)
MCScenes ==
  {[focus |-> "codes", passhash |-> TRUE, left |-> 0, origins |-> {}],
   [focus |-> "passwords", passhash |-> TRUE, left |-> 3,
    origins |-> {<<email, near>>, <<email, far>>, <<name, near>>, <<capitals, near>>}],
   [focus |-> "passwords", passhash |-> FALSE, left |-> 2,
    origins |-> {<<email, near>>}]}

(* Requests of a kind and codes are interchangeable.                       *)
Symmetry == Permutations(Verifiers) \cup Permutations(Senders)

=============================================================================

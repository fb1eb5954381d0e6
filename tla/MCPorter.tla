------------------------------ MODULE MCPorter ------------------------------
(* Instances of Porter for TLC.                                            *)
EXTENDS Porter

CONSTANTS e1, e2, f1, f2, r1

(* One podcast record with two events.                                      *)
MCPodcastEvents == {<<r1, 1>>, <<r1, 2>>}
MCRejected == {f2, <<r1, 1>>}

(* The streams share no state but the order of the commands.                *)
MCBusy == {{"login"}, {"player"}, {"phone"}, {"podcast"}}

=============================================================================

---------------------------- MODULE AppDirectory ----------------------------
(***************************************************************************)
(* What the app cache promises, without its keys: requests are answered    *)
(* with an app of the host and with what is known of that app.             *)
(*                                                                         *)
(* A value becomes known by being written to the database and may be       *)
(* forgotten at any time once it is no longer there; one that is forgotten *)
(* does not return by itself.  So when only the values of the database are *)
(* known, every answer is current until the next change.                   *)
(***************************************************************************)
CONSTANTS Apps, Hashes, Fields, Requests, NULL

VARIABLES
  bound,    \* the app the host is bound to, or NULL
  db,       \* the rows of every app
  hosts,    \* the apps the host may be answered with
  known,    \* the values of every field that may be answered
  missing,  \* the hashes a request may miss as a whole
  answer    \* what a request was answered with, NULL before and after

vars == <<bound, db, hosts, known, missing, answer>>

Init ==
  /\ hosts = {bound}
  /\ known = [a \in Apps |-> [h \in Hashes |-> [f \in Fields |-> {db[a][h][f]}]]]
  /\ missing = [r \in Requests |-> {}]
  /\ answer = [r \in Requests |-> NULL]

(* Every step: nothing but what the database now holds becomes known, and  *)
(* that does.                                                              *)
LearnsFromDatabaseOnly ==
  /\ bound' \in hosts' /\ hosts' \subseteq hosts \cup {bound'}
  /\ \A a \in Apps, h \in Hashes, f \in Fields :
       LET next == known'[a][h][f] IN
       /\ db'[a][h][f] \in next
       /\ next \subseteq known[a][h][f] \cup {db'[a][h][f]}

Answerable(r, reply) ==
  /\ reply.app \in hosts
  /\ \A h \in Hashes :
       \/ /\ reply.info[h] # NULL
          /\ \A f \in Fields : reply.info[h][f] \in known[reply.app][h][f]
       \/ h \in missing[r] /\ reply.info[h] = NULL

(* The rows change, or values are forgotten.                               *)
Change == UNCHANGED <<missing, answer>>

(* A hash is dropped from under the requests that read it.                 *)
Drop(h) ==
  /\ UNCHANGED <<bound, db, answer>>
  /\ \A r \in Requests :
       missing[r] \subseteq missing'[r] /\ missing'[r] \subseteq missing[r] \cup {h}

Answer(r) ==
  /\ answer[r] = NULL
  /\ UNCHANGED <<bound, db, missing>>
  /\ answer'[r] # NULL /\ Answerable(r, answer'[r])
  /\ \A q \in Requests \ {r} : answer'[q] = answer[q]

(* The request is over, answered or not, and the next may begin.           *)
Finish(r) ==
  /\ UNCHANGED <<bound, db>>
  /\ answer' = [answer EXCEPT ![r] = NULL]
  /\ missing' = [missing EXCEPT ![r] = {}]

Next ==
  /\ LearnsFromDatabaseOnly
  /\ \/ Change
     \/ \E h \in Hashes : Drop(h)
     \/ \E r \in Requests : Answer(r) \/ Finish(r)

Spec == Init /\ [][Next]_vars

=============================================================================

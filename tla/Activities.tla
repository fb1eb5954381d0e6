----------------------------- MODULE Activities -----------------------------
(***************************************************************************)
(* Activities, their tickets and who attended them (src/activity).         *)
(*                                                                         *)
(* A ticket is bought as an order line and admits to some sessions of its  *)
(* activity; attendance is recorded per line and session.  Four readers    *)
(* join the same rows: the page of the activity, the page of a ticket, the *)
(* list of participants and the counts of the collection.                  *)
(***************************************************************************)
EXTENDS Orders

CONSTANTS
  ActivityIds, Tickets, Sessions,
  ActivityOfTicket,   \* activity_ticket.activity_id
  ActivityOfSession,  \* activity_session.activity_id
  SessionTickets      \* activity_session_ticket: [session, ticket, type]

SessionTicket == [session: Sessions, ticket: Tickets, type: {"online", "offline"}]

ASSUME ActivitiesAssumption ==
  /\ ActivityOfTicket \in [Tickets -> ActivityIds]
  /\ ActivityOfSession \in [Sessions -> ActivityIds]
  /\ SessionTickets \subseteq SessionTicket
  /\ IsFiniteSet(Tickets) /\ IsFiniteSet(Sessions)
  /\ \A st \in SessionTickets :
       ActivityOfSession[st.session] = ActivityOfTicket[st.ticket]

VARIABLE attendance  \* activity_attendance: pairs <<line, session>>

ActivitiesTypeOK == attendance \subseteq LineIds \X Sessions

ActivitiesInit == attendance = {}

SessionsOf(t) == {st.session : st \in {x \in SessionTickets : x.ticket = t}}

(* activity_ticket_enrollment: the delivered lines of ticket t; neither    *)
(* their term nor the status of their order matters.                       *)
Enrolled(t) ==
  {l \in Sold : /\ lines[l].product = [type |-> "ActivityTicket", target |-> t]
                /\ Delivered(l)}

(* External: the attendance of the holder of line l at a session of the    *)
(* ticket is recorded at the door.                                         *)
Attend(l, s) ==
  /\ \E t \in Tickets : l \in Enrolled(t) /\ s \in SessionsOf(t)
  /\ attendance' = attendance \cup {<<l, s>>}

-----------------------------------------------------------------------------
(* getActivityTicketEnrollment, and the merge of getActivityByMemberId: of *)
(* the lines member m has for the ticket the page reads the first, any     *)
(* one.  The join on attendance leaves out the session, so one attended    *)
(* session marks every session of the ticket.                              *)
TicketLines(m, t) == Enrolled(t) \cap MyLines(m)

BugGetActivityTicketEnrollment(l, s) ==  \* joins by order, not by line
  \E x \in Sessions, k \in LinesOf(lines[l].order) : <<k, x>> \in attendance

GetActivityTicketEnrollment(l, s) == \E x \in Sessions : <<l, x>> \in attendance

(* getActivityTicketEnrollmentCount.                                       *)
Participants(t) == Cardinality(Enrolled(t))

(* activity_enrollment, which getActivityParticipants lists by session: a  *)
(* row for each line of a ticket and each kind of seat the ticket has.     *)
SeatsOf(s) == {st \in SessionTickets : st.session = s}
Seated(st) ==
  {[line |-> l, ticket |-> st.ticket, seat |-> st.type,
    member |-> orders[lines[l].order].member,
    attended |-> <<l, st.session>> \in attendance] : l \in Enrolled(st.ticket)}
ActivityEnrollment(s) == UNION {Seated(st) : st \in SeatsOf(s)}

(* activity_session_ticket_enrollment_count, by kind of seat.              *)
SessionCount(s, type) ==
  SumFunctionOnSet([st \in SessionTickets |-> Participants(st.ticket)],
                   {st \in SeatsOf(s) : st.type = type})

(* participantsCount of an activity in the collection.                     *)
HeldBy(a) == {s \in Sessions : ActivityOfSession[s] = a}
CollectionCount(a, type) ==
  SumFunctionOnSet([s \in Sessions |-> SessionCount(s, type)], HeldBy(a))

(* _fetchSessions of the page of a ticket: its join on activity_enrollment *)
(* leaves out the member, and DISTINCT ON keeps one row of the session,    *)
(* of any holder.  The values attended may take:                           *)
FetchSessions(t, s) ==
  LET rows == {r \in ActivityEnrollment(s) : r.ticket = t} IN
  IF rows = {} THEN {NULL} ELSE {r.attended : r \in rows}

-----------------------------------------------------------------------------
(* What the pages tell of attendance.  The page of the activity leaves out *)
(* no session that the list of participants shows as attended, when the    *)
(* member holds the ticket once (with two lines it may read the other),    *)
(* and shows none without an attended session of the ticket.  The page of  *)
(* a ticket tells its only holder the truth about each session; with       *)
(* several holders it may show another's attendance.  And the pages count  *)
(* the rows the list of participants is read from: its lines by ticket,    *)
(* and all its rows by kind of seat of the activity's sessions.            *)
AttendanceTold ==
  /\ \A t \in Tickets : \A s \in SessionsOf(t) : \A r \in ActivityEnrollment(s) :
       r.ticket = t =>
         /\ r.attended /\ TicketLines(r.member, t) = {r.line} =>
              \A l \in TicketLines(r.member, t) : GetActivityTicketEnrollment(l, s)
         /\ GetActivityTicketEnrollment(r.line, s) =>
              \E x \in SessionsOf(t) : \E q \in ActivityEnrollment(x) :
                q.line = r.line /\ q.attended
         /\ Enrolled(t) = {r.line} => FetchSessions(t, s) = {r.attended}
  /\ \A t \in Tickets : \A s \in SessionsOf(t) :
       Cardinality({r.line : r \in {q \in ActivityEnrollment(s) : q.ticket = t}})
         = Participants(t)
  /\ \A a \in ActivityIds :
       CollectionCount(a, "online") + CollectionCount(a, "offline") =
         SumFunctionOnSet([s \in Sessions |-> Cardinality(ActivityEnrollment(s))], HeldBy(a))

=============================================================================

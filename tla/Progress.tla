------------------------------ MODULE Progress ------------------------------
(***************************************************************************)
(* The progress of members in the contents of a program: trackProgram-     *)
(* ContentProgress (src/program/program.service.ts) and the view rate the  *)
(* pages show.                                                             *)
(*                                                                         *)
(* A call reads the row of the member and the content, takes the maximum   *)
(* with the progress it was sent, and upserts the result, in a transaction *)
(* of READ COMMITTED isolation that locks nothing at the read: two calls   *)
(* for the same row may both read before either writes.                    *)
(***************************************************************************)
EXTENDS Integers, FiniteSets, Functions

CONSTANTS
  Viewers,   \* members
  Clips,     \* published contents of one program
  GradeOf,   \* what an exercise, exam, ebook or practice counts, see below
  Calls,     \* concurrent calls of the endpoint
  Reports,   \* progress a call may send, in hundredths
  Positions, \* positions a call may send
  Bodies,    \* what a call may send together: <<progress, position>>
  NoRow      \* the row does not exist, or the field is not sent

ProgramContentProgress == [progress: 0 .. 100, last: 0 .. 100]

ASSUME ProgressAssumption ==
  /\ Reports \subseteq 0 .. 100 /\ Positions \subseteq 0 .. 100
  /\ Bodies \subseteq (Reports \cup {NoRow}) \X (Positions \cup {NoRow})
  /\ NoRow \notin 0 .. 100 /\ NoRow \notin ProgramContentProgress
  /\ IsFiniteSet(Clips) /\ Clips # {}
  /\ GradeOf \in [Viewers \X Clips -> 0 .. 100 \cup {NoRow}]

VARIABLES
  progress,  \* program_content_progress: [progress, last] or NoRow
  call,      \* the calls in flight
  raced      \* ghost: the rows written by a call that overlapped a write

progressVars == <<progress, call, raced>>

ProgressTypeOK ==
  /\ progress \in [Viewers \X Clips -> ProgramContentProgress \cup {NoRow}]
  /\ call \in [Calls ->
       [row: Viewers \X Clips, sent: Reports \cup {NoRow}, last: Positions \cup {NoRow},
        read: ProgramContentProgress \cup {NoRow}, stale: BOOLEAN] \cup {NoRow}]
  /\ raced \subseteq Viewers \X Clips

ProgressInit ==
  /\ progress = [r \in Viewers \X Clips |-> NoRow]
  /\ call = [k \in Calls |-> NoRow]
  /\ raced = {}

(* The call begins its transaction and reads the row.                      *)
TrackRead(k, r, sent, last) ==
  /\ call[k] = NoRow
  /\ call' = [call EXCEPT ![k] =
       [row |-> r, sent |-> sent, last |-> last, read |-> progress[r], stale |-> FALSE]]
  /\ UNCHANGED <<progress, raced>>

BugUpserted(c) ==  \* writes what was sent
  [progress |-> IF c.sent # NoRow THEN c.sent ELSE 0,
   last |-> IF c.last # NoRow THEN c.last ELSE 0]

BugUpsertedSum(c) ==  \* adds instead of taking the maximum
  LET none == c.read = NoRow
      sent == IF c.sent # NoRow THEN c.sent ELSE 0
  IN [progress |-> IF none THEN sent ELSE c.read.progress + sent,
      last |-> IF c.last # NoRow THEN c.last ELSE IF none THEN 0 ELSE c.read.last]

(* What a call writes: the larger of the row it read and the progress sent,*)
(* and the position sent, the one it read, or 0.                           *)
Upserted(c) ==
  LET none == c.read = NoRow
      sent == IF c.sent # NoRow THEN c.sent ELSE IF none THEN 0 ELSE c.read.progress
  IN [progress |-> IF ~none /\ c.read.progress > sent THEN c.read.progress ELSE sent,
      last |-> IF c.last # NoRow THEN c.last ELSE IF none THEN 0 ELSE c.read.last]

(* The upsert commits, over whatever the row holds by now.                 *)
TrackWrite(k) ==
  /\ call[k] # NoRow
  /\ LET r == call[k].row IN
     /\ progress' = [progress EXCEPT ![r] = Upserted(call[k])]
     /\ raced' = IF call[k].stale THEN raced \cup {r} ELSE raced
     /\ call' = [q \in Calls |->
          IF q = k THEN NoRow
          ELSE IF call[q] # NoRow /\ call[q].row = r
            THEN [call[q] EXCEPT !.stale = TRUE] ELSE call[q]]

(* The database refuses the upsert, and the transaction is rolled back.    *)
TrackFail(k) ==
  /\ call[k] # NoRow
  /\ call' = [call EXCEPT ![k] = NoRow]
  /\ UNCHANGED <<progress, raced>>

ProgressNext ==
  \/ \E k \in Calls, r \in Viewers \X Clips, body \in Bodies :
       TrackRead(k, r, body[1], body[2])
  \/ \E k \in Calls : TrackWrite(k) \/ TrackFail(k)

(* contentProgressSubquery: the average over the published contents,       *)
(* truncated to hundredths.  An exercise, an exam, an ebook or a practice  *)
(* counts by rows of its own (answers, finished chapters, hand-ins), which *)
(* others write: GradeOf, in hundredths and fixed here.  Every other       *)
(* content has no grade, and counts by its program_content_progress.       *)
ContentProgress(m, c) ==
  IF GradeOf[<<m, c>>] # NoRow THEN GradeOf[<<m, c>>]
  ELSE IF progress[<<m, c>>] = NoRow THEN 0 ELSE progress[<<m, c>>].progress

ViewRate(m) ==
  SumFunctionOnSet([c \in Clips |-> ContentProgress(m, c)], Clips) \div Cardinality(Clips)

-----------------------------------------------------------------------------
(* Progress is never lost by calls that follow each other: a row, and with *)
(* it the view rate of the member, goes down only when the call that       *)
(* writes it had read it before another write (grades being given).        *)
ProgressNeverDropsAlone ==
  [][\A m \in Viewers :
       /\ \A c \in Clips :
            progress[<<m, c>>] # NoRow =>
              /\ progress'[<<m, c>>] # NoRow
              /\ progress'[<<m, c>>].progress < progress[<<m, c>>].progress =>
                   <<m, c>> \in raced'
       /\ ViewRate(m)' < ViewRate(m) => \E c \in Clips : <<m, c>> \in raced'
     ]_progressVars

=============================================================================

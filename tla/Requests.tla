------------------------------- MODULE Requests -------------------------------
(***************************************************************************)
(* The handlers of Registrations under concurrency. FastAPI runs them in   *)
(* the threads of a pool, every request has a session of its own, nothing  *)
(* locks what a handler reads, and the session writes at its commit only   *)
(* the columns whose value differs from the one it loaded                  *)
(* (app/database/session.py). The database adds the unique constraint on   *)
(* (volunteer_id, shift_id) and the foreign keys, whose ON DELETE CASCADE  *)
(* takes the assignments of a deleted shift with it.                       *)
(*                                                                         *)
(* The variables of Registrations are the session at work. A request is    *)
(* cut in two: Handle is everything a handler reads and decides, any step  *)
(* of Registrations, made on the committed rows; Commit merges what it     *)
(* changed into the rows committed by then. Reads that see different       *)
(* commits within one handler are not modelled.                            *)
(***************************************************************************)
EXTENDS Registrations

Ext == INSTANCE SequencesExt

CONSTANT Threads   \* worker threads that may be inside a handler at once

ASSUME ThreadsAssumption == Threads # {}

VARIABLES
  db,        \* the committed rows
  request    \* thread -> what its handler loaded (seen) and left (wanted)

requestVars == <<vars, db, request>>

Session ==
  [registrationOpen |-> registrationOpen, shift |-> shift,
   volunteerStatus |-> volunteerStatus, editToken |-> editToken,
   anonymized |-> anonymized, assignment |-> assignment,
   registered |-> registered, checkin |-> checkin]

\* A session loads its rows.
Load(rows) ==
  /\ registrationOpen' = rows.registrationOpen
  /\ shift' = rows.shift
  /\ volunteerStatus' = rows.volunteerStatus
  /\ editToken' = rows.editToken
  /\ anonymized' = rows.anonymized
  /\ assignment' = rows.assignment
  /\ registered' = rows.registered
  /\ checkin' = rows.checkin

Busy == DOMAIN request

RequestsInit ==
  /\ Init
  /\ db = Session
  /\ request = [t \in {} |-> db]

-----------------------------------------------------------------------------
(***************************************************************************)
(* Two pending requests never insert under the same new id.                *)
(***************************************************************************)
IdsAreFresh ==
  \A u \in Busy :
    /\ \A v \in Volunteers :
         ~ Exists(v) /\ Exists(v)' => request[u].wanted.volunteerStatus[v] = Absent
    /\ \A s \in Shifts :
         ~ Planned(s) /\ Planned(s)' => request[u].wanted.shift[s].status = Absent

(***************************************************************************)
(* Conjoined with a step of Registrations: the handler of t ran and is     *)
(* about to commit what it did.                                            *)
(***************************************************************************)
Handled(t, origin) ==
  /\ t \notin Busy
  /\ IdsAreFresh
  /\ request' = [u \in Busy \cup {t} |->
       IF u = t THEN [origin |-> origin, seen |-> db, wanted |-> Session'] ELSE request[u]]
  /\ UNCHANGED db

HandlePublic(t) ==
  /\ Session = db
  /\ \E v \in Volunteers : PublicStep(v)
  /\ Handled(t, "public")

HandleCheckIn(t) ==
  /\ Session = db
  /\ CheckInStep
  /\ Handled(t, "checkin")

HandleAdmin(t, statuses, volunteerStatuses, shiftStatuses) ==
  /\ Session = db
  /\ \/ VolunteerAdminStep(statuses, volunteerStatuses)
     \/ PlanningStep(shiftStatuses)
  /\ Handled(t, "admin")

(***************************************************************************)
(* The next request gets a session of its own.                             *)
(***************************************************************************)
get_db ==
  /\ Session # db
  /\ Load(db)
  /\ UNCHANGED <<db, request>>

-----------------------------------------------------------------------------
(***************************************************************************)
(* What the commit of request r writes.                                    *)
(***************************************************************************)
Inserts(r, v, s) ==
  r.seen.assignment[v][s] = Absent /\ r.wanted.assignment[v][s] # Absent
Updates(r, v, s) ==
  /\ r.seen.assignment[v][s] # Absent
  /\ r.wanted.assignment[v][s] # r.seen.assignment[v][s]
DeletesShift(r, s) ==
  r.seen.shift[s].status # Absent /\ r.wanted.shift[s].status = Absent
UpdatesShift(r, s) ==
  /\ r.seen.shift[s].status # Absent
  /\ r.wanted.shift[s].status # Absent
  /\ r.wanted.shift[s] # r.seen.shift[s]
ChecksIn(r, v, s) == v \in r.wanted.checkin[s] \ r.seen.checkin[s]

\* Faulty variant: the foreign key on shift_id is not enforced.
Refused_without_foreign_key(r) ==
  \/ \E v \in Volunteers, s \in Shifts :
       \/ Inserts(r, v, s) /\ db.assignment[v][s] # Absent
       \/ Updates(r, v, s) /\ db.assignment[v][s] = Absent
       \/ ChecksIn(r, v, s) /\ v \in db.checkin[s]
  \/ \E s \in Shifts : UpdatesShift(r, s) /\ db.shift[s].status = Absent

(***************************************************************************)
(* The flush raises: a unique or foreign key is violated (IntegrityError), *)
(* or the row to update is gone (StaleDataError). get_db then closes the   *)
(* session and nothing is written.                                         *)
(***************************************************************************)
Refused(r) ==
  \/ \E v \in Volunteers, s \in Shifts :
       \/ Inserts(r, v, s) /\ (db.assignment[v][s] # Absent \/ db.shift[s].status = Absent)
       \/ Updates(r, v, s) /\ db.assignment[v][s] = Absent
       \/ ChecksIn(r, v, s) /\ v \in db.checkin[s]
  \/ \E s \in Shifts : UpdatesShift(r, s) /\ db.shift[s].status = Absent

\* Faulty variant: the commit writes every column of a row it touched.
Column_of_whole_row(current, loaded, left) == left

(***************************************************************************)
(* The unit of work writes a column only if the handler changed it.        *)
(***************************************************************************)
Column(current, loaded, left) == IF left = loaded THEN current ELSE left

MergedShift(r, s) ==
  LET c == db.shift[s]  o == r.seen.shift[s]  n == r.wanted.shift[s]
  IN IF DeletesShift(r, s) THEN NoShift
     ELSE [status |-> Column(c.status, o.status, n.status),
           needed |-> Column(c.needed, o.needed, n.needed),
           waitlist |-> Column(c.waitlist, o.waitlist, n.waitlist),
           starts |-> Column(c.starts, o.starts, n.starts),
           ends |-> Column(c.ends, o.ends, n.ends)]

\* Faulty variant: the commit inserts rows but loses updates of them.
MergedRow_inserts_only(r, v, s) ==
  IF DeletesShift(r, s) THEN Absent
  ELSE IF Inserts(r, v, s) THEN r.wanted.assignment[v][s] ELSE db.assignment[v][s]

MergedRow(r, v, s) ==
  IF DeletesShift(r, s) THEN Absent
  ELSE Column(db.assignment[v][s], r.seen.assignment[v][s], r.wanted.assignment[v][s])

(***************************************************************************)
(* registered_at is taken between the reads and the commit: an inserted    *)
(* row sorts behind the rows the handler saw, in any order with the rows   *)
(* committed since.                                                        *)
(***************************************************************************)
Ranks(r, s) ==
  {k \in 0..Len(db.registered[s]) :
     \A i \in 1..Len(db.registered[s]) :
       r.seen.assignment[db.registered[s][i]][s] # Absent => i <= k}

InsertedRank(r, rank, s) ==
  IF \E v \in Volunteers : Inserts(r, v, s) THEN rank[s] \in Ranks(r, s) ELSE rank[s] = 0

MergedOrder(r, rank, s) ==
  IF DeletesShift(r, s) THEN <<>>
  ELSE IF \E v \in Volunteers : Inserts(r, v, s)
       THEN Ext!InsertAt(db.registered[s], rank[s] + 1, CHOOSE v \in Volunteers : Inserts(r, v, s))
       ELSE db.registered[s]

Merged(r, rank) ==
  [registrationOpen |->
     Column(db.registrationOpen, r.seen.registrationOpen, r.wanted.registrationOpen),
   shift |-> [s \in Shifts |-> MergedShift(r, s)],
   volunteerStatus |-> [v \in Volunteers |->
     Column(db.volunteerStatus[v], r.seen.volunteerStatus[v], r.wanted.volunteerStatus[v])],
   editToken |-> [v \in Volunteers |->
     Column(db.editToken[v], r.seen.editToken[v], r.wanted.editToken[v])],
   anonymized |-> db.anonymized \cup (r.wanted.anonymized \ r.seen.anonymized),
   assignment |-> [v \in Volunteers |-> [s \in Shifts |-> MergedRow(r, v, s)]],
   registered |-> [s \in Shifts |-> MergedOrder(r, rank, s)],
   checkin |-> [s \in Shifts |->
     IF DeletesShift(r, s) THEN {}
     ELSE db.checkin[s] \cup (r.wanted.checkin[s] \ r.seen.checkin[s])]]

Commit(t) ==
  /\ t \in Busy
  /\ request' = [u \in Busy \ {t} |-> request[u]]
  /\ \/ /\ Refused(request[t])
        /\ db' = db
     \/ /\ ~ Refused(request[t])
        /\ \E rank \in [Shifts -> 0..Cardinality(Volunteers)] :
             /\ \A s \in Shifts : InsertedRank(request[t], rank, s)
             /\ db' = Merged(request[t], rank)
  /\ Load(db')

-----------------------------------------------------------------------------
RequestsNext ==
  \/ \E t \in Threads :
       \/ HandlePublic(t)
       \/ HandleCheckIn(t)
       \/ HandleAdmin(t, AssignmentStatus, VolunteerStatus, ShiftStatus)
       \/ Commit(t)
  \/ get_db

RequestsSpec == RequestsInit /\ [][RequestsNext]_requestVars

-----------------------------------------------------------------------------
(***************************************************************************)
(* The committed rows, as Registrations describes them. While one request  *)
(* is served at a time, every commit is a step of Registrations            *)
(* (FreshCommitIsSerial, since then no reads are stale); with more it is   *)
(* not, and what remains true is below.                                    *)
(***************************************************************************)
Committed == INSTANCE Registrations WITH
  registrationOpen <- db.registrationOpen, shift <- db.shift,
  volunteerStatus <- db.volunteerStatus, editToken <- db.editToken,
  anonymized <- db.anonymized, assignment <- db.assignment,
  registered <- db.registered, checkin <- db.checkin

(***************************************************************************)
(* With any number of threads the committed tables still refer to each     *)
(* other consistently: constraints and column-wise writes are enough for   *)
(* that.                                                                   *)
(***************************************************************************)
CommittedConsistent == Committed!TypeOK /\ Committed!Consistent

(***************************************************************************)
(* An edit or a status change in flight does not bring a revoked token     *)
(* back, because it writes only the columns it changed.                    *)
(***************************************************************************)
RevocationSurvivesRaces == Committed!RevocationIsPermanent

(***************************************************************************)
(* A commit whose handler read the rows that are still the committed ones  *)
(* is a step of Registrations, whatever else is pending: all anomalies     *)
(* come from stale reads.                                                  *)
(***************************************************************************)
FreshCommitIsSerial ==
  [][\A t \in Busy :
       t \notin DOMAIN request' /\ request[t].seen = db =>
         Committed!Next \/ UNCHANGED db]_requestVars

(***************************************************************************)
(* A public request overbooks a shift only if the shift or its rows were   *)
(* changed between its reads and its commit.                               *)
(***************************************************************************)
StaleFor(r, s) ==
  \/ r.seen.shift[s] # db.shift[s]
  \/ \E v \in Volunteers : r.seen.assignment[v][s] # db.assignment[v][s]

OverbookingNeedsStaleReads ==
  [][\A t \in Busy, s \in Shifts :
       /\ t \notin DOMAIN request'
       /\ request[t].origin = "public"
       /\ Committed!PlacesTaken(s)' > Committed!PlacesTaken(s)
       /\ Committed!PlacesTaken(s)' > db.shift[s].needed
       => StaleFor(request[t], s)]_requestVars

(***************************************************************************)
(* "Assignments are status-driven instead of hard-deleted": no commit      *)
(* removes an assignment row.                                              *)
(***************************************************************************)
HistoryIsRetained == Committed!AssignmentsAreRetained
===============================================================================

----------------------------- MODULE RequestsProofs -----------------------------
(***************************************************************************)
(* What holds of the committed rows for any number of threads, people and  *)
(* shifts, although handlers decide on rows that may be outdated when they *)
(* commit. What a handler decided is carried to its commit as a relation   *)
(* between the rows it loaded and the rows it left (Decision); the rest is *)
(* what may have happened to the committed rows since (Drift).             *)
(***************************************************************************)
EXTENDS Requests, RegistrationsProofs

Tables ==
  [registrationOpen : BOOLEAN, shift : [Shifts -> ShiftRow],
   volunteerStatus : [Volunteers -> VolunteerStatus \cup {Absent}],
   editToken : [Volunteers -> Tokens], anonymized : SUBSET Volunteers,
   assignment : [Volunteers -> [Shifts -> AssignmentStatus \cup {Absent}]],
   registered : [Shifts -> Seq(Volunteers)], checkin : [Shifts -> SUBSET Volunteers]]

\* queue lists those who have a row in shift s, each once.
Listed(queue, rows, s) ==
  /\ \A i \in 1..Len(queue) : rows[queue[i]][s] # Absent
  /\ \A v \in Volunteers : rows[v][s] # Absent => \E i \in 1..Len(queue) : queue[i] = v
  /\ \A i, j \in 1..Len(queue) : queue[i] = queue[j] => i = j

\* TypeOK and Consistent of Registrations, of the rows d.
Sound(d) ==
  /\ d \in Tables
  /\ \A v \in Volunteers, s \in Shifts :
       d.assignment[v][s] # Absent => /\ d.volunteerStatus[v] # Absent
                                      /\ d.shift[s].status # Absent
  /\ \A v \in Volunteers : d.editToken[v] # "none" => d.volunteerStatus[v] # Absent
  /\ \A s \in Shifts : Listed(d.registered[s], d.assignment, s)
  /\ \A v \in Volunteers, s \in Shifts :
       d.assignment[v][s] = "checked_in" => v \in d.checkin[s]

LEMMA SoundSession ==
  ASSUME NEW d, Session = d, Sound(d)
  PROVE  TypeOK /\ Consistent
  <1>1. /\ registrationOpen = d.registrationOpen /\ shift = d.shift
        /\ volunteerStatus = d.volunteerStatus /\ editToken = d.editToken
        /\ anonymized = d.anonymized /\ assignment = d.assignment
        /\ registered = d.registered /\ checkin = d.checkin
    BY DEF Session
  <1>2. TypeOK
    BY <1>1 DEF Sound, Tables, TypeOK
  <1>3. Consistent
    BY <1>1 DEF Sound, Consistent, RowsHaveParents, TokensHaveOwners, QueueListsRows,
                CheckedInHasRecord, HasRow, Exists, Planned, Listed
  <1>4. QED
    BY <1>2, <1>3

LEMMA SessionSound ==
  ASSUME NEW d, d = Session', TypeOK', Consistent'
  PROVE  Sound(d)
  <1>1. /\ d \in Tables
        /\ registrationOpen' = d.registrationOpen /\ shift' = d.shift
        /\ volunteerStatus' = d.volunteerStatus /\ editToken' = d.editToken
        /\ anonymized' = d.anonymized /\ assignment' = d.assignment
        /\ registered' = d.registered /\ checkin' = d.checkin
    BY DEF Session, Tables, TypeOK
  <1>2. QED
    BY <1>1 DEF Sound, Consistent, RowsHaveParents, TokensHaveOwners, QueueListsRows,
                CheckedInHasRecord, HasRow, Exists, Planned, Listed

LEMMA InitialSound ==
  ASSUME NEW d, d = Session, TypeOK, Consistent
  PROVE  Sound(d)
  <1>1. /\ d \in Tables
        /\ registrationOpen = d.registrationOpen /\ shift = d.shift
        /\ volunteerStatus = d.volunteerStatus /\ editToken = d.editToken
        /\ anonymized = d.anonymized /\ assignment = d.assignment
        /\ registered = d.registered /\ checkin = d.checkin
    BY DEF Session, Tables, TypeOK
  <1>2. QED
    BY <1>1 DEF Sound, Consistent, RowsHaveParents, TokensHaveOwners, QueueListsRows,
                CheckedInHasRecord, HasRow, Exists, Planned, Listed

-----------------------------------------------------------------------------
(***************************************************************************)
(* What any step of Registrations does: it removes nobody, nor a check-in; *)
(* it inserts rows of one person only, never checked in; a token changes   *)
(* with a new person or by a revocation.                                   *)
(***************************************************************************)
StepShape ==
  /\ \A v \in Volunteers : Exists(v) => Exists(v)'
  /\ \A s \in Shifts : checkin[s] \subseteq checkin'[s]
  /\ \A u, v \in Volunteers, s \in Shifts :
       ~ HasRow(u, s) /\ HasRow(u, s)' /\ ~ HasRow(v, s) /\ HasRow(v, s)' => u = v
  /\ \A v \in Volunteers, s \in Shifts : ~ HasRow(v, s) => assignment'[v][s] # "checked_in"
  /\ \A v \in Volunteers :
       editToken'[v] # editToken[v] => editToken'[v] = "revoked" \/ ~ Exists(v)

\* A handler that writes the rows of one person.
LEMMA RowsShape ==
  ASSUME TypeOK, NEW v \in Volunteers, NEW rows \in Rows, SetRows(v, rows),
         \A s \in Shifts : ~ HasRow(v, s) => rows[s] # "checked_in"
  PROVE  /\ \A u, w \in Volunteers, s \in Shifts :
              ~ HasRow(u, s) /\ HasRow(u, s)' /\ ~ HasRow(w, s) /\ HasRow(w, s)' => u = w
         /\ \A u \in Volunteers, s \in Shifts :
              ~ HasRow(u, s) => assignment'[u][s] # "checked_in"
  <1>1. \A u \in Volunteers : assignment'[u] = IF u = v THEN rows ELSE assignment[u]
    BY DEF SetRows, TypeOK
  <1>2. QED
    BY <1>1 DEF HasRow, Absent

LEMMA RowShape ==
  ASSUME TypeOK, NEW v \in Volunteers, NEW s \in Shifts, NEW status \in AssignmentStatus,
         SetRow(v, s, status), HasRow(v, s) \/ status # "checked_in"
  PROVE  /\ \A u, w \in Volunteers, x \in Shifts :
              ~ HasRow(u, x) /\ HasRow(u, x)' /\ ~ HasRow(w, x) /\ HasRow(w, x)' => u = w
         /\ \A u \in Volunteers, x \in Shifts :
              ~ HasRow(u, x) => assignment'[u][x] # "checked_in"
  <1> DEFINE rows == [assignment[v] EXCEPT ![s] = status]
  <1>1. rows \in Rows /\ SetRows(v, rows)
    BY DEF SetRow, TypeOK, Rows
  <1>2. \A x \in Shifts : ~ HasRow(v, x) => rows[x] # "checked_in"
    BY DEF HasRow, TypeOK, Absent
  <1> HIDE DEF rows
  <1>3. QED
    BY <1>1, <1>2, RowsShape

LEMMA PublicShape ==
  ASSUME TypeOK, Consistent, NEW v \in Volunteers, PublicStep(v)
  PROVE  StepShape
  <1>1. ASSUME NEW sel \in SUBSET Shifts, create_registration(v, sel)
        PROVE  StepShape
    <2>1. CreatedRows(sel) \in Rows /\ \A s \in Shifts : CreatedRows(sel)[s] # "checked_in"
      BY ComputedRows DEF CreatedRows, _assignment_status, Absent
    <2>2. QED
      BY <1>1, <2>1, RowsShape
         DEF create_registration, StepShape, Exists, TypeOK, VolunteerStatus, Absent
  <1>2. ASSUME NEW sel \in SUBSET Shifts, update_registration(v, sel)
        PROVE  StepShape
    <2>1. /\ UpdatedRows(v, sel) \in Rows
          /\ \A s \in Shifts : ~ HasRow(v, s) => UpdatedRows(v, sel)[s] # "checked_in"
      BY ComputedRows DEF UpdatedRows, UpdatedRow, _assignment_status, Absent, HasRow, Live,
                          LiveStatuses, ACTIVE_ASSIGNMENT_STATUSES
    <2>2. QED
      BY <1>2, <2>1, RowsShape DEF update_registration, StepShape, Exists, volunteerVars
  <1>3. ASSUME NEW s \in Shifts, cancel_assignment(v, s)
        PROVE  StepShape
    BY <1>3, RowShape
       DEF cancel_assignment, StepShape, Exists, volunteerVars, AssignmentStatus
  <1>4. QED
    BY <1>1, <1>2, <1>3 DEF PublicStep

LEMMA CheckInShape ==
  ASSUME TypeOK, CheckInStep
  PROVE  StepShape
  <1>1. ASSUME NEW v \in Volunteers, NEW s \in Shifts, check_in_assignment(v, s)
        PROVE  StepShape
    <2>1. HasRow(v, s)
      BY <1>1 DEF check_in_assignment, HasRow, Absent
    <2>2. QED
      BY <1>1, <2>1, RowShape
         DEF check_in_assignment, StepShape, Exists, volunteerVars, AssignmentStatus, TypeOK
  <1>2. ASSUME NEW v \in Volunteers, NEW s \in Shifts, check_out_assignment(v, s)
        PROVE  StepShape
    BY <1>2, RowShape
       DEF check_out_assignment, StepShape, Exists, volunteerVars, AssignmentStatus
  <1>3. QED
    BY <1>1, <1>2 DEF CheckInStep

LEMMA VolunteerAdminShape ==
  ASSUME TypeOK, Consistent, VolunteerAdminStep(AssignmentStatus, VolunteerStatus)
  PROVE  StepShape
  <1>1. ASSUME NEW v \in Volunteers, create_volunteer_admin(v) \/ anonymize_volunteer(v)
        PROVE  StepShape
    BY <1>1 DEF create_volunteer_admin, anonymize_volunteer, StepShape, Exists, HasRow,
                TypeOK, VolunteerStatus, Absent
  <1>2. ASSUME NEW v \in Volunteers, reject_volunteer(v)
        PROVE  StepShape
    <2>1. /\ RejectedRows(v) \in Rows
          /\ \A s \in Shifts : ~ HasRow(v, s) => RejectedRows(v)[s] # "checked_in"
      BY ComputedRows DEF RejectedRows, RejectedRow, Absent, HasRow
    <2>2. QED
      BY <1>2, <2>1, RowsShape
         DEF reject_volunteer, StepShape, Exists, TypeOK, VolunteerStatus, Absent
  <1>3. ASSUME NEW v \in Volunteers, NEW s \in Shifts, NEW status \in AssignmentStatus,
               status # "checked_in", SetRow(v, s, status),
               UNCHANGED <<registrationOpen, shift, volunteerVars, checkin>>
        PROVE  StepShape
    BY <1>3, RowShape DEF StepShape, Exists, volunteerVars
  <1>4. ASSUME NEW v \in Volunteers, NEW s \in Shifts, NEW status \in AssignmentStatus,
               NEW override_conflict \in BOOLEAN,
               \/ change_assignment_status(v, s, status)
               \/ assign_volunteer(v, s, status, override_conflict)
        PROVE  StepShape
    BY <1>3, <1>4 DEF change_assignment_status, assign_volunteer
  <1>5. ASSUME NEW s \in Shifts, promote_first_waitlisted(s)
        PROVE  StepShape
    <2>1. "confirmed" \in AssignmentStatus /\ "confirmed" # "checked_in"
      BY DEF AssignmentStatus
    <2>2. QED
      BY <1>3, <1>5, <2>1 DEF promote_first_waitlisted
  <1>6. ASSUME NEW selected \in SUBSET Volunteers, NEW status \in VolunteerStatus,
               bulk_volunteer_status(selected, status)
        PROVE  StepShape
    BY <1>6 DEF bulk_volunteer_status, StepShape, Exists, HasRow, VolunteerStatus, Absent
  <1>7. ASSUME NEW selected \in SUBSET Volunteers, NEW status \in AssignmentStatus,
               bulk_assignment_status(selected, status)
        PROVE  StepShape
    <2>1. \A v \in Volunteers, s \in Shifts :
            assignment[v][s] = Absent => assignment'[v][s] = Absent
      BY <1>7 DEF bulk_assignment_status, BulkRow
    <2>2. QED
      BY <1>7, <2>1
         DEF bulk_assignment_status, StepShape, Exists, HasRow, volunteerVars, Absent
  <1>8. QED
    BY <1>1, <1>2, <1>4, <1>5, <1>6, <1>7 DEF VolunteerAdminStep

LEMMA PlanningShape ==
  ASSUME TypeOK, PlanningStep(ShiftStatus)
  PROVE  StepShape
  <1>1. UNCHANGED <<volunteerVars, assignment, registered, checkin>>
    BY DEF PlanningStep, create_shift, edit_shift_submit, update_shift_status,
           delete_or_cancel_shift, registration_window
  <1>2. QED
    BY <1>1 DEF StepShape, Exists, HasRow, volunteerVars, Absent

LEMMA AnyStepShape ==
  ASSUME TypeOK, Consistent, Next
  PROVE  StepShape /\ TypeOK' /\ Consistent'
  <1>1. StepShape
    BY PublicShape, CheckInShape, VolunteerAdminShape, PlanningShape DEF Next
  <1>2. TypeOK'
    BY PublicStepType, CheckInStepType, VolunteerAdminStepType, PlanningStepType DEF Next
  <1>3. Consistent'
    BY PublicStepConsistent, CheckInStepConsistent, VolunteerAdminStepConsistent,
       PlanningStepConsistent DEF Next
  <1>4. QED
    BY <1>1, <1>2, <1>3

-----------------------------------------------------------------------------
(***************************************************************************)
(* What a handler decided, from the rows o it loaded to the rows n it left.*)
(***************************************************************************)
HoldsPlace(d, s) ==
  {v \in Volunteers : d.assignment[v][s] \in {"pending", "confirmed", "checked_in", "attended"}}

Inserted(o, n, v, s) == o.assignment[v][s] = Absent /\ n.assignment[v][s] # Absent

NothingLost(o, n) ==
  /\ \A v \in Volunteers : o.volunteerStatus[v] # Absent => n.volunteerStatus[v] # Absent
  /\ \A v \in Volunteers, s \in Shifts :
       o.assignment[v][s] # Absent => n.assignment[v][s] # Absent
  /\ \A s \in Shifts : o.checkin[s] \subseteq n.checkin[s]
  /\ o.anonymized \subseteq n.anonymized

OneInserted(o, n) ==
  /\ \A u, v \in Volunteers, s \in Shifts :
       Inserted(o, n, u, s) /\ Inserted(o, n, v, s) => u = v
  /\ \A v \in Volunteers, s \in Shifts :
       o.assignment[v][s] = Absent => n.assignment[v][s] # "checked_in"

TokensRevoked(o, n) ==
  \A v \in Volunteers :
    /\ o.editToken[v] = "revoked" => n.editToken[v] = "revoked"
    /\ n.editToken[v] # o.editToken[v] =>
         n.editToken[v] = "revoked" \/ o.volunteerStatus[v] = Absent

WithinCapacity(o, n) ==
  \A s \in Shifts :
    Cardinality(HoldsPlace(n, s)) > Cardinality(HoldsPlace(o, s)) =>
      Cardinality(HoldsPlace(n, s)) <= o.shift[s].needed

Decision(o, n, origin) ==
  /\ Sound(o)
  /\ Sound(n)
  /\ NothingLost(o, n)
  /\ OneInserted(o, n)
  /\ TokensRevoked(o, n)
  /\ origin = "public" => WithinCapacity(o, n)

LEMMA HandlerDecides ==
  ASSUME NEW o, NEW n, NEW origin, Session = o, n = Session', Sound(o), Next,
         origin = "public" => \E v \in Volunteers : PublicStep(v)
  PROVE  Decision(o, n, origin)
  <1>1. TypeOK /\ Consistent
    BY SoundSession
  <1>2. StepShape /\ TypeOK' /\ Consistent'
    BY <1>1, AnyStepShape
  <1>3. Sound(n)
    BY <1>2, SessionSound
  <1>4. Retains
    BY <1>1, StepRetains
  <1>5. \A v \in Volunteers :
          /\ editToken[v] = "revoked" => editToken'[v] = "revoked"
          /\ v \in anonymized => v \in anonymized'
    BY <1>1, StepRevokesForGood
  <1>6. /\ shift = o.shift /\ volunteerStatus = o.volunteerStatus
        /\ editToken = o.editToken /\ anonymized = o.anonymized
        /\ assignment = o.assignment /\ checkin = o.checkin
    BY DEF Session
  <1>7. /\ volunteerStatus' = n.volunteerStatus /\ editToken' = n.editToken
        /\ anonymized' = n.anonymized /\ assignment' = n.assignment /\ checkin' = n.checkin
    BY DEF Session
  <1>8. NothingLost(o, n)
    <2>1. anonymized \subseteq anonymized'
      BY <1>1, <1>5 DEF TypeOK
    <2>2. QED
      BY <1>2, <1>4, <1>6, <1>7, <2>1 DEF NothingLost, StepShape, Retains, Exists, HasRow
  <1>9. OneInserted(o, n)
    BY <1>2, <1>6, <1>7 DEF OneInserted, Inserted, StepShape, HasRow
  <1>10. TokensRevoked(o, n)
    BY <1>2, <1>5, <1>6, <1>7 DEF TokensRevoked, StepShape, Exists
  <1>11. ASSUME origin = "public"
         PROVE  WithinCapacity(o, n)
    <2>1. PICK v \in Volunteers : PublicStep(v)
      BY <1>11
    <2>2. \A s \in Shifts : /\ PlacesTaken(s) = Cardinality(HoldsPlace(o, s))
                            /\ PlacesTaken(s)' = Cardinality(HoldsPlace(n, s))
      BY <1>6, <1>7 DEF PlacesTaken, HoldsPlace
    <2>3. \A s \in Shifts : PlacesTaken(s)' > PlacesTaken(s) =>
                              PlacesTaken(s)' <= shift[s].needed
      BY <1>1, <2>1, PublicStepCapacity
    <2>4. QED
      BY <1>6, <2>2, <2>3 DEF WithinCapacity
  <1>12. QED
    BY <1>3, <1>8, <1>9, <1>10, <1>11 DEF Decision

-----------------------------------------------------------------------------
(***************************************************************************)
(* What may have happened to the committed rows since request r read them: *)
(* nobody it knows of vanished; a check-in it saw is still there, unless   *)
(* the shift went; and what it creates nobody else has created.            *)
(***************************************************************************)
CreatesPerson(r, v) ==
  r.seen.volunteerStatus[v] = Absent /\ r.wanted.volunteerStatus[v] # Absent
CreatesShift(r, s) ==
  r.seen.shift[s].status = Absent /\ r.wanted.shift[s].status # Absent

Drift(d, r) ==
  /\ \A v \in Volunteers : r.seen.volunteerStatus[v] # Absent => d.volunteerStatus[v] # Absent
  /\ \A v \in Volunteers, s \in Shifts :
       v \in r.seen.checkin[s] /\ r.seen.assignment[v][s] # Absent =>
         v \in d.checkin[s] \/ d.shift[s].status = Absent
  /\ \A v \in Volunteers : CreatesPerson(r, v) => d.volunteerStatus[v] = Absent
  /\ \A s \in Shifts : CreatesShift(r, s) => d.shift[s].status = Absent

Apart(r, q) ==
  /\ \A v \in Volunteers : CreatesPerson(r, v) => q.wanted.volunteerStatus[v] = Absent
  /\ \A s \in Shifts : CreatesShift(r, s) => q.wanted.shift[s].status = Absent

Deciding(r) == Decision(r.seen, r.wanted, r.origin)

RequestsInv ==
  /\ Sound(db)
  /\ \A t \in Busy : Deciding(request[t]) /\ Drift(db, request[t])
  /\ \A t, u \in Busy : t # u => Apart(request[t], request[u])

LEMMA RequestsInitInv == RequestsInit => RequestsInv
  <1> SUFFICES ASSUME RequestsInit
               PROVE  RequestsInv
    OBVIOUS
  <1>1. TypeOK /\ Consistent
    BY InitType, InitConsistent DEF RequestsInit
  <1>2. Sound(db)
    BY <1>1, InitialSound DEF RequestsInit
  <1>3. Busy = {}
    BY DEF RequestsInit, Busy
  <1>4. QED
    BY <1>2, <1>3 DEF RequestsInv

(***************************************************************************)
(* A handler adds a request to an invariant state.                         *)
(***************************************************************************)
LEMMA HandledInv ==
  ASSUME RequestsInv, Session = db, Next, NEW t, NEW origin, Handled(t, origin),
         origin = "public" => \E v \in Volunteers : PublicStep(v)
  PROVE  RequestsInv'
  <1> PICK n : n = Session'
    OBVIOUS
  <1> PICK r : r = [origin |-> origin, seen |-> db, wanted |-> n]
    OBVIOUS
  <1>1. r.seen = db /\ r.wanted = n /\ r.origin = origin
    OBVIOUS
  <1>2. /\ Busy' = Busy \cup {t} /\ t \notin Busy
        /\ request'[t] = r
        /\ \A u \in Busy : request'[u] = request[u]
        /\ db' = db
    BY DEF Handled, Busy
  <1>3. Sound(db)
    BY DEF RequestsInv
  <1>4. Decision(db, n, origin)
    BY <1>3, HandlerDecides
  <1>5. /\ volunteerStatus = db.volunteerStatus /\ shift = db.shift
        /\ volunteerStatus' = n.volunteerStatus /\ shift' = n.shift
    BY DEF Session
  <1>6. Drift(db, r)
    BY <1>1 DEF Drift, CreatesPerson, CreatesShift
  <1>7. ASSUME NEW u \in Busy
        PROVE  Apart(r, request[u])
    <2>1. IdsAreFresh
      BY DEF Handled
    <2>2. QED
      BY <1>1, <1>5, <2>1 DEF Apart, CreatesPerson, CreatesShift, IdsAreFresh, Exists, Planned
  <1>8. ASSUME NEW u \in Busy
        PROVE  Apart(request[u], r)
    <2>1. Drift(db, request[u])
      BY DEF RequestsInv
    <2>2. IdsAreFresh
      BY DEF Handled
    <2>3. ASSUME NEW v \in Volunteers, CreatesPerson(request[u], v)
          PROVE  r.wanted.volunteerStatus[v] = Absent
      BY <1>1, <1>5, <2>1, <2>2, <2>3 DEF Drift, CreatesPerson, IdsAreFresh, Exists
    <2>4. ASSUME NEW s \in Shifts, CreatesShift(request[u], s)
          PROVE  r.wanted.shift[s].status = Absent
      BY <1>1, <1>5, <2>1, <2>2, <2>4 DEF Drift, CreatesShift, IdsAreFresh, Planned
    <2>5. QED
      BY <2>3, <2>4 DEF Apart
  <1>9. Deciding(r)
    BY <1>1, <1>4 DEF Deciding
  <1>10. /\ \A u \in Busy : Deciding(request[u]) /\ Drift(db, request[u])
         /\ \A u, w \in Busy : u # w => Apart(request[u], request[w])
    BY DEF RequestsInv
  <1>11. \A u \in Busy' : Deciding(request'[u]) /\ Drift(db', request'[u])
    BY <1>2, <1>6, <1>9, <1>10
  <1>12. \A u, w \in Busy' : u # w => Apart(request'[u], request'[w])
    BY <1>2, <1>7, <1>8, <1>10
  <1>13. Sound(db')
    BY <1>2, <1>3
  <1>14. QED
    BY <1>11, <1>12, <1>13 DEF RequestsInv

-----------------------------------------------------------------------------
(***************************************************************************)
(* Commits. The queue with an element inserted lists what it did and the   *)
(* element.                                                                *)
(***************************************************************************)
Concatenates(c, a, b) ==
  /\ c \in Seq(Volunteers)
  /\ Len(c) = Len(a) + Len(b)
  /\ \A i \in 1..Len(a) : c[i] = a[i]
  /\ \A i \in (Len(a) + 1)..(Len(a) + Len(b)) : c[i] = b[i - Len(a)]

LEMMA Joined ==
  ASSUME NEW a \in Seq(Volunteers), NEW b \in Seq(Volunteers)
  PROVE  Concatenates(a \o b, a, b)
  BY DEF Concatenates

\* longer is queue with v inserted behind the first k elements.
Lengthens(longer, queue, k, v) ==
  /\ longer \in Seq(Volunteers)
  /\ Len(longer) = Len(queue) + 1
  /\ \A i \in 1..k : longer[i] = queue[i]
  /\ longer[k + 1] = v
  /\ \A i \in (k + 2)..(Len(queue) + 1) : longer[i] = queue[i - 1]

LEMMA InsertedInQueue ==
  ASSUME NEW queue \in Seq(Volunteers), NEW k \in 0..Len(queue), NEW v \in Volunteers,
         NEW longer, longer = Ext!InsertAt(queue, k + 1, v)
  PROVE  Lengthens(longer, queue, k, v)
  <1> DEFINE front == SubSeq(queue, 1, k)
             back == SubSeq(queue, k + 1, Len(queue))
  <1>1. longer = (front \o <<v>>) \o back
    <2>1. longer = (SubSeq(queue, 1, (k + 1) - 1) \o <<v>>) \o SubSeq(queue, k + 1, Len(queue))
      BY Zenon DEF Ext!InsertAt
    <2>2. (k + 1) - 1 = k
      OBVIOUS
    <2>3. QED
      BY <2>1, <2>2, Zenon
  <1>2. /\ front \in Seq(Volunteers) /\ Len(front) = k
        /\ \A i \in 1..k : front[i] = queue[i]
    OBVIOUS
  <1>3. /\ back \in Seq(Volunteers) /\ Len(back) = Len(queue) - k
        /\ \A i \in 1..(Len(queue) - k) : back[i] = queue[k + i]
    OBVIOUS
  <1> HIDE DEF front, back
  <1> DEFINE first == front \o <<v>>
  <1>4. /\ first \in Seq(Volunteers) /\ Len(first) = k + 1
        /\ \A i \in 1..k : first[i] = queue[i]
        /\ first[k + 1] = v
    BY <1>2
  <1>5. longer = first \o back
    BY <1>1
  <1> HIDE DEF first
  <1>6. /\ longer \in Seq(Volunteers)
        /\ Len(longer) = Len(first) + Len(back)
        /\ \A i \in 1..Len(first) : longer[i] = first[i]
        /\ \A i \in (Len(first) + 1)..(Len(first) + Len(back)) :
             longer[i] = back[i - Len(first)]
    <2>1. first \in Seq(Volunteers) /\ back \in Seq(Volunteers)
      BY <1>3, <1>4
    <2>2. Concatenates(first \o back, first, back)
      BY <2>1, Joined
    <2>3. Concatenates(longer, first, back)
      BY <1>5, <2>2
    <2>4. QED
      BY <2>3 DEF Concatenates
  <1>7. Len(longer) = Len(queue) + 1 /\ \A i \in 1..(k + 1) : longer[i] = first[i]
    BY <1>3, <1>4, <1>6
  <1>8. \A i \in (k + 2)..(Len(queue) + 1) : longer[i] = back[i - (k + 1)]
    BY <1>3, <1>4, <1>6
  <1>9. ASSUME NEW i \in (k + 2)..(Len(queue) + 1)
        PROVE  longer[i] = queue[i - 1]
    <2>1. i - (k + 1) \in 1..(Len(queue) - k) /\ k + (i - (k + 1)) = i - 1
      OBVIOUS
    <2>2. QED
      BY <1>3, <1>8, <2>1
  <1>10. QED
    BY <1>4, <1>6, <1>7, <1>9, 1..k \subseteq 1..(k + 1) DEF Lengthens

\* v is the only one who has a row after but had none.
Joins(v, rows, after, s) ==
  /\ v \in Volunteers
  /\ rows[v][s] = Absent
  /\ after[v][s] # Absent
  /\ \A u \in Volunteers : u # v => (after[u][s] = Absent <=> rows[u][s] = Absent)

LEMMA InsertedIsListed ==
  ASSUME NEW queue \in Seq(Volunteers), NEW k \in 0..Len(queue), NEW v,
         NEW longer, Lengthens(longer, queue, k, v),
         NEW s, NEW rows, NEW after, Listed(queue, rows, s), Joins(v, rows, after, s)
  PROVE  Listed(longer, after, s)
  <1>0. /\ v \in Volunteers /\ rows[v][s] = Absent /\ after[v][s] # Absent
        /\ \A u \in Volunteers : u # v => (after[u][s] = Absent <=> rows[u][s] = Absent)
    BY DEF Joins
  <1>1. /\ longer \in Seq(Volunteers) /\ Len(longer) = Len(queue) + 1 /\ Len(queue) \in Nat
        /\ \A i \in 1..k : longer[i] = queue[i]
        /\ longer[k + 1] = v
        /\ \A i \in (k + 2)..(Len(queue) + 1) : longer[i] = queue[i - 1]
    BY DEF Lengthens
  <1>2. /\ \A i \in 1..Len(queue) : queue[i] \in Volunteers /\ rows[queue[i]][s] # Absent
        /\ \A i \in 1..Len(queue) : queue[i] # v
    BY <1>0 DEF Listed
  <1>3. /\ \A i \in 1..k : longer[i] \in Volunteers /\ longer[i] # v
        /\ \A i \in (k + 2)..(Len(queue) + 1) : longer[i] \in Volunteers /\ longer[i] # v
    <2>1. /\ 1..k \subseteq 1..Len(queue)
          /\ \A i \in (k + 2)..(Len(queue) + 1) : i - 1 \in 1..Len(queue)
      BY <1>1
    <2>2. QED
      BY <1>1, <1>2, <2>1, Zenon
  <1>4. ASSUME NEW i \in 1..Len(longer)
        PROVE  after[longer[i]][s] # Absent
    <2>1. CASE i = k + 1
      BY <1>0, <1>1, <2>1
    <2>2. CASE i \in 1..k
      BY <1>0, <1>1, <1>2, <2>2
    <2>3. CASE i \in (k + 2)..(Len(queue) + 1)
      <3>1. i - 1 \in 1..Len(queue) /\ longer[i] = queue[i - 1]
        BY <1>1, <2>3
      <3>2. QED
        BY <1>0, <1>2, <3>1
    <2>4. QED
      BY <1>1, <2>1, <2>2, <2>3
  <1>5. ASSUME NEW u \in Volunteers, after[u][s] # Absent
        PROVE  \E i \in 1..Len(longer) : longer[i] = u
    <2>1. CASE u = v
      BY <1>1, <2>1
    <2>2. CASE u # v
      <3>1. PICK i \in 1..Len(queue) : queue[i] = u
        BY <1>0, <1>5, <2>2 DEF Listed
      <3>2. CASE i <= k
        BY <1>1, <3>1, <3>2
      <3>3. CASE i > k
        <4>1. i + 1 \in (k + 2)..(Len(queue) + 1) /\ (i + 1) - 1 = i
          BY <1>1, <3>3
        <4>2. longer[i + 1] = u
          BY <1>1, <3>1, <4>1
        <4>3. QED
          BY <1>1, <4>1, <4>2
      <3>4. QED
        BY <3>2, <3>3
    <2>3. QED
      BY <2>1, <2>2
  <1>6. ASSUME NEW i \in 1..Len(longer), NEW j \in 1..Len(longer), longer[i] = longer[j]
        PROVE  i = j
    <2>1. \A a, b \in 1..Len(queue) : queue[a] = queue[b] => a = b
      BY DEF Listed
    <2>2. \A a \in 1..Len(longer) : \/ a \in 1..k
                                   \/ a = k + 1
                                   \/ a \in (k + 2)..(Len(queue) + 1)
      BY <1>1
    <2>3. CASE i = k + 1 \/ j = k + 1
      BY <1>1, <1>3, <1>6, <2>2, <2>3
    <2>4. CASE i # k + 1 /\ j # k + 1
      <3> DEFINE Was(a) == IF a <= k THEN a ELSE a - 1
      <3>1. \A a \in 1..Len(longer) :
              a # k + 1 => Was(a) \in 1..Len(queue) /\ longer[a] = queue[Was(a)]
        BY <1>1, <2>2
      <3>2. Was(i) = Was(j)
        BY <1>6, <2>1, <2>4, <3>1
      <3>3. QED
        BY <1>1, <2>4, <3>2
    <2>5. QED
      BY <2>3, <2>4
  <1>7. QED
    BY <1>4, <1>5, <1>6 DEF Listed

-----------------------------------------------------------------------------
(***************************************************************************)
(* What a commit that is not refused leaves, column by column.             *)
(***************************************************************************)
Merging(r, rank, m) ==
  /\ ~ Refused(r)
  /\ rank \in [Shifts -> 0..Cardinality(Volunteers)]
  /\ \A s \in Shifts : InsertedRank(r, rank, s)
  /\ m = Merged(r, rank)

HasColumns(m, r, rank) ==
  /\ m.registrationOpen =
       Column(db.registrationOpen, r.seen.registrationOpen, r.wanted.registrationOpen)
  /\ \A s \in Shifts : m.shift[s] = MergedShift(r, s)
  /\ \A v \in Volunteers : m.volunteerStatus[v] =
       Column(db.volunteerStatus[v], r.seen.volunteerStatus[v], r.wanted.volunteerStatus[v])
  /\ \A v \in Volunteers : m.editToken[v] =
       Column(db.editToken[v], r.seen.editToken[v], r.wanted.editToken[v])
  /\ m.anonymized = db.anonymized \cup (r.wanted.anonymized \ r.seen.anonymized)
  /\ \A v \in Volunteers, s \in Shifts : m.assignment[v][s] = MergedRow(r, v, s)
  /\ \A s \in Shifts : m.registered[s] = MergedOrder(r, rank, s)
  /\ \A s \in Shifts : m.checkin[s] =
       IF DeletesShift(r, s) THEN {}
       ELSE db.checkin[s] \cup (r.wanted.checkin[s] \ r.seen.checkin[s])

LEMMA MergedColumns ==
  ASSUME NEW r, NEW rank, NEW m, Merging(r, rank, m)
  PROVE  HasColumns(m, r, rank)
  BY DEF Merging, Merged, HasColumns

(***************************************************************************)
(* Only a shift without rows is deleted.                                   *)
(***************************************************************************)
LEMMA DeletedIsEmpty ==
  ASSUME NEW r, Deciding(r), NEW s \in Shifts, DeletesShift(r, s)
  PROVE  \A v \in Volunteers :
           r.wanted.assignment[v][s] = Absent /\ r.seen.assignment[v][s] = Absent
  BY DEF Deciding, Decision, Sound, NothingLost, DeletesShift

(***************************************************************************)
(* Of the rows: who has one, and what is needed for that.                  *)
(***************************************************************************)
LEMMA MergedRows ==
  ASSUME NEW r, NEW rank, NEW m, Merging(r, rank, m), Sound(db), Deciding(r), Drift(db, r),
         NEW v \in Volunteers, NEW s \in Shifts
  PROVE  /\ DeletesShift(r, s) => m.assignment[v][s] = Absent
         /\ ~ DeletesShift(r, s) =>
              (m.assignment[v][s] # Absent <=> db.assignment[v][s] # Absent \/ Inserts(r, v, s))
         /\ Inserts(r, v, s) => db.assignment[v][s] = Absent /\ db.shift[s].status # Absent
         /\ m.assignment[v][s] # Absent => db.shift[s].status # Absent
         /\ m.assignment[v][s] # Absent =>
              \/ m.assignment[v][s] = db.assignment[v][s]
              \/ /\ m.assignment[v][s] = r.wanted.assignment[v][s]
                 /\ r.wanted.assignment[v][s] # r.seen.assignment[v][s]
  <1>0. HasColumns(m, r, rank)
    BY MergedColumns
  <1>1. m.assignment[v][s] = MergedRow(r, v, s)
    BY <1>0 DEF HasColumns
  <1>2. /\ Inserts(r, v, s) => db.assignment[v][s] = Absent /\ db.shift[s].status # Absent
        /\ Updates(r, v, s) => db.assignment[v][s] # Absent
    BY DEF Merging, Refused
  <1>3. r.seen.assignment[v][s] # Absent => r.wanted.assignment[v][s] # Absent
    BY DEF Deciding, Decision, NothingLost
  <1>4. db.assignment[v][s] # Absent => db.shift[s].status # Absent
    BY DEF Sound
  <1>5. QED
    BY <1>1, <1>2, <1>3, <1>4 DEF MergedRow, Column, Inserts, Updates

LEMMA MergedPeople ==
  ASSUME NEW r, NEW rank, NEW m, Merging(r, rank, m), Sound(db), Deciding(r), Drift(db, r),
         NEW v \in Volunteers
  PROVE  /\ db.volunteerStatus[v] # Absent => m.volunteerStatus[v] # Absent
         /\ r.wanted.volunteerStatus[v] # Absent => m.volunteerStatus[v] # Absent
         /\ db.volunteerStatus[v] = Absent /\ r.wanted.volunteerStatus[v] = Absent =>
              m.volunteerStatus[v] = Absent
  <1>0. HasColumns(m, r, rank)
    BY MergedColumns
  <1>1. m.volunteerStatus[v] =
          Column(db.volunteerStatus[v], r.seen.volunteerStatus[v], r.wanted.volunteerStatus[v])
    BY <1>0 DEF HasColumns
  <1>2. /\ r.seen.volunteerStatus[v] # Absent => r.wanted.volunteerStatus[v] # Absent
        /\ r.seen.volunteerStatus[v] # Absent => db.volunteerStatus[v] # Absent
    BY DEF Deciding, Decision, NothingLost, Drift
  <1>3. QED
    BY <1>1, <1>2 DEF Column

LEMMA MergedShifts ==
  ASSUME NEW r, NEW rank, NEW m, Merging(r, rank, m), Sound(db), Deciding(r), Drift(db, r),
         NEW s \in Shifts
  PROVE  /\ DeletesShift(r, s) => m.shift[s].status = Absent
         /\ ~ DeletesShift(r, s) /\ db.shift[s].status # Absent => m.shift[s].status # Absent
         /\ db.shift[s].status = Absent /\ r.wanted.shift[s].status = Absent =>
              m.shift[s].status = Absent
         /\ db.shift[s].status = Absent /\ ~ CreatesShift(r, s) => m.shift[s].status = Absent
         /\ m.shift[s] \in ShiftRow
  <1>0. HasColumns(m, r, rank)
    BY MergedColumns
  <1>1. m.shift[s] = MergedShift(r, s)
    BY <1>0 DEF HasColumns
  <1>2. UpdatesShift(r, s) => db.shift[s].status # Absent
    BY DEF Merging, Refused
  <1>3. /\ db.shift[s] \in ShiftRow /\ r.seen.shift[s] \in ShiftRow
        /\ r.wanted.shift[s] \in ShiftRow
    BY DEF Deciding, Decision, Sound, Tables
  <1>4. CASE DeletesShift(r, s)
    <2>1. m.shift[s] = NoShift
      BY <1>1, <1>4 DEF MergedShift
    <2>2. NoShift \in ShiftRow /\ NoShift.status = Absent
      BY DEF NoShift, ShiftRow
    <2>3. QED
      BY <1>4, <2>1, <2>2
  <1>5. CASE ~ DeletesShift(r, s)
    <2> DEFINE c == db.shift[s]
               o == r.seen.shift[s]
               n == r.wanted.shift[s]
    <2>1. m.shift[s] =
            [status |-> Column(c.status, o.status, n.status),
             needed |-> Column(c.needed, o.needed, n.needed),
             waitlist |-> Column(c.waitlist, o.waitlist, n.waitlist),
             starts |-> Column(c.starts, o.starts, n.starts),
             ends |-> Column(c.ends, o.ends, n.ends)]
      BY <1>1, <1>5 DEF MergedShift
    <2>2. /\ o.status # Absent => n.status # Absent
          /\ o.status # Absent /\ n.status # o.status => c.status # Absent
          /\ CreatesShift(r, s) <=> o.status = Absent /\ n.status # Absent
      BY <1>2, <1>5 DEF DeletesShift, UpdatesShift, CreatesShift
    <2>3. c \in ShiftRow /\ o \in ShiftRow /\ n \in ShiftRow
      BY <1>3
    <2> HIDE DEF c, o, n
    <2>4. m.shift[s].status = Column(c.status, o.status, n.status)
      BY <2>1
    <2>5. m.shift[s] \in ShiftRow
      BY <2>1, <2>3 DEF ShiftRow, Column
    <2>6. QED
      BY <1>5, <2>2, <2>4, <2>5 DEF Column, c, n
  <1>6. QED
    BY <1>4, <1>5

LEMMA MergedOrderListed ==
  ASSUME NEW r, NEW rank, NEW m, Merging(r, rank, m), Sound(db), Deciding(r), Drift(db, r),
         NEW s \in Shifts
  PROVE  m.registered[s] \in Seq(Volunteers) /\ Listed(m.registered[s], m.assignment, s)
  <1>0. HasColumns(m, r, rank)
    BY MergedColumns
  <1>1. m.registered[s] = MergedOrder(r, rank, s)
    BY <1>0 DEF HasColumns
  <1>2. db.registered[s] \in Seq(Volunteers) /\ Listed(db.registered[s], db.assignment, s)
    BY DEF Sound, Tables
  <1>3. CASE DeletesShift(r, s)
    <2>1. \A v \in Volunteers : m.assignment[v][s] = Absent
      BY <1>3, MergedRows
    <2>2. m.registered[s] = <<>> /\ Len(m.registered[s]) = 0
      BY <1>1, <1>3 DEF MergedOrder
    <2>3. m.registered[s] \in Seq(Volunteers)
      BY <2>2
    <2>4. QED
      BY <2>1, <2>2, <2>3 DEF Listed
  <1>4. CASE ~ DeletesShift(r, s) /\ \A v \in Volunteers : ~ Inserts(r, v, s)
    <2>1. \A v \in Volunteers : m.assignment[v][s] # Absent <=> db.assignment[v][s] # Absent
      BY <1>4, MergedRows
    <2>2. m.registered[s] = db.registered[s]
      BY <1>1, <1>4 DEF MergedOrder
    <2>3. \A i \in 1..Len(db.registered[s]) : db.registered[s][i] \in Volunteers
      BY <1>2
    <2>4. QED
      BY <1>2, <2>1, <2>2, <2>3 DEF Listed
  <1>5. CASE ~ DeletesShift(r, s) /\ \E v \in Volunteers : Inserts(r, v, s)
    <2> DEFINE v == CHOOSE x \in Volunteers : Inserts(r, x, s)
    <2>1. v \in Volunteers /\ Inserts(r, v, s)
      BY <1>5
    <2>2. rank[s] \in 0..Len(db.registered[s])
      BY <1>5 DEF Merging, InsertedRank, Ranks
    <2>3. m.registered[s] = Ext!InsertAt(db.registered[s], rank[s] + 1, v)
      BY <1>1, <1>5 DEF MergedOrder
    <2> HIDE DEF v
    <2>4. db.assignment[v][s] = Absent /\ m.assignment[v][s] # Absent
      BY <1>5, <2>1, MergedRows
    <2>5. \A u \in Volunteers : u # v => ~ Inserts(r, u, s)
      BY <2>1 DEF Deciding, Decision, OneInserted, Inserted, Inserts
    <2>6. \A u \in Volunteers : u # v =>
            (m.assignment[u][s] = Absent <=> db.assignment[u][s] = Absent)
      BY <1>5, <2>5, MergedRows
    <2>7. Lengthens(m.registered[s], db.registered[s], rank[s], v)
      BY <1>2, <2>1, <2>2, <2>3, InsertedInQueue
    <2>8. Listed(m.registered[s], m.assignment, s)
      <3>1. Joins(v, db.assignment, m.assignment, s)
        BY <2>1, <2>4, <2>6 DEF Joins
      <3>2. QED
        BY <1>2, <2>2, <2>7, <3>1, InsertedIsListed
    <2>9. QED
      BY <2>7, <2>8 DEF Lengthens
  <1>6. QED
    BY <1>3, <1>4, <1>5

LEMMA MergedType ==
  ASSUME NEW r, NEW rank, NEW m, Merging(r, rank, m), Sound(db), Deciding(r), Drift(db, r)
  PROVE  m \in Tables
  <1>0. HasColumns(m, r, rank)
    BY MergedColumns
  <1>1. /\ m = [registrationOpen |-> m.registrationOpen, shift |-> m.shift,
                volunteerStatus |-> m.volunteerStatus, editToken |-> m.editToken,
                anonymized |-> m.anonymized, assignment |-> m.assignment,
                registered |-> m.registered, checkin |-> m.checkin]
        /\ m.shift = [s \in Shifts |-> m.shift[s]]
        /\ m.volunteerStatus = [v \in Volunteers |-> m.volunteerStatus[v]]
        /\ m.editToken = [v \in Volunteers |-> m.editToken[v]]
        /\ m.assignment = [v \in Volunteers |-> m.assignment[v]]
        /\ \A v \in Volunteers : m.assignment[v] = [s \in Shifts |-> m.assignment[v][s]]
        /\ m.registered = [s \in Shifts |-> m.registered[s]]
        /\ m.checkin = [s \in Shifts |-> m.checkin[s]]
    BY DEF Merging, Merged
  <1>2. db \in Tables /\ r.seen \in Tables /\ r.wanted \in Tables
    BY DEF Deciding, Decision, Sound
  <1>3. m.registrationOpen \in BOOLEAN
    BY <1>2, <1>0 DEF HasColumns, Tables, Column
  <1>4. \A s \in Shifts : m.shift[s] \in ShiftRow
    BY MergedShifts
  <1>5. \A v \in Volunteers : m.volunteerStatus[v] \in VolunteerStatus \cup {Absent}
    BY <1>2, <1>0 DEF HasColumns, Tables, Column
  <1>6. \A v \in Volunteers : m.editToken[v] \in Tokens
    BY <1>2, <1>0 DEF HasColumns, Tables, Column
  <1>7. m.anonymized \subseteq Volunteers
    BY <1>2, <1>0 DEF HasColumns, Tables
  <1>8. \A v \in Volunteers, s \in Shifts : m.assignment[v][s] \in AssignmentStatus \cup {Absent}
    <2> SUFFICES ASSUME NEW v \in Volunteers, NEW s \in Shifts
                 PROVE  m.assignment[v][s] \in AssignmentStatus \cup {Absent}
      OBVIOUS
    <2>1. m.assignment[v][s] = MergedRow(r, v, s)
      BY <1>0 DEF HasColumns
    <2>2. /\ db.assignment[v][s] \in AssignmentStatus \cup {Absent}
          /\ r.wanted.assignment[v][s] \in AssignmentStatus \cup {Absent}
      BY <1>2 DEF Tables
    <2>3. QED
      BY <2>1, <2>2 DEF MergedRow, Column
  <1>9. \A s \in Shifts : m.registered[s] \in Seq(Volunteers)
    BY MergedOrderListed
  <1>10. \A s \in Shifts : m.checkin[s] \subseteq Volunteers
    BY <1>2, <1>0 DEF HasColumns, Tables
  <1>11. /\ m.shift \in [Shifts -> ShiftRow]
         /\ m.volunteerStatus \in [Volunteers -> VolunteerStatus \cup {Absent}]
         /\ m.editToken \in [Volunteers -> Tokens]
         /\ m.registered \in [Shifts -> Seq(Volunteers)]
         /\ m.checkin \in [Shifts -> SUBSET Volunteers]
    BY <1>1, <1>4, <1>5, <1>6, <1>9, <1>10
  <1>12. \A v \in Volunteers : m.assignment[v] \in [Shifts -> AssignmentStatus \cup {Absent}]
    BY <1>1, <1>8
  <1>13. m.assignment \in [Volunteers -> [Shifts -> AssignmentStatus \cup {Absent}]]
    BY <1>1, <1>12
  <1>14. QED
    BY <1>1, <1>3, <1>7, <1>11, <1>13 DEF Tables

LEMMA MergedSound ==
  ASSUME NEW r, NEW rank, NEW m, Merging(r, rank, m), Sound(db), Deciding(r), Drift(db, r)
  PROVE  Sound(m)
  <1>0. HasColumns(m, r, rank)
    BY MergedColumns
  <1>1. m \in Tables
    BY MergedType
  <1>2. ASSUME NEW v \in Volunteers, NEW s \in Shifts, m.assignment[v][s] # Absent
        PROVE  m.volunteerStatus[v] # Absent /\ m.shift[s].status # Absent
    <2>1. ~ DeletesShift(r, s) /\ db.shift[s].status # Absent
      BY <1>2, MergedRows
    <2>2. db.volunteerStatus[v] # Absent \/ r.wanted.volunteerStatus[v] # Absent
      BY <1>2, MergedRows DEF Sound, Deciding, Decision
    <2>3. QED
      BY <2>1, <2>2, MergedShifts, MergedPeople
  <1>3. ASSUME NEW v \in Volunteers, m.editToken[v] # "none"
        PROVE  m.volunteerStatus[v] # Absent
    <2>1. m.editToken[v] = db.editToken[v] \/ m.editToken[v] = r.wanted.editToken[v]
      BY <1>0 DEF HasColumns, Column
    <2>2. db.volunteerStatus[v] # Absent \/ r.wanted.volunteerStatus[v] # Absent
      BY <1>3, <2>1 DEF Sound, Deciding, Decision
    <2>3. QED
      BY <2>2, MergedPeople
  <1>4. \A s \in Shifts : Listed(m.registered[s], m.assignment, s)
    BY MergedOrderListed
  <1>5. ASSUME NEW v \in Volunteers, NEW s \in Shifts, m.assignment[v][s] = "checked_in"
        PROVE  v \in m.checkin[s]
    <2>1. m.assignment[v][s] # Absent
      BY <1>5 DEF Absent
    <2>2. ~ DeletesShift(r, s) /\ db.shift[s].status # Absent
      BY <2>1, MergedRows
    <2>3. m.checkin[s] = db.checkin[s] \cup (r.wanted.checkin[s] \ r.seen.checkin[s])
      BY <2>2, <1>0 DEF HasColumns
    <2>4. CASE db.assignment[v][s] = "checked_in"
      BY <2>3, <2>4 DEF Sound
    <2>5. CASE r.wanted.assignment[v][s] = "checked_in" /\
               r.wanted.assignment[v][s] # r.seen.assignment[v][s]
      <3>1. v \in r.wanted.checkin[s] /\ r.seen.assignment[v][s] # Absent
        BY <2>5 DEF Deciding, Decision, Sound, OneInserted
      <3>2. v \in r.seen.checkin[s] => v \in db.checkin[s]
        BY <2>2, <3>1 DEF Drift
      <3>3. QED
        BY <2>3, <3>1, <3>2
    <2>6. QED
      BY <1>5, <2>1, <2>4, <2>5, MergedRows
  <1>6. QED
    BY <1>1, <1>2, <1>3, <1>4, <1>5 DEF Sound

(***************************************************************************)
(* A commit leaves what the requests still pending know.                   *)
(***************************************************************************)
LEMMA MergedDrift ==
  ASSUME NEW r, NEW rank, NEW m, Merging(r, rank, m), Sound(db), Deciding(r), Drift(db, r),
         NEW q, Deciding(q), Drift(db, q), Apart(q, r), Apart(r, q)
  PROVE  Drift(m, q)
  <1>0. HasColumns(m, r, rank)
    BY MergedColumns
  <1>1. \A v \in Volunteers : q.seen.volunteerStatus[v] # Absent => m.volunteerStatus[v] # Absent
    BY MergedPeople DEF Drift
  <1>2. ASSUME NEW v \in Volunteers, NEW s \in Shifts,
               v \in q.seen.checkin[s], q.seen.assignment[v][s] # Absent,
               m.shift[s].status # Absent
        PROVE  v \in m.checkin[s]
    <2>1. ~ DeletesShift(r, s)
      BY <1>2, MergedShifts
    <2>2. q.wanted.shift[s].status # Absent
      BY <1>2 DEF Deciding, Decision, NothingLost, Sound
    <2>3. ~ CreatesShift(r, s)
      BY <2>2 DEF Apart
    <2>4. db.shift[s].status # Absent
      BY <1>2, <2>3, MergedShifts
    <2>5. v \in db.checkin[s]
      BY <1>2, <2>4 DEF Drift
    <2>6. QED
      BY <2>1, <2>5, <1>0 DEF HasColumns
  <1>3. ASSUME NEW v \in Volunteers, CreatesPerson(q, v)
        PROVE  m.volunteerStatus[v] = Absent
    <2>1. db.volunteerStatus[v] = Absent /\ r.wanted.volunteerStatus[v] = Absent
      BY <1>3 DEF Drift, Apart
    <2>2. QED
      BY <2>1, MergedPeople
  <1>4. ASSUME NEW s \in Shifts, CreatesShift(q, s)
        PROVE  m.shift[s].status = Absent
    <2>1. db.shift[s].status = Absent /\ r.wanted.shift[s].status = Absent
      BY <1>4 DEF Drift, Apart
    <2>2. QED
      BY <2>1, MergedShifts
  <1>5. QED
    BY <1>1, <1>2, <1>3, <1>4 DEF Drift

(***************************************************************************)
(* The steps.                                                              *)
(***************************************************************************)
LEMMA CommitCases ==
  ASSUME NEW t, Commit(t)
  PROVE  /\ t \in Busy /\ Busy' = Busy \ {t}
         /\ \A u \in Busy' : request'[u] = request[u]
         /\ \/ db' = db
            \/ \E rank : Merging(request[t], rank, db')
  <1>1. /\ t \in Busy /\ request' = [u \in Busy \ {t} |-> request[u]]
        /\ \/ db' = db
           \/ /\ ~ Refused(request[t])
              /\ \E rank \in [Shifts -> 0..Cardinality(Volunteers)] :
                   /\ \A s \in Shifts : InsertedRank(request[t], rank, s)
                   /\ db' = Merged(request[t], rank)
    BY DEF Commit
  <1>2. Busy' = Busy \ {t} /\ \A u \in Busy' : request'[u] = request[u]
    BY <1>1 DEF Busy
  <1> PICK m : m = db'
    OBVIOUS
  <1>3. m = db \/ \E rank : Merging(request[t], rank, m)
    BY <1>1 DEF Merging
  <1>4. QED
    BY <1>1, <1>2, <1>3

LEMMA CommitInv ==
  ASSUME RequestsInv, NEW t, Commit(t)
  PROVE  RequestsInv'
  <1> PICK m : m = db'
    OBVIOUS
  <1>1. /\ t \in Busy /\ Busy' = Busy \ {t}
        /\ \A u \in Busy' : request'[u] = request[u]
        /\ m = db \/ \E rank : Merging(request[t], rank, m)
    BY CommitCases
  <1>2. /\ Sound(db)
        /\ \A u \in Busy : Deciding(request[u]) /\ Drift(db, request[u])
        /\ \A u, w \in Busy : u # w => Apart(request[u], request[w])
    BY DEF RequestsInv
  <1>3. Sound(m)
    BY <1>1, <1>2, MergedSound
  <1>4. ASSUME NEW u \in Busy, u # t
        PROVE  Drift(m, request[u])
    <2>1. /\ Deciding(request[u]) /\ Drift(db, request[u])
          /\ Deciding(request[t]) /\ Drift(db, request[t])
          /\ Apart(request[u], request[t]) /\ Apart(request[t], request[u])
      BY <1>1, <1>2, <1>4
    <2>2. CASE m = db
      BY <2>1, <2>2
    <2>3. CASE m # db
      <3>1. PICK rank : Merging(request[t], rank, m)
        BY <1>1, <2>3
      <3>2. QED
        BY <1>2, <2>1, <3>1, MergedDrift
    <2>4. QED
      BY <2>2, <2>3
  <1>5. \A u \in Busy' : Deciding(request'[u]) /\ Drift(db', request'[u])
    BY <1>1, <1>2, <1>4
  <1>6. \A u, w \in Busy' : u # w => Apart(request'[u], request'[w])
    BY <1>1, <1>2
  <1>7. Sound(db')
    BY <1>3
  <1>8. QED
    BY <1>5, <1>6, <1>7 DEF RequestsInv

LEMMA RequestsNextInv == RequestsInv /\ [RequestsNext]_requestVars => RequestsInv'
  <1> SUFFICES ASSUME RequestsInv, [RequestsNext]_requestVars
               PROVE  RequestsInv'
    OBVIOUS
  <1>1. ASSUME NEW t \in Threads, HandlePublic(t)
        PROVE  RequestsInv'
    <2>1. Next /\ \E v \in Volunteers : PublicStep(v)
      BY <1>1 DEF HandlePublic, Next
    <2>2. QED
      BY <1>1, <2>1, HandledInv DEF HandlePublic
  <1>2. ASSUME NEW t \in Threads, HandleCheckIn(t)
        PROVE  RequestsInv'
    <2>1. Next /\ "checkin" # "public"
      BY <1>2 DEF HandleCheckIn, Next
    <2>2. QED
      BY <1>2, <2>1, HandledInv DEF HandleCheckIn
  <1>3. ASSUME NEW t \in Threads,
               HandleAdmin(t, AssignmentStatus, VolunteerStatus, ShiftStatus)
        PROVE  RequestsInv'
    <2>1. Next /\ "admin" # "public"
      BY <1>3 DEF HandleAdmin, Next
    <2>2. QED
      BY <1>3, <2>1, HandledInv DEF HandleAdmin
  <1>4. ASSUME NEW t \in Threads, Commit(t)
        PROVE  RequestsInv'
    BY <1>4, CommitInv
  <1>5. ASSUME UNCHANGED <<db, request>>
        PROVE  RequestsInv'
    BY <1>5 DEF RequestsInv, Busy
  <1>6. QED
    BY <1>1, <1>2, <1>3, <1>4, <1>5 DEF RequestsNext, get_db, requestVars

(***************************************************************************)
(* In every state the committed rows are sound, what every pending request *)
(* decided was decided on sound rows, and what it relies on still holds.   *)
(***************************************************************************)
THEOREM RequestsInvariant == RequestsSpec => []RequestsInv
  BY RequestsInitInv, RequestsNextInv, PTL DEF RequestsSpec

(***************************************************************************)
(* However many requests overlap, the committed tables stay consistent:    *)
(* the unique constraint, the foreign key and column-wise writes suffice.  *)
(***************************************************************************)
THEOREM RacesKeepTablesConsistent == RequestsSpec => []CommittedConsistent
  <1>1. RequestsInv => CommittedConsistent
    <2> SUFFICES ASSUME RequestsInv
                 PROVE  CommittedConsistent
      OBVIOUS
    <2>1. Sound(db)
      BY DEF RequestsInv
    <2>2. Committed!TypeOK
      BY <2>1 DEF Sound, Tables, Committed!TypeOK, ShiftRow, Committed!ShiftRow,
                  Tokens, Committed!Tokens, AssignmentStatus, Committed!AssignmentStatus,
                  VolunteerStatus, Committed!VolunteerStatus, ShiftStatus,
                  Committed!ShiftStatus, Absent, Committed!Absent
    <2>3. Committed!Consistent
      BY <2>1 DEF Sound, Listed, Committed!Consistent, Committed!RowsHaveParents,
                  Committed!TokensHaveOwners, Committed!QueueListsRows,
                  Committed!CheckedInHasRecord, Committed!HasRow, Committed!Exists,
                  Committed!Planned, Absent, Committed!Absent
    <2>4. QED
      BY <2>2, <2>3 DEF CommittedConsistent
  <1>2. QED
    BY <1>1, RequestsInvariant, PTL

-----------------------------------------------------------------------------
(***************************************************************************)
(* What a commit does to tokens and places.                                *)
(***************************************************************************)
LEMMA MergedRevocations ==
  ASSUME NEW r, NEW rank, NEW m, Merging(r, rank, m), Sound(db), Deciding(r), Drift(db, r),
         NEW v \in Volunteers
  PROVE  /\ db.editToken[v] = "revoked" => m.editToken[v] = "revoked"
         /\ v \in db.anonymized => v \in m.anonymized
  <1>1. HasColumns(m, r, rank)
    BY MergedColumns
  <1>2. m.editToken[v] = Column(db.editToken[v], r.seen.editToken[v], r.wanted.editToken[v])
    BY <1>1 DEF HasColumns
  <1>3. ASSUME db.editToken[v] = "revoked", r.wanted.editToken[v] # r.seen.editToken[v]
        PROVE  r.wanted.editToken[v] = "revoked"
    <2>1. db.volunteerStatus[v] # Absent
      BY <1>3 DEF Sound
    <2>2. ~ CreatesPerson(r, v)
      BY <2>1 DEF Drift
    <2>3. CASE r.seen.volunteerStatus[v] # Absent
      BY <1>3, <2>3 DEF Deciding, Decision, TokensRevoked
    <2>4. CASE r.seen.volunteerStatus[v] = Absent
      <3>1. r.wanted.volunteerStatus[v] = Absent
        BY <2>2, <2>4 DEF CreatesPerson
      <3>2. r.seen.editToken[v] = "none" /\ r.wanted.editToken[v] = "none"
        BY <2>4, <3>1 DEF Deciding, Decision, Sound
      <3>3. QED
        BY <1>3, <3>2
    <2>5. QED
      BY <2>3, <2>4
  <1>4. QED
    BY <1>1, <1>2, <1>3 DEF Column, HasColumns

\* The instance counts as the module does.
LEMMA SameCardinality == \A S : Committed!Cardinality(S) = Cardinality(S)
  BY Zenon DEF Cardinality, Committed!Cardinality

LEMMA FreshPlaces ==
  ASSUME NEW r, NEW rank, NEW m, Merging(r, rank, m), Sound(db), Deciding(r), Drift(db, r),
         r.origin = "public", NEW s \in Shifts, ~ StaleFor(r, s),
         Cardinality(HoldsPlace(m, s)) > Cardinality(HoldsPlace(db, s))
  PROVE  Cardinality(HoldsPlace(m, s)) <= db.shift[s].needed
  <1>1. /\ r.seen.shift[s] = db.shift[s]
        /\ \A v \in Volunteers : r.seen.assignment[v][s] = db.assignment[v][s]
    BY DEF StaleFor
  <1>2. \A v \in Volunteers : m.assignment[v][s] = MergedRow(r, v, s)
    BY MergedColumns DEF HasColumns
  <1>3. \A v \in Volunteers : m.assignment[v][s] = r.wanted.assignment[v][s]
    BY <1>1, <1>2, DeletedIsEmpty DEF MergedRow, Column
  <1>4. /\ HoldsPlace(m, s) = HoldsPlace(r.wanted, s)
        /\ HoldsPlace(db, s) = HoldsPlace(r.seen, s)
    BY <1>1, <1>3 DEF HoldsPlace
  <1>5. WithinCapacity(r.seen, r.wanted)
    BY DEF Deciding, Decision
  <1>6. QED
    BY <1>1, <1>4, <1>5 DEF WithinCapacity

(***************************************************************************)
(* No commit, on however old reads, brings a revoked token back, nor takes *)
(* an anonymization back.                                                  *)
(***************************************************************************)
THEOREM RacesKeepRevocations == RequestsSpec => RevocationSurvivesRaces
  <1>1. RequestsInv /\ [RequestsNext]_requestVars =>
          [\A v \in Volunteers :
             /\ db.editToken[v] = "revoked" => db.editToken'[v] = "revoked"
             /\ v \in db.anonymized => v \in db.anonymized']_(Committed!vars)
    <2> SUFFICES ASSUME RequestsInv, RequestsNext, NEW v \in Volunteers
                 PROVE  /\ db.editToken[v] = "revoked" => db.editToken'[v] = "revoked"
                        /\ v \in db.anonymized => v \in db.anonymized'
      BY DEF requestVars, Committed!vars, Committed!volunteerVars
    <2> PICK m : m = db'
      OBVIOUS
    <2>1. CASE \E t \in Threads : Commit(t)
      <3>1. PICK t : Commit(t)
        BY <2>1
      <3>2. t \in Busy /\ (m = db \/ \E rank : Merging(request[t], rank, m))
        BY <3>1, CommitCases
      <3>3. Sound(db) /\ Deciding(request[t]) /\ Drift(db, request[t])
        BY <3>2 DEF RequestsInv
      <3>4. /\ db.editToken[v] = "revoked" => m.editToken[v] = "revoked"
            /\ v \in db.anonymized => v \in m.anonymized
        BY <3>2, <3>3, MergedRevocations
      <3>5. QED
        BY <3>4
    <2>2. CASE ~ \E t \in Threads : Commit(t)
      <3>1. db' = db
        BY <2>2 DEF RequestsNext, HandlePublic, HandleCheckIn, HandleAdmin, Handled, get_db
      <3>2. QED
        BY <3>1
    <2>3. QED
      BY <2>1, <2>2
  <1>2. QED
    BY <1>1, RequestsInvariant, PTL
       DEF RequestsSpec, RevocationSurvivesRaces, Committed!RevocationIsPermanent

(***************************************************************************)
(* A public request whose handler read the rows of the shift as they still *)
(* are when it commits does not overbook it, whatever else is pending.     *)
(***************************************************************************)
THEOREM OverbookingIsAlwaysStale == RequestsSpec => OverbookingNeedsStaleReads
  <1>1. RequestsInv /\ [RequestsNext]_requestVars =>
          [\A t \in Busy, s \in Shifts :
             /\ t \notin DOMAIN request'
             /\ request[t].origin = "public"
             /\ Committed!PlacesTaken(s)' > Committed!PlacesTaken(s)
             /\ Committed!PlacesTaken(s)' > db.shift[s].needed
             => StaleFor(request[t], s)]_requestVars
    <2> SUFFICES ASSUME RequestsInv, RequestsNext, NEW t \in Busy, NEW s \in Shifts,
                        t \notin DOMAIN request', request[t].origin = "public",
                        Committed!PlacesTaken(s)' > Committed!PlacesTaken(s),
                        Committed!PlacesTaken(s)' > db.shift[s].needed,
                        ~ StaleFor(request[t], s)
                 PROVE  FALSE
      OBVIOUS
    <2> PICK m : m = db'
      OBVIOUS
    <2>1. /\ Committed!PlacesTaken(s) = Cardinality(HoldsPlace(db, s))
          /\ Committed!PlacesTaken(s)' = Cardinality(HoldsPlace(m, s))
      BY SameCardinality DEF Committed!PlacesTaken, HoldsPlace
    <2>2. \E u \in Threads : Commit(u)
      BY DEF RequestsNext, HandlePublic, HandleCheckIn, HandleAdmin, Handled, get_db, Busy
    <2>3. PICK u : Commit(u)
      BY <2>2
    <2>4. u = t
      BY <2>3, CommitCases DEF Busy
    <2>5. m = db \/ \E rank : Merging(request[t], rank, m)
      BY <2>3, <2>4, CommitCases
    <2>6. /\ Sound(db) /\ Deciding(request[t]) /\ Drift(db, request[t])
      BY DEF RequestsInv
    <2>7. /\ IsFiniteSet(HoldsPlace(m, s)) /\ IsFiniteSet(HoldsPlace(db, s))
      BY VolunteersAssumption, FS_Subset DEF HoldsPlace
    <2>8. Cardinality(HoldsPlace(m, s)) \in Nat /\ Cardinality(HoldsPlace(db, s)) \in Nat
      BY <2>7, FS_CardinalityType
    <2>9. CASE m = db
      BY <2>1, <2>8, <2>9
    <2>10. CASE \E rank : Merging(request[t], rank, m)
      <3>1. Cardinality(HoldsPlace(m, s)) <= db.shift[s].needed
        BY <2>1, <2>6, <2>10, FreshPlaces
      <3>2. db.shift[s].needed \in Nat
        BY <2>6 DEF Sound, Tables, ShiftRow
      <3>3. QED
        BY <2>1, <2>8, <3>1, <3>2
    <2>11. QED
      BY <2>5, <2>9, <2>10
  <1>2. QED
    BY <1>1, RequestsInvariant, PTL DEF RequestsSpec, OverbookingNeedsStaleReads
===============================================================================

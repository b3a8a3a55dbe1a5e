------------------------------ MODULE SerialProofs ------------------------------
(***************************************************************************)
(* When concurrent requests look serial: a commit onto the rows its        *)
(* handler loaded is a step of Registrations, and with one thread every    *)
(* commit is one. A pending request carries the whole step of its handler  *)
(* as a relation between the rows it loaded and those it left; committing  *)
(* onto the same rows replays it, the order of new rows included.          *)
(***************************************************************************)
EXTENDS RequestsProofs

(***************************************************************************)
(* A step of Registrations as a relation between the rows o before it and  *)
(* the rows n after it, so that a pending request can carry it until its   *)
(* commit. What a handler computes is Registrations' own, of the rows o.   *)
(***************************************************************************)
At(o) == INSTANCE Registrations WITH
  registrationOpen <- o.registrationOpen, shift <- o.shift,
  volunteerStatus <- o.volunteerStatus, editToken <- o.editToken,
  anonymized <- o.anonymized, assignment <- o.assignment,
  registered <- o.registered, checkin <- o.checkin

KeepsWindow(o, n) == n.registrationOpen = o.registrationOpen
KeepsPlan(o, n) == KeepsWindow(o, n) /\ n.shift = o.shift
KeepsPeople(o, n) ==
  /\ n.volunteerStatus = o.volunteerStatus
  /\ n.editToken = o.editToken
  /\ n.anonymized = o.anonymized
KeepsRows(o, n) == n.assignment = o.assignment /\ n.registered = o.registered
KeepsDesk(o, n) == n.checkin = o.checkin

RowsSet(o, n, v, rows) ==
  /\ n.assignment = [o.assignment EXCEPT ![v] = rows]
  /\ n.registered = At(o)!AppendRows(v, {s \in Shifts : ~ At(o)!HasRow(v, s) /\ rows[s] # Absent})
  /\ KeepsPlan(o, n)

RowSet(o, n, v, s, status) ==
  /\ RowsSet(o, n, v, [o.assignment[v] EXCEPT ![s] = status])
  /\ KeepsPeople(o, n)

PublicRelation(o, n, v) ==
  \/ \E sel \in SUBSET Shifts :
       /\ o.registrationOpen
       /\ At(o)!_selected_shifts(sel)
       /\ \/ /\ ~ At(o)!Exists(v)
             /\ \A s \in sel : At(o)!CanAssign(s)
             /\ n.volunteerStatus = [o.volunteerStatus EXCEPT ![v] = "submitted"]
             /\ n.editToken = [o.editToken EXCEPT ![v] = "valid"]
             /\ n.anonymized = o.anonymized
             /\ RowsSet(o, n, v, At(o)!CreatedRows(sel))
          \/ /\ o.editToken[v] = "valid"
             /\ \A s \in sel : At(o)!Live(v, s) \/ At(o)!CanAssign(s)
             /\ RowsSet(o, n, v, At(o)!UpdatedRows(v, sel))
             /\ KeepsPeople(o, n)
       /\ KeepsDesk(o, n)
  \/ \E s \in Shifts :
       /\ o.editToken[v] = "valid"
       /\ o.assignment[v][s] \notin {Absent, "cancelled"}
       /\ RowSet(o, n, v, s, "cancelled")
       /\ KeepsDesk(o, n)

CheckInRelation(o, n, v, s) ==
  \/ /\ o.assignment[v][s] \in {"confirmed", "checked_in"}
     /\ n.checkin = [o.checkin EXCEPT ![s] = @ \cup {v}]
     /\ RowSet(o, n, v, s, "checked_in")
  \/ /\ At(o)!HasRow(v, s)
     /\ v \in o.checkin[s]
     /\ RowSet(o, n, v, s, "attended")
     /\ KeepsDesk(o, n)

StatusRelation(o, n, v, s, status) ==
  /\ RowSet(o, n, v, s, status)
  /\ KeepsDesk(o, n)
  /\ \/ At(o)!HasRow(v, s) /\ status # "checked_in"
     \/ /\ At(o)!Exists(v) /\ At(o)!Planned(s) /\ ~ At(o)!HasRow(v, s)
        /\ status \in {"confirmed", "waitlisted", "pending"}
        /\ status = "confirmed" => At(o)!occupied(s) < o.shift[s].needed
     \/ /\ At(o)!FirstWaitlisted(s, v)
        /\ At(o)!occupied(s) < o.shift[s].needed
        /\ status = "confirmed"

PersonRelation(o, n, v) ==
  /\ KeepsDesk(o, n)
  /\ \/ /\ ~ At(o)!Exists(v)
        /\ n.volunteerStatus = [o.volunteerStatus EXCEPT ![v] = "submitted"]
        /\ n.editToken = o.editToken /\ n.anonymized = o.anonymized
        /\ KeepsPlan(o, n) /\ KeepsRows(o, n)
     \/ /\ At(o)!Exists(v)
        /\ n.volunteerStatus = [o.volunteerStatus EXCEPT ![v] = "rejected"]
        /\ n.editToken = [o.editToken EXCEPT ![v] = "revoked"]
        /\ n.anonymized = o.anonymized
        /\ RowsSet(o, n, v, At(o)!RejectedRows(v))
     \/ /\ At(o)!Exists(v) /\ v \notin o.anonymized
        /\ n.volunteerStatus = [o.volunteerStatus EXCEPT ![v] = "deleted_operational_data"]
        /\ n.editToken = [o.editToken EXCEPT ![v] = "revoked"]
        /\ n.anonymized = o.anonymized \cup {v}
        /\ KeepsPlan(o, n) /\ KeepsRows(o, n)

BulkRelation(o, n, selected) ==
  /\ selected # {} /\ \A v \in selected : At(o)!Exists(v)
  /\ KeepsPlan(o, n) /\ KeepsDesk(o, n)
  /\ n.editToken = o.editToken /\ n.anonymized = o.anonymized
  /\ n.registered = o.registered
  /\ \/ \E status \in VolunteerStatus :
          /\ status # "rejected"
          /\ n.volunteerStatus =
               [v \in Volunteers |-> IF v \in selected THEN status ELSE o.volunteerStatus[v]]
          /\ n.assignment = o.assignment
     \/ \E status \in AssignmentStatus :
          /\ status # "checked_in"
          /\ n.assignment = [v \in Volunteers |-> [s \in Shifts |->
               IF v \in selected THEN At(o)!BulkRow(v, s, status) ELSE o.assignment[v][s]]]
          /\ n.volunteerStatus = o.volunteerStatus

PlanRelation(o, n) ==
  /\ KeepsPeople(o, n) /\ KeepsRows(o, n) /\ KeepsDesk(o, n)
  /\ \/ n.registrationOpen = ~ o.registrationOpen /\ n.shift = o.shift
     \/ /\ KeepsWindow(o, n)
        /\ \E s \in Shifts :
             \/ \E form \in ShiftForms, status \in ShiftStatus :
                  \/ /\ ~ At(o)!Planned(s)
                     /\ n.shift = [o.shift EXCEPT ![s] = ShiftFrom(form, "open")]
                  \/ /\ At(o)!Planned(s)
                     /\ \/ n.shift = [o.shift EXCEPT ![s] = ShiftFrom(form, status)]
                        \/ n.shift = [o.shift EXCEPT ![s] =
                             WithStatus(o.shift[s], status, form.needed)]
             \/ /\ At(o)!Planned(s)
                /\ n.shift = [o.shift EXCEPT ![s] =
                     IF \E v \in Volunteers : At(o)!HasRow(v, s)
                     THEN WithStatus(o.shift[s], "cancelled", o.shift[s].needed)
                     ELSE NoShift]

StepRelation(o, n) ==
  \/ \E v \in Volunteers : PublicRelation(o, n, v) \/ PersonRelation(o, n, v)
  \/ \E v \in Volunteers, s \in Shifts :
       \/ CheckInRelation(o, n, v, s)
       \/ \E status \in AssignmentStatus : StatusRelation(o, n, v, s, status)
  \/ \E selected \in SUBSET Volunteers : BulkRelation(o, n, selected)
  \/ PlanRelation(o, n)

-----------------------------------------------------------------------------
(***************************************************************************)
(* What handlers compute is the same in a session that loaded o, and in    *)
(* the committed rows.                                                     *)
(***************************************************************************)
SessionIs(o) ==
  /\ registrationOpen = o.registrationOpen /\ shift = o.shift
  /\ volunteerStatus = o.volunteerStatus /\ editToken = o.editToken
  /\ anonymized = o.anonymized /\ assignment = o.assignment
  /\ registered = o.registered /\ checkin = o.checkin

LeavesAs(n) ==
  /\ registrationOpen' = n.registrationOpen /\ shift' = n.shift
  /\ volunteerStatus' = n.volunteerStatus /\ editToken' = n.editToken
  /\ anonymized' = n.anonymized /\ assignment' = n.assignment
  /\ registered' = n.registered /\ checkin' = n.checkin

\* An instance counts as the module does.
LEMMA AtCardinality == \A o, S : At(o)!Cardinality(S) = Cardinality(S)
  BY Zenon DEF Cardinality, At!Cardinality

LEMMA SessionComputes ==
  ASSUME NEW o, SessionIs(o)
  PROVE  /\ \A s : CanAssign(s) = At(o)!CanAssign(s)
         /\ \A s : _assignment_status(s) = At(o)!_assignment_status(s)
         /\ \A s : occupied(s) = At(o)!occupied(s)
         /\ \A sel : _selected_shifts(sel) = At(o)!_selected_shifts(sel)
  <1>1. \A s, statuses : Holders(s, statuses) = At(o)!Holders(s, statuses)
    BY DEF SessionIs, Holders, At!Holders
  <1>2. \A s : available_places(s) = At(o)!available_places(s)
    BY <1>1, AtCardinality
       DEF SessionIs, available_places, At!available_places, ACTIVE_ASSIGNMENT_STATUSES,
           At!ACTIVE_ASSIGNMENT_STATUSES
  <1>3. \A s : WaitlistHasRoom(s) = At(o)!WaitlistHasRoom(s)
    BY <1>1, AtCardinality DEF SessionIs, WaitlistHasRoom, At!WaitlistHasRoom
  <1>4. \A s : occupied(s) = At(o)!occupied(s)
    BY <1>1, AtCardinality DEF occupied, At!occupied, OccupyingStatuses, At!OccupyingStatuses
  <1>5. \A sel : _selected_shifts(sel) = At(o)!_selected_shifts(sel)
    BY DEF SessionIs, _selected_shifts, At!_selected_shifts, Neighbours, At!Neighbours
  <1>6. QED
    BY <1>2, <1>3, <1>4, <1>5
       DEF CanAssign, At!CanAssign, _assignment_status, At!_assignment_status

LEMMA CommittedComputes ==
  /\ \A s : Committed!CanAssign(s) = At(db)!CanAssign(s)
  /\ \A s : Committed!_assignment_status(s) = At(db)!_assignment_status(s)
  /\ \A s : Committed!occupied(s) = At(db)!occupied(s)
  /\ \A sel : Committed!_selected_shifts(sel) = At(db)!_selected_shifts(sel)
  <1>1. \A s, statuses : Committed!Holders(s, statuses) = At(db)!Holders(s, statuses)
    BY DEF Committed!Holders, At!Holders
  <1>2. \A s : Committed!available_places(s) = At(db)!available_places(s)
    BY <1>1, AtCardinality, SameCardinality
       DEF Committed!available_places, At!available_places,
           Committed!ACTIVE_ASSIGNMENT_STATUSES, At!ACTIVE_ASSIGNMENT_STATUSES
  <1>3. \A s : Committed!WaitlistHasRoom(s) = At(db)!WaitlistHasRoom(s)
    BY <1>1, AtCardinality, SameCardinality DEF Committed!WaitlistHasRoom, At!WaitlistHasRoom
  <1>4. \A s : Committed!occupied(s) = At(db)!occupied(s)
    BY <1>1, AtCardinality, SameCardinality
       DEF Committed!occupied, At!occupied, Committed!OccupyingStatuses, At!OccupyingStatuses
  <1>5. \A sel : Committed!_selected_shifts(sel) = At(db)!_selected_shifts(sel)
    BY DEF Committed!_selected_shifts, At!_selected_shifts, Committed!Neighbours, At!Neighbours
  <1>6. QED
    BY <1>2, <1>3, <1>4, <1>5
       DEF Committed!CanAssign, At!CanAssign, Committed!_assignment_status,
           At!_assignment_status

-----------------------------------------------------------------------------
(***************************************************************************)
(* From a step of the session to the relation.                             *)
(***************************************************************************)
LEMMA RowsSetBySession ==
  ASSUME NEW o, NEW n, SessionIs(o), LeavesAs(n), KeepsPlan(o, n), NEW v, NEW rows,
         SetRows(v, rows)
  PROVE  RowsSet(o, n, v, rows)
  BY DEF SessionIs, LeavesAs, SetRows, RowsSet, AppendRows, At!AppendRows, HasRow, At!HasRow,
         Absent, At!Absent

LEMMA RowSetBySession ==
  ASSUME NEW o, NEW n, SessionIs(o), LeavesAs(n), NEW v, NEW s, NEW status,
         SetRow(v, s, status), UNCHANGED <<registrationOpen, shift, volunteerVars>>
  PROVE  RowSet(o, n, v, s, status)
  <1>1. KeepsPlan(o, n) /\ KeepsPeople(o, n)
    BY DEF SessionIs, LeavesAs, KeepsPlan, KeepsWindow, KeepsPeople, volunteerVars
  <1>2. RowsSet(o, n, v, [o.assignment[v] EXCEPT ![s] = status])
    BY <1>1, RowsSetBySession DEF SetRow, SessionIs
  <1>3. QED
    BY <1>1, <1>2 DEF RowSet

LEMMA PublicRelates ==
  ASSUME NEW o, NEW n, SessionIs(o), LeavesAs(n), NEW v \in Volunteers, PublicStep(v)
  PROVE  PublicRelation(o, n, v)
  <1>1. ASSUME NEW sel \in SUBSET Shifts, create_registration(v, sel)
        PROVE  PublicRelation(o, n, v)
    <2>1. KeepsPlan(o, n) /\ KeepsDesk(o, n)
      BY <1>1 DEF create_registration, SessionIs, LeavesAs, KeepsPlan, KeepsWindow, KeepsDesk
    <2>2. RowsSet(o, n, v, At(o)!CreatedRows(sel))
      <3>1. CreatedRows(sel) = At(o)!CreatedRows(sel)
        BY SessionComputes DEF CreatedRows, At!CreatedRows, Absent, At!Absent
      <3>2. QED
        BY <1>1, <2>1, <3>1, RowsSetBySession DEF create_registration
    <2>3. /\ o.registrationOpen /\ At(o)!_selected_shifts(sel)
          /\ ~ At(o)!Exists(v) /\ \A s \in sel : At(o)!CanAssign(s)
      BY <1>1, SessionComputes
         DEF create_registration, SessionIs, Exists, At!Exists, Absent, At!Absent
    <2>4. /\ n.volunteerStatus = [o.volunteerStatus EXCEPT ![v] = "submitted"]
          /\ n.editToken = [o.editToken EXCEPT ![v] = "valid"]
          /\ n.anonymized = o.anonymized
      BY <1>1 DEF create_registration, SessionIs, LeavesAs
    <2>5. QED
      BY <2>1, <2>2, <2>3, <2>4 DEF PublicRelation
  <1>2. ASSUME NEW sel \in SUBSET Shifts, update_registration(v, sel)
        PROVE  PublicRelation(o, n, v)
    <2>1. KeepsPlan(o, n) /\ KeepsPeople(o, n) /\ KeepsDesk(o, n)
      BY <1>2 DEF update_registration, SessionIs, LeavesAs, KeepsPlan, KeepsWindow,
                  KeepsPeople, KeepsDesk, volunteerVars
    <2>2. RowsSet(o, n, v, At(o)!UpdatedRows(v, sel))
      <3>1. UpdatedRows(v, sel) = At(o)!UpdatedRows(v, sel)
        BY SessionComputes
           DEF SessionIs, UpdatedRows, At!UpdatedRows, UpdatedRow, At!UpdatedRow, Live, At!Live,
               LiveStatuses, At!LiveStatuses, ACTIVE_ASSIGNMENT_STATUSES,
               At!ACTIVE_ASSIGNMENT_STATUSES
      <3>2. QED
        BY <1>2, <2>1, <3>1, RowsSetBySession DEF update_registration
    <2>3. /\ o.registrationOpen /\ At(o)!_selected_shifts(sel) /\ o.editToken[v] = "valid"
          /\ \A s \in sel : At(o)!Live(v, s) \/ At(o)!CanAssign(s)
      BY <1>2, SessionComputes
         DEF update_registration, get_volunteer_by_edit_token, SessionIs, Live, At!Live,
             LiveStatuses, At!LiveStatuses, ACTIVE_ASSIGNMENT_STATUSES,
             At!ACTIVE_ASSIGNMENT_STATUSES
    <2>4. QED
      BY <2>1, <2>2, <2>3 DEF PublicRelation
  <1>3. ASSUME NEW s \in Shifts, cancel_assignment(v, s)
        PROVE  PublicRelation(o, n, v)
    <2>1. RowSet(o, n, v, s, "cancelled") /\ KeepsDesk(o, n)
      BY <1>3, RowSetBySession DEF cancel_assignment, SessionIs, LeavesAs, KeepsDesk
    <2>2. o.editToken[v] = "valid" /\ o.assignment[v][s] \notin {Absent, "cancelled"}
      BY <1>3 DEF cancel_assignment, get_volunteer_by_edit_token, SessionIs
    <2>3. QED
      BY <2>1, <2>2 DEF PublicRelation
  <1>4. QED
    BY <1>1, <1>2, <1>3 DEF PublicStep

LEMMA CheckInRelates ==
  ASSUME NEW o, NEW n, SessionIs(o), LeavesAs(n), CheckInStep
  PROVE  \E v \in Volunteers, s \in Shifts : CheckInRelation(o, n, v, s)
  <1>1. PICK v \in Volunteers, s \in Shifts :
          check_in_assignment(v, s) \/ check_out_assignment(v, s)
    BY DEF CheckInStep
  <1>2. CASE check_in_assignment(v, s)
    <2>1. RowSet(o, n, v, s, "checked_in")
      BY <1>2, RowSetBySession DEF check_in_assignment
    <2>2. /\ o.assignment[v][s] \in {"confirmed", "checked_in"}
          /\ n.checkin = [o.checkin EXCEPT ![s] = @ \cup {v}]
      BY <1>2 DEF check_in_assignment, SessionIs, LeavesAs
    <2>3. QED
      BY <2>1, <2>2 DEF CheckInRelation
  <1>3. CASE check_out_assignment(v, s)
    <2>1. RowSet(o, n, v, s, "attended") /\ KeepsDesk(o, n)
      BY <1>3, RowSetBySession DEF check_out_assignment, SessionIs, LeavesAs, KeepsDesk
    <2>2. At(o)!HasRow(v, s) /\ v \in o.checkin[s]
      BY <1>3 DEF check_out_assignment, SessionIs, HasRow, At!HasRow, Absent, At!Absent
    <2>3. QED
      BY <2>1, <2>2 DEF CheckInRelation
  <1>4. QED
    BY <1>1, <1>2, <1>3

LEMMA StatusRelates ==
  ASSUME NEW o, NEW n, SessionIs(o), LeavesAs(n), NEW v, NEW s, NEW status,
         SetRow(v, s, status), UNCHANGED <<registrationOpen, shift, volunteerVars, checkin>>,
         \/ HasRow(v, s) /\ status # "checked_in"
         \/ /\ Exists(v) /\ Planned(s) /\ ~ HasRow(v, s)
            /\ status \in {"confirmed", "waitlisted", "pending"}
            /\ status = "confirmed" => occupied(s) < shift[s].needed
         \/ FirstWaitlisted(s, v) /\ occupied(s) < shift[s].needed /\ status = "confirmed"
  PROVE  StatusRelation(o, n, v, s, status)
  <1>1. RowSet(o, n, v, s, status) /\ KeepsDesk(o, n)
    BY RowSetBySession DEF SessionIs, LeavesAs, KeepsDesk
  <1>2. occupied(s) = At(o)!occupied(s)
    BY SessionComputes
  <1>3. /\ HasRow(v, s) = At(o)!HasRow(v, s)
        /\ Exists(v) = At(o)!Exists(v)
        /\ Planned(s) = At(o)!Planned(s)
        /\ FirstWaitlisted(s, v) = At(o)!FirstWaitlisted(s, v)
        /\ shift[s].needed = o.shift[s].needed
    BY DEF SessionIs, HasRow, At!HasRow, Exists, At!Exists, Planned, At!Planned,
           FirstWaitlisted, At!FirstWaitlisted, Absent, At!Absent
  <1>4. QED
    BY <1>1, <1>2, <1>3 DEF StatusRelation

LEMMA PersonRelates ==
  ASSUME NEW o, NEW n, SessionIs(o), LeavesAs(n), NEW v,
         create_volunteer_admin(v) \/ reject_volunteer(v) \/ anonymize_volunteer(v)
  PROVE  PersonRelation(o, n, v)
  <1>1. KeepsDesk(o, n) /\ KeepsPlan(o, n)
    BY DEF create_volunteer_admin, reject_volunteer, anonymize_volunteer, SessionIs, LeavesAs,
           KeepsDesk, KeepsPlan, KeepsWindow
  <1>2. Exists(v) = At(o)!Exists(v)
    BY DEF SessionIs, Exists, At!Exists, Absent, At!Absent
  <1>3. CASE create_volunteer_admin(v)
    BY <1>1, <1>2, <1>3
       DEF create_volunteer_admin, SessionIs, LeavesAs, KeepsRows, PersonRelation
  <1>4. CASE reject_volunteer(v)
    <2>1. RejectedRows(v) = At(o)!RejectedRows(v)
      BY DEF SessionIs, RejectedRows, At!RejectedRows, RejectedRow, At!RejectedRow,
             Absent, At!Absent
    <2>2. RowsSet(o, n, v, At(o)!RejectedRows(v))
      BY <1>1, <1>4, <2>1, RowsSetBySession DEF reject_volunteer
    <2>3. QED
      BY <1>1, <1>2, <1>4, <2>2 DEF reject_volunteer, SessionIs, LeavesAs, PersonRelation
  <1>5. CASE anonymize_volunteer(v)
    BY <1>1, <1>2, <1>5
       DEF anonymize_volunteer, SessionIs, LeavesAs, KeepsRows, PersonRelation
  <1>6. QED
    BY <1>3, <1>4, <1>5

LEMMA BulkRelates ==
  ASSUME NEW o, NEW n, SessionIs(o), LeavesAs(n), NEW selected,
         \/ \E status \in VolunteerStatus : bulk_volunteer_status(selected, status)
         \/ \E status \in AssignmentStatus : bulk_assignment_status(selected, status)
  PROVE  BulkRelation(o, n, selected)
  <1>1. /\ selected # {} /\ \A v \in selected : At(o)!Exists(v)
        /\ KeepsPlan(o, n) /\ KeepsDesk(o, n)
        /\ n.editToken = o.editToken /\ n.anonymized = o.anonymized
        /\ n.registered = o.registered
    BY DEF bulk_volunteer_status, bulk_assignment_status, SessionIs, LeavesAs, KeepsPlan,
           KeepsWindow, KeepsDesk, Exists, At!Exists, Absent, At!Absent, volunteerVars
  <1>2. ASSUME NEW status \in VolunteerStatus, bulk_volunteer_status(selected, status)
        PROVE  BulkRelation(o, n, selected)
    BY <1>1, <1>2 DEF bulk_volunteer_status, SessionIs, LeavesAs, BulkRelation
  <1>3. ASSUME NEW status \in AssignmentStatus, bulk_assignment_status(selected, status)
        PROVE  BulkRelation(o, n, selected)
    <2>1. \A v, s : BulkRow(v, s, status) = At(o)!BulkRow(v, s, status)
      BY DEF SessionIs, BulkRow, At!BulkRow, Absent, At!Absent
    <2>2. /\ n.assignment = [v \in Volunteers |-> [s \in Shifts |->
                IF v \in selected THEN At(o)!BulkRow(v, s, status) ELSE o.assignment[v][s]]]
          /\ n.volunteerStatus = o.volunteerStatus
      BY <1>3, <2>1 DEF bulk_assignment_status, SessionIs, LeavesAs, volunteerVars
    <2>3. status # "checked_in"
      BY <1>3 DEF bulk_assignment_status
    <2>4. QED
      BY <1>1, <2>2, <2>3 DEF BulkRelation
  <1>4. QED
    BY <1>2, <1>3

LEMMA PlanRelates ==
  ASSUME NEW o, NEW n, SessionIs(o), LeavesAs(n), PlanningStep(ShiftStatus)
  PROVE  PlanRelation(o, n)
  <1>1. KeepsPeople(o, n) /\ KeepsRows(o, n) /\ KeepsDesk(o, n)
    BY DEF PlanningStep, create_shift, edit_shift_submit, update_shift_status,
           delete_or_cancel_shift, registration_window, volunteerVars, SessionIs, LeavesAs,
           KeepsPeople, KeepsRows, KeepsDesk
  <1>2. /\ \A s : Planned(s) = At(o)!Planned(s)
        /\ \A v, s : HasRow(v, s) = At(o)!HasRow(v, s)
    BY DEF SessionIs, Planned, At!Planned, HasRow, At!HasRow, Absent, At!Absent
  <1>3. CASE registration_window
    BY <1>1, <1>3 DEF registration_window, SessionIs, LeavesAs, PlanRelation
  <1>4. ASSUME NEW s \in Shifts, NEW form \in ShiftForms, create_shift(s, form)
        PROVE  PlanRelation(o, n)
    <2>1. "open" \in ShiftStatus
      BY DEF ShiftStatus
    <2>2. KeepsWindow(o, n) /\ ~ At(o)!Planned(s)
          /\ n.shift = [o.shift EXCEPT ![s] = ShiftFrom(form, "open")]
      BY <1>2, <1>4 DEF create_shift, SessionIs, LeavesAs, KeepsWindow
    <2>3. QED
      BY <1>1, <2>1, <2>2 DEF PlanRelation
  <1>5. ASSUME NEW s \in Shifts, NEW form \in ShiftForms, NEW status \in ShiftStatus,
               edit_shift_submit(s, form, status) \/ update_shift_status(s, status, form.needed)
        PROVE  PlanRelation(o, n)
    <2>1. /\ KeepsWindow(o, n) /\ At(o)!Planned(s)
          /\ \/ n.shift = [o.shift EXCEPT ![s] = ShiftFrom(form, status)]
             \/ n.shift = [o.shift EXCEPT ![s] = WithStatus(o.shift[s], status, form.needed)]
      BY <1>2, <1>5 DEF edit_shift_submit, update_shift_status, SessionIs, LeavesAs, KeepsWindow
    <2>2. QED
      BY <1>1, <2>1 DEF PlanRelation
  <1>6. ASSUME NEW s \in Shifts, delete_or_cancel_shift(s)
        PROVE  PlanRelation(o, n)
    <2>1. /\ KeepsWindow(o, n) /\ At(o)!Planned(s)
          /\ n.shift = [o.shift EXCEPT ![s] =
               IF \E v \in Volunteers : At(o)!HasRow(v, s)
               THEN WithStatus(o.shift[s], "cancelled", o.shift[s].needed)
               ELSE NoShift]
      BY <1>2, <1>6 DEF delete_or_cancel_shift, SessionIs, LeavesAs, KeepsWindow
    <2>2. QED
      BY <1>1, <2>1 DEF PlanRelation
  <1>7. QED
    BY <1>3, <1>4, <1>5, <1>6 DEF PlanningStep

LEMMA StepRelates ==
  ASSUME NEW o, NEW n, o = Session, n = Session', Next
  PROVE  StepRelation(o, n)
  <1>1. SessionIs(o) /\ LeavesAs(n)
    BY DEF Session, SessionIs, LeavesAs
  <1>2. CASE \E v \in Volunteers : PublicStep(v)
    BY <1>1, <1>2, PublicRelates DEF StepRelation
  <1>3. CASE CheckInStep
    BY <1>1, <1>3, CheckInRelates DEF StepRelation
  <1>4. CASE PlanningStep(ShiftStatus)
    BY <1>1, <1>4, PlanRelates DEF StepRelation
  <1>5. ASSUME NEW v \in Volunteers,
               create_volunteer_admin(v) \/ reject_volunteer(v) \/ anonymize_volunteer(v)
        PROVE  StepRelation(o, n)
    BY <1>1, <1>5, PersonRelates DEF StepRelation
  <1>6. ASSUME NEW v \in Volunteers, NEW s \in Shifts, NEW status \in AssignmentStatus,
               \/ change_assignment_status(v, s, status)
               \/ \E override_conflict \in BOOLEAN :
                    assign_volunteer(v, s, status, override_conflict)
        PROVE  StepRelation(o, n)
    <2>1. StatusRelation(o, n, v, s, status)
      BY <1>1, <1>6, StatusRelates DEF change_assignment_status, assign_volunteer
    <2>2. QED
      BY <2>1 DEF StepRelation
  <1>7. ASSUME NEW s \in Shifts, promote_first_waitlisted(s)
        PROVE  StepRelation(o, n)
    <2>1. PICK v \in Volunteers : FirstWaitlisted(s, v) /\ SetRow(v, s, "confirmed")
      BY <1>7 DEF promote_first_waitlisted
    <2>2. StatusRelation(o, n, v, s, "confirmed") /\ "confirmed" \in AssignmentStatus
      BY <1>1, <1>7, <2>1, StatusRelates DEF promote_first_waitlisted, AssignmentStatus
    <2>3. QED
      BY <2>2 DEF StepRelation
  <1>8. ASSUME NEW selected \in SUBSET Volunteers,
               \/ \E status \in VolunteerStatus : bulk_volunteer_status(selected, status)
               \/ \E status \in AssignmentStatus : bulk_assignment_status(selected, status)
        PROVE  StepRelation(o, n)
    BY <1>1, <1>8, BulkRelates DEF StepRelation
  <1>9. QED
    BY <1>2, <1>3, <1>4, <1>5, <1>6, <1>7, <1>8 DEF Next, VolunteerAdminStep

-----------------------------------------------------------------------------
(***************************************************************************)
(* From the relation to a step of the committed rows.                      *)
(***************************************************************************)
LEMMA RowsSetCommitted ==
  ASSUME NEW v, NEW rows, RowsSet(db, db', v, rows)
  PROVE  Committed!SetRows(v, rows)
  BY DEF RowsSet, Committed!SetRows, At!AppendRows, Committed!AppendRows, At!HasRow,
         Committed!HasRow, At!Absent, Absent, Committed!Absent

LEMMA RowSetCommitted ==
  ASSUME NEW v, NEW s, NEW status, RowSet(db, db', v, s, status)
  PROVE  /\ Committed!SetRow(v, s, status)
         /\ db.registrationOpen' = db.registrationOpen /\ db.shift' = db.shift
         /\ UNCHANGED Committed!volunteerVars
  <1>1. KeepsPlan(db, db') /\ KeepsPeople(db, db')
    BY DEF RowSet, RowsSet
  <1>2. Committed!SetRow(v, s, status)
    BY RowsSetCommitted DEF RowSet, Committed!SetRow
  <1>3. QED
    BY <1>1, <1>2 DEF KeepsPlan, KeepsWindow, KeepsPeople, Committed!volunteerVars

LEMMA PublicCommitted ==
  ASSUME NEW v \in Volunteers, PublicRelation(db, db', v)
  PROVE  Committed!PublicStep(v)
  <1>1. ASSUME NEW sel \in SUBSET Shifts, db.registrationOpen, At(db)!_selected_shifts(sel),
               ~ At(db)!Exists(v), \A s \in sel : At(db)!CanAssign(s),
               db'.volunteerStatus = [db.volunteerStatus EXCEPT ![v] = "submitted"],
               db'.editToken = [db.editToken EXCEPT ![v] = "valid"],
               db'.anonymized = db.anonymized,
               RowsSet(db, db', v, At(db)!CreatedRows(sel)), KeepsDesk(db, db')
        PROVE  Committed!create_registration(v, sel)
    <2>1. Committed!CreatedRows(sel) = At(db)!CreatedRows(sel)
      BY CommittedComputes DEF Committed!CreatedRows, At!CreatedRows, Committed!Absent, At!Absent
    <2>2. Committed!SetRows(v, Committed!CreatedRows(sel))
      BY <1>1, <2>1, RowsSetCommitted
    <2>3. /\ ~ Committed!Exists(v) /\ Committed!_selected_shifts(sel)
          /\ \A s \in sel : Committed!CanAssign(s)
      BY <1>1, CommittedComputes
         DEF Committed!Exists, At!Exists, Committed!Absent, At!Absent
    <2>4. db'.registrationOpen = db.registrationOpen /\ db'.shift = db.shift
          /\ db'.checkin = db.checkin
      BY <1>1 DEF RowsSet, KeepsPlan, KeepsWindow, KeepsDesk
    <2>5. QED
      BY <1>1, <2>2, <2>3, <2>4 DEF Committed!create_registration
  <1>2. ASSUME NEW sel \in SUBSET Shifts, db.registrationOpen, At(db)!_selected_shifts(sel),
               db.editToken[v] = "valid", \A s \in sel : At(db)!Live(v, s) \/ At(db)!CanAssign(s),
               RowsSet(db, db', v, At(db)!UpdatedRows(v, sel)),
               KeepsPeople(db, db'), KeepsDesk(db, db')
        PROVE  Committed!update_registration(v, sel)
    <2>1. Committed!UpdatedRows(v, sel) = At(db)!UpdatedRows(v, sel)
      BY CommittedComputes
         DEF Committed!UpdatedRows, At!UpdatedRows, Committed!UpdatedRow, At!UpdatedRow,
             Committed!Live, At!Live, Committed!LiveStatuses, At!LiveStatuses,
             Committed!ACTIVE_ASSIGNMENT_STATUSES, At!ACTIVE_ASSIGNMENT_STATUSES
    <2>2. Committed!SetRows(v, Committed!UpdatedRows(v, sel))
      BY <1>2, <2>1, RowsSetCommitted
    <2>3. /\ Committed!_selected_shifts(sel)
          /\ \A s \in sel : Committed!Live(v, s) \/ Committed!CanAssign(s)
      BY <1>2, CommittedComputes
         DEF Committed!Live, At!Live, Committed!LiveStatuses, At!LiveStatuses,
             Committed!ACTIVE_ASSIGNMENT_STATUSES, At!ACTIVE_ASSIGNMENT_STATUSES
    <2>4. /\ db'.registrationOpen = db.registrationOpen /\ db'.shift = db.shift
          /\ db'.checkin = db.checkin /\ db'.volunteerStatus = db.volunteerStatus
          /\ db'.editToken = db.editToken /\ db'.anonymized = db.anonymized
      BY <1>2 DEF RowsSet, KeepsPlan, KeepsWindow, KeepsDesk, KeepsPeople
    <2>5. QED
      BY <1>2, <2>2, <2>3, <2>4
         DEF Committed!update_registration, Committed!get_volunteer_by_edit_token,
             Committed!volunteerVars
  <1>3. ASSUME NEW s \in Shifts, db.editToken[v] = "valid",
               db.assignment[v][s] \notin {Absent, "cancelled"},
               RowSet(db, db', v, s, "cancelled"), KeepsDesk(db, db')
        PROVE  Committed!cancel_assignment(v, s)
    BY <1>3, RowSetCommitted
       DEF KeepsDesk, Committed!cancel_assignment, Committed!get_volunteer_by_edit_token,
           Committed!Absent, Absent
  <1>4. QED
    BY <1>1, <1>2, <1>3 DEF PublicRelation, Committed!PublicStep

LEMMA CheckInCommitted ==
  ASSUME NEW v \in Volunteers, NEW s \in Shifts, CheckInRelation(db, db', v, s)
  PROVE  Committed!CheckInStep
  <1>1. ASSUME db.assignment[v][s] \in {"confirmed", "checked_in"},
               db'.checkin = [db.checkin EXCEPT ![s] = @ \cup {v}],
               RowSet(db, db', v, s, "checked_in")
        PROVE  Committed!check_in_assignment(v, s)
    BY <1>1, RowSetCommitted DEF Committed!check_in_assignment
  <1>2. ASSUME At(db)!HasRow(v, s), v \in db.checkin[s],
               RowSet(db, db', v, s, "attended"), KeepsDesk(db, db')
        PROVE  Committed!check_out_assignment(v, s)
    BY <1>2, RowSetCommitted
       DEF KeepsDesk, Committed!check_out_assignment, Committed!HasRow, At!HasRow,
           Committed!Absent, At!Absent
  <1>3. QED
    BY <1>1, <1>2 DEF CheckInRelation, Committed!CheckInStep

LEMMA StatusCommitted ==
  ASSUME NEW v \in Volunteers, NEW s \in Shifts, NEW status \in AssignmentStatus,
         StatusRelation(db, db', v, s, status)
  PROVE  Committed!VolunteerAdminStep(Committed!AssignmentStatus, Committed!VolunteerStatus)
  <1>1. /\ Committed!SetRow(v, s, status)
        /\ UNCHANGED <<db.registrationOpen, db.shift, Committed!volunteerVars, db.checkin>>
    BY RowSetCommitted DEF StatusRelation, KeepsDesk
  <1>2. /\ Committed!HasRow(v, s) = At(db)!HasRow(v, s)
        /\ Committed!Exists(v) = At(db)!Exists(v)
        /\ Committed!Planned(s) = At(db)!Planned(s)
        /\ Committed!FirstWaitlisted(s, v) = At(db)!FirstWaitlisted(s, v)
        /\ Committed!occupied(s) = At(db)!occupied(s)
    BY CommittedComputes
       DEF Committed!HasRow, At!HasRow, Committed!Exists, At!Exists, Committed!Planned,
           At!Planned, Committed!FirstWaitlisted, At!FirstWaitlisted, Committed!Absent,
           At!Absent
  <1>3. status \in Committed!AssignmentStatus
    BY DEF AssignmentStatus, Committed!AssignmentStatus
  <1>4. CASE At(db)!HasRow(v, s) /\ status # "checked_in"
    <2>1. Committed!change_assignment_status(v, s, status)
      BY <1>1, <1>2, <1>4 DEF Committed!change_assignment_status
    <2>2. QED
      BY <1>3, <2>1 DEF Committed!VolunteerAdminStep
  <1>5. CASE /\ At(db)!Exists(v) /\ At(db)!Planned(s) /\ ~ At(db)!HasRow(v, s)
             /\ status \in {"confirmed", "waitlisted", "pending"}
             /\ status = "confirmed" => At(db)!occupied(s) < db.shift[s].needed
    <2>1. Committed!assign_volunteer(v, s, status, TRUE)
      BY <1>1, <1>2, <1>5 DEF Committed!assign_volunteer
    <2>2. QED
      BY <1>3, <2>1 DEF Committed!VolunteerAdminStep
  <1>6. CASE /\ At(db)!FirstWaitlisted(s, v)
             /\ At(db)!occupied(s) < db.shift[s].needed
             /\ status = "confirmed"
    <2>1. Committed!promote_first_waitlisted(s)
      BY <1>1, <1>2, <1>6 DEF Committed!promote_first_waitlisted
    <2>2. QED
      BY <2>1 DEF Committed!VolunteerAdminStep
  <1>7. QED
    BY <1>4, <1>5, <1>6 DEF StatusRelation

LEMMA PersonCommitted ==
  ASSUME NEW v \in Volunteers, PersonRelation(db, db', v)
  PROVE  Committed!VolunteerAdminStep(Committed!AssignmentStatus, Committed!VolunteerStatus)
  <1>1. Committed!Exists(v) = At(db)!Exists(v)
    BY DEF Committed!Exists, At!Exists, Committed!Absent, At!Absent
  <1>2. Committed!RejectedRows(v) = At(db)!RejectedRows(v)
    BY DEF Committed!RejectedRows, At!RejectedRows, Committed!RejectedRow, At!RejectedRow,
           Committed!Absent, At!Absent
  <1>3. RowsSet(db, db', v, At(db)!RejectedRows(v)) =>
          /\ Committed!SetRows(v, Committed!RejectedRows(v))
          /\ KeepsPlan(db, db')
    BY <1>2, RowsSetCommitted DEF RowsSet
  <1>4. \/ Committed!create_volunteer_admin(v)
        \/ Committed!reject_volunteer(v)
        \/ Committed!anonymize_volunteer(v)
    BY <1>1, <1>3
       DEF PersonRelation, KeepsDesk, KeepsPlan, KeepsWindow, KeepsRows,
           Committed!create_volunteer_admin, Committed!reject_volunteer,
           Committed!anonymize_volunteer
  <1>5. QED
    BY <1>4 DEF Committed!VolunteerAdminStep

LEMMA BulkCommitted ==
  ASSUME NEW selected \in SUBSET Volunteers, BulkRelation(db, db', selected)
  PROVE  Committed!VolunteerAdminStep(Committed!AssignmentStatus, Committed!VolunteerStatus)
  <1>1. /\ selected # {} /\ \A v \in selected : Committed!Exists(v)
        /\ db'.registrationOpen = db.registrationOpen /\ db'.shift = db.shift
        /\ db'.checkin = db.checkin /\ db'.editToken = db.editToken
        /\ db'.anonymized = db.anonymized /\ db'.registered = db.registered
    BY DEF BulkRelation, KeepsPlan, KeepsWindow, KeepsDesk, Committed!Exists, At!Exists,
           Committed!Absent, At!Absent
  <1>2. ASSUME NEW status \in VolunteerStatus, status # "rejected",
               db'.volunteerStatus =
                 [v \in Volunteers |-> IF v \in selected THEN status ELSE db.volunteerStatus[v]],
               db'.assignment = db.assignment
        PROVE  Committed!bulk_volunteer_status(selected, status)
               /\ status \in Committed!VolunteerStatus
    BY <1>1, <1>2 DEF Committed!bulk_volunteer_status, VolunteerStatus, Committed!VolunteerStatus
  <1>3. ASSUME NEW status \in AssignmentStatus, status # "checked_in",
               db'.assignment = [v \in Volunteers |-> [s \in Shifts |->
                 IF v \in selected THEN At(db)!BulkRow(v, s, status) ELSE db.assignment[v][s]]],
               db'.volunteerStatus = db.volunteerStatus
        PROVE  Committed!bulk_assignment_status(selected, status)
               /\ status \in Committed!AssignmentStatus
    <2>1. \A v, s : Committed!BulkRow(v, s, status) = At(db)!BulkRow(v, s, status)
      BY DEF Committed!BulkRow, At!BulkRow, Committed!Absent, At!Absent
    <2>2. QED
      BY <1>1, <1>3, <2>1
         DEF Committed!bulk_assignment_status, Committed!volunteerVars, AssignmentStatus,
             Committed!AssignmentStatus
  <1>4. \/ \E status \in Committed!VolunteerStatus :
             Committed!bulk_volunteer_status(selected, status)
        \/ \E status \in Committed!AssignmentStatus :
             Committed!bulk_assignment_status(selected, status)
    BY <1>2, <1>3 DEF BulkRelation
  <1>5. QED
    BY <1>4 DEF Committed!VolunteerAdminStep

LEMMA PlanCommitted ==
  ASSUME PlanRelation(db, db')
  PROVE  Committed!PlanningStep(Committed!ShiftStatus)
  <1>1. UNCHANGED <<Committed!volunteerVars, db.assignment, db.registered, db.checkin>>
    BY DEF PlanRelation, KeepsPeople, KeepsRows, KeepsDesk, Committed!volunteerVars
  <1>2. /\ \A s : Committed!Planned(s) = At(db)!Planned(s)
        /\ \A v, s : Committed!HasRow(v, s) = At(db)!HasRow(v, s)
    BY DEF Committed!Planned, At!Planned, Committed!HasRow, At!HasRow, Committed!Absent,
           At!Absent
  <1>3. /\ \A form, status : Committed!ShiftFrom(form, status) = ShiftFrom(form, status)
        /\ \A row, status, needed_count : Committed!WithStatus(row, status, needed_count) =
                                            WithStatus(row, status, needed_count)
        /\ Committed!NoShift = NoShift
        /\ Committed!ShiftStatus = ShiftStatus
    BY DEF Committed!ShiftFrom, ShiftFrom, Committed!WithStatus, WithStatus,
           Committed!NoShift, NoShift, Committed!Absent, Absent, Committed!ShiftStatus,
           ShiftStatus
  <1>4. CASE db'.registrationOpen = ~ db.registrationOpen /\ db'.shift = db.shift
    BY <1>1, <1>4 DEF Committed!PlanningStep, Committed!registration_window
  <1>5. ASSUME db'.registrationOpen = db.registrationOpen, NEW s \in Shifts,
               NEW form \in ShiftForms, NEW status \in ShiftStatus,
               \/ /\ ~ At(db)!Planned(s)
                  /\ db'.shift = [db.shift EXCEPT ![s] = ShiftFrom(form, "open")]
               \/ /\ At(db)!Planned(s)
                  /\ \/ db'.shift = [db.shift EXCEPT ![s] = ShiftFrom(form, status)]
                     \/ db'.shift = [db.shift EXCEPT ![s] =
                          WithStatus(db.shift[s], status, form.needed)]
        PROVE  Committed!PlanningStep(Committed!ShiftStatus)
    <2>1. \/ Committed!create_shift(s, form)
          \/ Committed!edit_shift_submit(s, form, status)
          \/ Committed!update_shift_status(s, status, form.needed)
      BY <1>1, <1>2, <1>3, <1>5
         DEF Committed!create_shift, Committed!edit_shift_submit, Committed!update_shift_status
    <2>2. QED
      BY <1>3, <2>1 DEF Committed!PlanningStep
  <1>6. ASSUME db'.registrationOpen = db.registrationOpen, NEW s \in Shifts, At(db)!Planned(s),
               db'.shift = [db.shift EXCEPT ![s] =
                 IF \E v \in Volunteers : At(db)!HasRow(v, s)
                 THEN WithStatus(db.shift[s], "cancelled", db.shift[s].needed)
                 ELSE NoShift]
        PROVE  Committed!PlanningStep(Committed!ShiftStatus)
    <2>1. Committed!delete_or_cancel_shift(s)
      BY <1>1, <1>2, <1>3, <1>6 DEF Committed!delete_or_cancel_shift
    <2>2. QED
      BY <2>1 DEF Committed!PlanningStep
  <1>7. QED
    BY <1>4, <1>5, <1>6 DEF PlanRelation, KeepsWindow

LEMMA RelationCommitted ==
  ASSUME StepRelation(db, db')
  PROVE  Committed!Next
  BY PublicCommitted, PersonCommitted, CheckInCommitted, StatusCommitted, BulkCommitted,
     PlanCommitted DEF StepRelation, Committed!Next

-----------------------------------------------------------------------------
(***************************************************************************)
(* What the relation says of single rows: a deletion leaves no shift, rows *)
(* are appended, and only those confirmed or checked in are checked in.    *)
(***************************************************************************)
Appends(o, n, s) ==
  /\ (\A u \in Volunteers : ~ Inserted(o, n, u, s)) => n.registered[s] = o.registered[s]
  /\ \A u \in Volunteers :
       Inserted(o, n, u, s) => n.registered[s] = Append(o.registered[s], u)

LEMMA RowsSetOrder ==
  ASSUME NEW o \in Tables, NEW n, NEW v \in Volunteers, NEW rows, RowsSet(o, n, v, rows),
         NEW s \in Shifts
  PROVE  /\ n.shift = o.shift
         /\ Appends(o, n, s)
  <1>1. \A u \in Volunteers : n.assignment[u] = IF u = v THEN rows ELSE o.assignment[u]
    BY DEF RowsSet, Tables
  <1>2. n.registered[s] = IF o.assignment[v][s] = Absent /\ rows[s] # Absent
                          THEN Append(o.registered[s], v) ELSE o.registered[s]
    BY DEF RowsSet, At!AppendRows, At!HasRow, At!Absent, Absent
  <1>3. n.shift = o.shift
    BY DEF RowsSet, KeepsPlan
  <1>4. QED
    BY <1>1, <1>2, <1>3 DEF Inserted, Appends

LEMMA RelationShape ==
  ASSUME NEW o \in Tables, NEW n, StepRelation(o, n), NEW s \in Shifts
  PROVE  /\ o.shift[s].status # Absent /\ n.shift[s].status = Absent => n.shift[s] = NoShift
         /\ Appends(o, n, s)
         /\ \A u \in Volunteers : u \in n.checkin[s] /\ u \notin o.checkin[s] =>
              /\ o.assignment[u][s] \in {"confirmed", "checked_in"}
              /\ n.assignment[u][s] = "checked_in"
  <1> DEFINE Shape ==
        /\ o.shift[s].status # Absent /\ n.shift[s].status = Absent => n.shift[s] = NoShift
        /\ Appends(o, n, s)
        /\ \A u \in Volunteers : u \in n.checkin[s] /\ u \notin o.checkin[s] =>
             /\ o.assignment[u][s] \in {"confirmed", "checked_in"}
             /\ n.assignment[u][s] = "checked_in"
  <1>1. ASSUME KeepsPlan(o, n), KeepsRows(o, n), KeepsDesk(o, n)
        PROVE  Shape
    BY <1>1 DEF KeepsPlan, KeepsRows, KeepsDesk, Inserted, Appends
  <1>2. ASSUME NEW v \in Volunteers, NEW rows, RowsSet(o, n, v, rows), KeepsDesk(o, n)
        PROVE  Shape
    <2>1. /\ n.shift = o.shift
          /\ Appends(o, n, s)
      BY <1>2, RowsSetOrder
    <2>2. n.shift[s] = o.shift[s] /\ n.checkin[s] = o.checkin[s]
      BY <1>2, <2>1 DEF KeepsDesk
    <2>3. QED
      BY <2>1, <2>2, Zenon
  <1>3. ASSUME NEW v \in Volunteers, PublicRelation(o, n, v)
        PROVE  Shape
    <2>1. KeepsDesk(o, n) /\ \E rows : RowsSet(o, n, v, rows)
      BY <1>3 DEF PublicRelation, RowSet
    <2>2. QED
      BY <1>2, <2>1
  <1>4. ASSUME NEW v \in Volunteers, PersonRelation(o, n, v)
        PROVE  Shape
    BY <1>1, <1>2, <1>4 DEF PersonRelation
  <1>5. ASSUME NEW v \in Volunteers, NEW x \in Shifts, NEW status,
               StatusRelation(o, n, v, x, status)
        PROVE  Shape
    BY <1>2, <1>5 DEF StatusRelation, RowSet
  <1>6. ASSUME NEW v \in Volunteers, NEW x \in Shifts, CheckInRelation(o, n, v, x)
        PROVE  Shape
    <2>1. CASE KeepsDesk(o, n)
      BY <1>2, <1>6, <2>1 DEF CheckInRelation, RowSet
    <2>2. CASE ~ KeepsDesk(o, n)
      <3>1. /\ o.assignment[v][x] \in {"confirmed", "checked_in"}
            /\ n.checkin = [o.checkin EXCEPT ![x] = @ \cup {v}]
            /\ RowsSet(o, n, v, [o.assignment[v] EXCEPT ![x] = "checked_in"])
        BY <1>6, <2>2 DEF CheckInRelation, RowSet
      <3>2. n.assignment[v][x] = "checked_in"
        BY <3>1 DEF RowsSet, Tables
      <3>3. \A u \in Volunteers : u \in n.checkin[s] /\ u \notin o.checkin[s] => u = v /\ s = x
        BY <3>1 DEF Tables
      <3>4. /\ n.shift = o.shift
            /\ Appends(o, n, s)
        BY <3>1, RowsSetOrder
      <3>5. QED
        BY <3>1, <3>2, <3>3, <3>4
    <2>3. QED
      BY <2>1, <2>2
  <1>7. ASSUME NEW selected \in SUBSET Volunteers, BulkRelation(o, n, selected)
        PROVE  Shape
    <2>1. \A u \in Volunteers : ~ Inserted(o, n, u, s)
      <3>1. \/ n.assignment = o.assignment
            \/ \E status \in AssignmentStatus :
                 n.assignment = [v \in Volunteers |-> [x \in Shifts |->
                   IF v \in selected THEN At(o)!BulkRow(v, x, status) ELSE o.assignment[v][x]]]
        BY <1>7 DEF BulkRelation
      <3>2. ASSUME NEW u \in Volunteers, o.assignment[u][s] = Absent
            PROVE  n.assignment[u][s] = Absent
        BY <3>1, <3>2 DEF At!BulkRow, At!Absent, Absent
      <3>3. QED
        BY <3>2 DEF Inserted
    <2>2. QED
      BY <1>7, <2>1 DEF BulkRelation, KeepsPlan, KeepsDesk, Appends
  <1>8. ASSUME PlanRelation(o, n)
        PROVE  Shape
    <2>1. \A u \in Volunteers : ~ Inserted(o, n, u, s)
      BY <1>8 DEF PlanRelation, KeepsRows, Inserted
    <2>2. o.shift[s].status # Absent /\ n.shift[s].status = Absent => n.shift[s] = NoShift
      <3>1. CASE n.shift = o.shift
        BY <3>1
      <3>2. CASE n.shift # o.shift
        <4> DEFINE NeverEmpty(row) == row.status = Absent => row = NoShift
                   Replaces(x, row) == n.shift = [o.shift EXCEPT ![x] = row]
        <4>1. PICK x \in Shifts : \E row : Replaces(x, row) /\ NeverEmpty(row)
          <5>1. /\ \A form, status : ShiftFrom(form, status).status = status
                /\ \A row, status, needed : WithStatus(row, status, needed).status = status
            BY DEF ShiftFrom, WithStatus
          <5>2. /\ \A form : NeverEmpty(ShiftFrom(form, "open"))
                /\ \A form : \A status \in ShiftStatus : NeverEmpty(ShiftFrom(form, status))
                /\ \A row, needed : \A status \in ShiftStatus :
                     NeverEmpty(WithStatus(row, status, needed))
                /\ \A row, needed : NeverEmpty(WithStatus(row, "cancelled", needed))
                /\ NeverEmpty(NoShift)
            BY <5>1 DEF Absent, ShiftStatus
          <5>3. \E x \in Shifts :
                  \/ \E form \in ShiftForms, status \in ShiftStatus :
                       \/ Replaces(x, ShiftFrom(form, "open"))
                       \/ Replaces(x, ShiftFrom(form, status))
                       \/ Replaces(x, WithStatus(o.shift[x], status, form.needed))
                  \/ Replaces(x, WithStatus(o.shift[x], "cancelled", o.shift[x].needed))
                  \/ Replaces(x, NoShift)
            BY <1>8, <3>2, Zenon DEF PlanRelation
          <5> HIDE DEF Shape, NeverEmpty, Replaces
          <5>4. QED
            BY <5>2, <5>3, Zenon
        <4>2. PICK row : Replaces(x, row) /\ NeverEmpty(row)
          BY <4>1
        <4>3. n.shift[s] = IF s = x THEN row ELSE o.shift[s]
          BY <4>2 DEF Tables
        <4>4. QED
          BY <4>2, <4>3
      <3>3. QED
        BY <3>1, <3>2
    <2>3. QED
      BY <1>8, <2>1, <2>2 DEF PlanRelation, KeepsRows, KeepsDesk, Appends
  <1>9. QED
    BY <1>3, <1>4, <1>5, <1>6, <1>7, <1>8 DEF StepRelation

-----------------------------------------------------------------------------
(***************************************************************************)
(* Who has a check-in record has a row: that of a deleted shift would be   *)
(* removed by the cascade although the handler left it.                    *)
(***************************************************************************)
DeskHasRows(d) ==
  \A v \in Volunteers, s \in Shifts : v \in d.checkin[s] => d.assignment[v][s] # Absent

LEMMA AppendIsInsert ==
  ASSUME NEW queue \in Seq(Volunteers), NEW v \in Volunteers
  PROVE  Ext!InsertAt(queue, Len(queue) + 1, v) = Append(queue, v)
  <1> DEFINE longer == Ext!InsertAt(queue, Len(queue) + 1, v)
  <1>1. Len(queue) \in 0..Len(queue)
    OBVIOUS
  <1>2. Lengthens(longer, queue, Len(queue), v)
    BY <1>1, InsertedInQueue
  <1> HIDE DEF longer
  <1>3. /\ longer \in Seq(Volunteers) /\ Len(longer) = Len(queue) + 1
        /\ \A i \in 1..Len(queue) : longer[i] = queue[i]
        /\ longer[Len(queue) + 1] = v
    BY <1>2 DEF Lengthens
  <1>4. longer = Append(queue, v)
    BY <1>3
  <1>5. QED
    BY <1>4 DEF longer

(***************************************************************************)
(* Merging into the very rows the handler read leaves what it decided.     *)
(***************************************************************************)
LEMMA FreshMerge ==
  ASSUME NEW r, NEW rank, NEW m, Merging(r, rank, m), Sound(db), Deciding(r), Drift(db, r),
         r.seen = db, StepRelation(r.seen, r.wanted), DeskHasRows(db)
  PROVE  m = r.wanted
  <1> DEFINE n == r.wanted
  <1>0. HasColumns(m, r, rank)
    BY MergedColumns
  <1>1. m \in Tables /\ n \in Tables /\ db \in Tables
    BY MergedType DEF Deciding, Decision, Sound
  <1>2. \A s \in Shifts : Listed(db.registered[s], db.assignment, s)
    BY DEF Sound
  <1>3. \A s \in Shifts : DeletesShift(r, s) =>
          \A v \in Volunteers : n.assignment[v][s] = Absent /\ db.assignment[v][s] = Absent
    BY DeletedIsEmpty
  <1>4. m.registrationOpen = n.registrationOpen
    BY <1>0 DEF HasColumns, Column
  <1>5. m.shift = n.shift
    <2> SUFFICES ASSUME NEW s \in Shifts
                 PROVE  m.shift[s] = n.shift[s]
      BY <1>1 DEF Tables
    <2>1. m.shift[s] = MergedShift(r, s)
      BY <1>0 DEF HasColumns
    <2>2. CASE DeletesShift(r, s)
      BY <1>1, <2>1, <2>2, RelationShape DEF MergedShift, DeletesShift
    <2>3. CASE ~ DeletesShift(r, s)
      <3> DEFINE a == db.shift[s]
                 b == n.shift[s]
      <3>1. a \in ShiftRow /\ b \in ShiftRow
        BY <1>1 DEF Tables
      <3>2. m.shift[s] = [status |-> Column(a.status, a.status, b.status),
                          needed |-> Column(a.needed, a.needed, b.needed),
                          waitlist |-> Column(a.waitlist, a.waitlist, b.waitlist),
                          starts |-> Column(a.starts, a.starts, b.starts),
                          ends |-> Column(a.ends, a.ends, b.ends)]
        BY <2>1, <2>3 DEF MergedShift
      <3> HIDE DEF a, b
      <3>3. m.shift[s] = [status |-> b.status, needed |-> b.needed, waitlist |-> b.waitlist,
                          starts |-> b.starts, ends |-> b.ends]
        BY <3>2 DEF Column
      <3>4. m.shift[s] = b
        BY <3>1, <3>3 DEF ShiftRow
      <3>5. QED
        BY <3>4 DEF b
    <2>4. QED
      BY <2>2, <2>3
  <1>6. m.volunteerStatus = n.volunteerStatus
    <2>1. \A v \in Volunteers : m.volunteerStatus[v] = n.volunteerStatus[v]
      BY <1>0 DEF HasColumns, Column
    <2>2. QED
      BY <1>1, <2>1 DEF Tables
  <1>7. m.editToken = n.editToken
    <2>1. \A v \in Volunteers : m.editToken[v] = n.editToken[v]
      BY <1>0 DEF HasColumns, Column
    <2>2. QED
      BY <1>1, <2>1 DEF Tables
  <1>8. m.anonymized = n.anonymized
    <2>1. db.anonymized \subseteq n.anonymized
      BY DEF Deciding, Decision, NothingLost
    <2>2. QED
      BY <1>0, <2>1 DEF HasColumns
  <1>9. m.assignment = n.assignment
    <2>1. ASSUME NEW v \in Volunteers, NEW s \in Shifts
          PROVE  m.assignment[v][s] = n.assignment[v][s]
      <3>1. m.assignment[v][s] = MergedRow(r, v, s)
        BY <1>0 DEF HasColumns
      <3>2. QED
        BY <1>3, <3>1 DEF MergedRow, Column
    <2>2. \A v \in Volunteers : m.assignment[v] = n.assignment[v]
      BY <1>1, <2>1 DEF Tables
    <2>3. QED
      BY <1>1, <2>2 DEF Tables
  <1>10. m.registered = n.registered
    <2> SUFFICES ASSUME NEW s \in Shifts
                 PROVE  m.registered[s] = n.registered[s]
      BY <1>1 DEF Tables
    <2>1. m.registered[s] = MergedOrder(r, rank, s)
      BY <1>0 DEF HasColumns
    <2>2. db.registered[s] \in Seq(Volunteers) /\ n.registered[s] \in Seq(Volunteers)
      BY <1>1 DEF Tables
    <2>3. Appends(db, n, s)
      BY <1>1, RelationShape
    <2>4. CASE DeletesShift(r, s)
      <3>1. Listed(n.registered[s], n.assignment, s)
        BY DEF Deciding, Decision, Sound
      <3>2. Len(n.registered[s]) = 0
        <4>1. \A i \in 1..Len(n.registered[s]) : n.registered[s][i] \in Volunteers
          BY <2>2
        <4>2. \A i \in 1..Len(n.registered[s]) : n.assignment[n.registered[s][i]][s] # Absent
          BY <3>1 DEF Listed
        <4>3. ~ \E i \in 1..Len(n.registered[s]) : TRUE
          BY <1>3, <2>4, <4>1, <4>2
        <4>4. Len(n.registered[s]) \in Nat
          BY <2>2
        <4>5. QED
          BY <4>3, <4>4
      <3>3. n.registered[s] = <<>>
        BY <2>2, <3>2
      <3>4. QED
        BY <2>1, <2>4, <3>3 DEF MergedOrder
    <2>5. CASE ~ DeletesShift(r, s) /\ \A v \in Volunteers : ~ Inserts(r, v, s)
      BY <2>1, <2>3, <2>5 DEF MergedOrder, Appends, Inserts, Inserted
    <2>6. CASE ~ DeletesShift(r, s) /\ \E v \in Volunteers : Inserts(r, v, s)
      <3> DEFINE v == CHOOSE x \in Volunteers : Inserts(r, x, s)
      <3>1. v \in Volunteers /\ Inserts(r, v, s)
        BY <2>6
      <3>2. m.registered[s] = Ext!InsertAt(db.registered[s], rank[s] + 1, v)
        BY <2>1, <2>6 DEF MergedOrder
      <3> HIDE DEF v
      <3>3. rank[s] \in Ranks(r, s)
        BY <2>6 DEF Merging, InsertedRank
      <3>4. rank[s] = Len(db.registered[s])
        <4>1. \A i \in 1..Len(db.registered[s]) : i <= rank[s]
          BY <1>2, <3>3 DEF Listed, Ranks
        <4>2. rank[s] \in 0..Len(db.registered[s]) /\ Len(db.registered[s]) \in Nat
          BY <2>2, <3>3 DEF Ranks
        <4>3. CASE Len(db.registered[s]) = 0
          BY <4>2, <4>3
        <4>4. CASE Len(db.registered[s]) # 0
          BY <4>1, <4>2, <4>4
        <4>5. QED
          BY <4>3, <4>4
      <3>5. m.registered[s] = Append(db.registered[s], v)
        BY <2>2, <3>1, <3>2, <3>4, AppendIsInsert
      <3>6. n.registered[s] = Append(db.registered[s], v)
        BY <2>3, <3>1 DEF Appends, Inserts, Inserted
      <3>7. QED
        BY <3>5, <3>6
    <2>7. QED
      BY <2>4, <2>5, <2>6
  <1>11. m.checkin = n.checkin
    <2> SUFFICES ASSUME NEW s \in Shifts
                 PROVE  m.checkin[s] = n.checkin[s]
      BY <1>1 DEF Tables
    <2>1. db.checkin[s] \subseteq n.checkin[s]
      BY DEF Deciding, Decision, NothingLost
    <2>2. n.checkin[s] \subseteq Volunteers
      BY <1>1 DEF Tables
    <2>3. CASE DeletesShift(r, s)
      <3>1. ASSUME NEW v \in n.checkin[s]
            PROVE  FALSE
        <4>1. v \in Volunteers /\ db.assignment[v][s] = Absent
          BY <1>3, <2>2, <2>3, <3>1
        <4>2. v \notin db.checkin[s]
          BY <4>1 DEF DeskHasRows
        <4>3. db.assignment[v][s] \in {"confirmed", "checked_in"}
          BY <1>1, <3>1, <4>1, <4>2, RelationShape
        <4>4. QED
          BY <4>1, <4>3 DEF Absent
      <3>2. QED
        BY <1>0, <2>3, <3>1 DEF HasColumns
    <2>4. CASE ~ DeletesShift(r, s)
      BY <1>0, <2>1, <2>4 DEF HasColumns
    <2>5. QED
      BY <2>3, <2>4
  <1>12. \A d \in Tables :
           d = [registrationOpen |-> d.registrationOpen, shift |-> d.shift,
                volunteerStatus |-> d.volunteerStatus, editToken |-> d.editToken,
                anonymized |-> d.anonymized, assignment |-> d.assignment,
                registered |-> d.registered, checkin |-> d.checkin]
    BY DEF Tables
  <1> HIDE DEF n
  <1>13. m = n
    BY <1>1, <1>4, <1>5, <1>6, <1>7, <1>8, <1>9, <1>10, <1>11, <1>12, Zenon
  <1>14. QED
    BY <1>13 DEF n

LEMMA MergedDesk ==
  ASSUME NEW r, NEW rank, NEW m, Merging(r, rank, m), Sound(db), Deciding(r), Drift(db, r),
         StepRelation(r.seen, r.wanted), DeskHasRows(db)
  PROVE  DeskHasRows(m)
  <1> SUFFICES ASSUME NEW v \in Volunteers, NEW s \in Shifts, v \in m.checkin[s]
               PROVE  m.assignment[v][s] # Absent
    BY DEF DeskHasRows
  <1>0. HasColumns(m, r, rank)
    BY MergedColumns
  <1>1. ~ DeletesShift(r, s) /\ (v \in db.checkin[s] \/ ChecksIn(r, v, s))
    BY <1>0 DEF HasColumns, ChecksIn
  <1>2. db.assignment[v][s] # Absent
    <2>1. CASE v \in db.checkin[s]
      BY <2>1 DEF DeskHasRows
    <2>2. CASE ChecksIn(r, v, s)
      <3>1. /\ r.seen.assignment[v][s] \in {"confirmed", "checked_in"}
            /\ r.wanted.assignment[v][s] = "checked_in"
        BY <2>2, RelationShape DEF ChecksIn, Deciding, Decision, Sound
      <3>2. r.seen.assignment[v][s] # "checked_in"
        BY <2>2 DEF ChecksIn, Deciding, Decision, Sound
      <3>3. Updates(r, v, s)
        BY <3>1, <3>2 DEF Updates, Absent
      <3>4. QED
        BY <3>3 DEF Merging, Refused
    <2>3. QED
      BY <1>1, <2>1, <2>2
  <1>3. QED
    BY <1>1, <1>2, MergedRows

-----------------------------------------------------------------------------
(***************************************************************************)
(* The inductive invariant: a pending request carries the step of          *)
(* Registrations its handler made of the rows it loaded.                   *)
(***************************************************************************)
SerialInv ==
  /\ RequestsInv
  /\ DeskHasRows(db)
  /\ \A t \in Busy : StepRelation(request[t].seen, request[t].wanted)

LEMMA SerialInit == RequestsInit => SerialInv
  <1> SUFFICES ASSUME RequestsInit
               PROVE  SerialInv
    OBVIOUS
  <1>1. Busy = {} /\ \A s \in Shifts : db.checkin[s] = {}
    BY DEF RequestsInit, Busy, Init, Session
  <1>2. QED
    BY <1>1, RequestsInitInv DEF SerialInv, DeskHasRows

LEMMA HandledSerial ==
  ASSUME SerialInv, RequestsInv', Session = db, Next, NEW t, NEW origin, Handled(t, origin)
  PROVE  SerialInv'
  <1> PICK n : n = Session'
    OBVIOUS
  <1> PICK o : o = db
    OBVIOUS
  <1>1. StepRelation(o, n)
    BY StepRelates
  <1>2. /\ Busy' = Busy \cup {t}
        /\ request'[t] = [origin |-> origin, seen |-> o, wanted |-> n]
        /\ \A u \in Busy : u # t => request'[u] = request[u]
        /\ db' = o
    BY DEF Handled, Busy
  <1> PICK later : later = request'
    OBVIOUS
  <1>3. \A u \in Busy' : StepRelation(later[u].seen, later[u].wanted)
    BY <1>1, <1>2 DEF SerialInv
  <1>4. DeskHasRows(db')
    BY <1>2 DEF SerialInv
  <1>5. QED
    BY <1>3, <1>4 DEF SerialInv

LEMMA CommitSerial ==
  ASSUME SerialInv, RequestsInv', NEW t, Commit(t)
  PROVE  /\ SerialInv'
         /\ request[t].seen = db => Committed!Next \/ UNCHANGED db
  <1> PICK m : m = db'
    OBVIOUS
  <1> PICK r : r = request[t]
    OBVIOUS
  <1>1. /\ t \in Busy /\ Busy' = Busy \ {t}
        /\ \A u \in Busy' : request'[u] = request[u]
        /\ m = db \/ \E rank : Merging(r, rank, m)
    BY CommitCases
  <1>2. /\ Sound(db) /\ Deciding(r) /\ Drift(db, r)
        /\ StepRelation(r.seen, r.wanted) /\ DeskHasRows(db)
    BY <1>1 DEF SerialInv, RequestsInv
  <1>3. DeskHasRows(m)
    BY <1>1, <1>2, MergedDesk
  <1> PICK later : later = request'
    OBVIOUS
  <1>4. \A u \in Busy' : StepRelation(later[u].seen, later[u].wanted)
    BY <1>1 DEF SerialInv
  <1>5. SerialInv'
    <2>1. DeskHasRows(db')
      BY <1>3
    <2>2. QED
      BY <1>4, <2>1 DEF SerialInv
  <1>6. ASSUME request[t].seen = db
        PROVE  Committed!Next \/ UNCHANGED db
    <2>1. CASE m = db
      BY <2>1
    <2>2. CASE \E rank : Merging(r, rank, m)
      <3>1. m = r.wanted
        BY <1>2, <1>6, <2>2, FreshMerge
      <3>2. StepRelation(db, db')
        BY <1>2, <1>6, <3>1
      <3>3. QED
        BY <3>2, RelationCommitted
    <2>3. QED
      BY <1>1, <2>1, <2>2
  <1>7. QED
    BY <1>5, <1>6

LEMMA SerialStep ==
  ASSUME SerialInv, RequestsInv', [RequestsNext]_requestVars
  PROVE  SerialInv'
  <1>1. ASSUME NEW t \in Threads, HandlePublic(t)
        PROVE  SerialInv'
    BY <1>1, HandledSerial DEF HandlePublic, Next
  <1>2. ASSUME NEW t \in Threads, HandleCheckIn(t)
        PROVE  SerialInv'
    BY <1>2, HandledSerial DEF HandleCheckIn, Next
  <1>3. ASSUME NEW t \in Threads,
               HandleAdmin(t, AssignmentStatus, VolunteerStatus, ShiftStatus)
        PROVE  SerialInv'
    BY <1>3, HandledSerial DEF HandleAdmin, Next
  <1>4. ASSUME NEW t \in Threads, Commit(t)
        PROVE  SerialInv'
    BY <1>4, CommitSerial
  <1>5. ASSUME UNCHANGED <<db, request>>
        PROVE  SerialInv'
    BY <1>5 DEF SerialInv, Busy
  <1>6. QED
    BY <1>1, <1>2, <1>3, <1>4, <1>5 DEF RequestsNext, get_db, requestVars

THEOREM SerialInvariant == RequestsSpec => []SerialInv
  <1>1. SerialInv /\ RequestsInv' /\ [RequestsNext]_requestVars => SerialInv'
    BY SerialStep
  <1>2. QED
    BY <1>1, SerialInit, RequestsInvariant, PTL DEF RequestsSpec

(***************************************************************************)
(* A commit whose handler read the rows as they still are is a step of     *)
(* Registrations: the merge is then what the handler left, whatever other  *)
(* requests are pending. Every anomaly needs a stale read.                 *)
(***************************************************************************)
THEOREM FreshCommitsAreSerial == RequestsSpec => FreshCommitIsSerial
  <1>1. SerialInv /\ RequestsInv' /\ [RequestsNext]_requestVars =>
          [\A t \in Busy :
             t \notin DOMAIN request' /\ request[t].seen = db =>
               Committed!Next \/ UNCHANGED db]_requestVars
    <2> SUFFICES ASSUME SerialInv, RequestsInv', RequestsNext, NEW t \in Busy,
                        t \notin DOMAIN request', request[t].seen = db
                 PROVE  Committed!Next \/ UNCHANGED db
      OBVIOUS
    <2>1. PICK u \in Threads : Commit(u)
      BY DEF RequestsNext, HandlePublic, HandleCheckIn, HandleAdmin, Handled, get_db, Busy
    <2>2. u = t
      BY <2>1, CommitCases DEF Busy
    <2>3. QED
      BY <2>1, <2>2, CommitSerial
  <1>2. QED
    BY <1>1, SerialInvariant, RequestsInvariant, PTL DEF RequestsSpec, FreshCommitIsSerial

(***************************************************************************)
(* A server with one worker thread implements Registrations: handlers run  *)
(* one after the other, so that no read is ever stale.                     *)
(***************************************************************************)
OneThread == \A t, u \in Threads : t = u

NothingStale == \A t \in Busy : t \in Threads /\ request[t].seen = db

THEOREM OneThreadIsSerial ==
  ASSUME OneThread
  PROVE  RequestsSpec => Committed!Spec
  <1>1. RequestsInit => NothingStale
    BY DEF RequestsInit, NothingStale, Busy
  <1>2. NothingStale /\ [RequestsNext]_requestVars => NothingStale'
    <2> SUFFICES ASSUME NothingStale, [RequestsNext]_requestVars
                 PROVE  NothingStale'
      OBVIOUS
    <2>1. ASSUME NEW t \in Threads, NEW origin, Handled(t, origin)
          PROVE  NothingStale'
      BY <2>1 DEF Handled, NothingStale, Busy
    <2>2. ASSUME NEW t \in Threads, Commit(t)
          PROVE  NothingStale'
      <3>1. Busy' = Busy \ {t}
        BY <2>2, CommitCases
      <3>2. Busy' = {}
        BY <3>1 DEF NothingStale, OneThread
      <3>3. QED
        BY <3>2 DEF NothingStale
    <2>3. ASSUME UNCHANGED <<db, request>>
          PROVE  NothingStale'
      BY <2>3 DEF NothingStale, Busy
    <2>4. QED
      BY <2>1, <2>2, <2>3
         DEF RequestsNext, HandlePublic, HandleCheckIn, HandleAdmin, get_db, requestVars
  <1>3. RequestsInit => Committed!Init
    BY DEF RequestsInit, Init, Session, Committed!Init, NoShift, Committed!NoShift, ShiftFrom,
           Committed!ShiftFrom, Absent, Committed!Absent
  <1>4. SerialInv /\ RequestsInv' /\ NothingStale /\ [RequestsNext]_requestVars =>
          [Committed!Next]_(Committed!vars)
    <2> SUFFICES ASSUME SerialInv, RequestsInv', NothingStale, [RequestsNext]_requestVars
                 PROVE  Committed!Next \/ UNCHANGED db
      BY DEF Committed!vars, Committed!volunteerVars
    <2>1. ASSUME NEW t \in Threads, Commit(t)
          PROVE  Committed!Next \/ UNCHANGED db
      BY <2>1, CommitCases, CommitSerial DEF NothingStale
    <2>2. QED
      BY <2>1 DEF RequestsNext, HandlePublic, HandleCheckIn, HandleAdmin, Handled, get_db,
                  requestVars
  <1>5. QED
    BY <1>1, <1>2, <1>3, <1>4, SerialInvariant, RequestsInvariant, PTL
       DEF RequestsSpec, Committed!Spec

-----------------------------------------------------------------------------
(***************************************************************************)
(* What is proved of the handlers alone therefore holds of a server with   *)
(* one worker thread. The theorems about Registrations are taken over for  *)
(* the committed rows; the two instances agree operator by operator.       *)
(***************************************************************************)
Alone == INSTANCE RegistrationsProofs WITH
  registrationOpen <- db.registrationOpen, shift <- db.shift,
  volunteerStatus <- db.volunteerStatus, editToken <- db.editToken,
  anonymized <- db.anonymized, assignment <- db.assignment,
  registered <- db.registered, checkin <- db.checkin

LEMMA SameCount == \A S : Committed!Cardinality(S) = Alone!Cardinality(S)
  BY Zenon DEF Committed!Cardinality, Alone!Cardinality

LEMMA SameRoom ==
  ASSUME NEW s
  PROVE  /\ Committed!CanAssign(s) <=> Alone!CanAssign(s)
         /\ Committed!_assignment_status(s) = Alone!_assignment_status(s)
         /\ Committed!occupied(s) = Alone!occupied(s)
         /\ \A v : Committed!FirstWaitlisted(s, v) <=> Alone!FirstWaitlisted(s, v)
  <1>1. \A statuses : Committed!Holders(s, statuses) = Alone!Holders(s, statuses)
    BY DEF Committed!Holders, Alone!Holders
  <1>2. Committed!occupied(s) = Alone!occupied(s)
    BY <1>1, SameCount DEF Committed!occupied, Alone!occupied, Committed!OccupyingStatuses,
       Alone!OccupyingStatuses
  <1>3. Committed!available_places(s) = Alone!available_places(s)
    BY <1>1, SameCount DEF Committed!available_places, Alone!available_places,
       Committed!ACTIVE_ASSIGNMENT_STATUSES, Alone!ACTIVE_ASSIGNMENT_STATUSES
  <1>4. Committed!WaitlistHasRoom(s) <=> Alone!WaitlistHasRoom(s)
    BY <1>1, SameCount DEF Committed!WaitlistHasRoom, Alone!WaitlistHasRoom
  <1>5. \A v : Committed!FirstWaitlisted(s, v) <=> Alone!FirstWaitlisted(s, v)
    BY DEF Committed!FirstWaitlisted, Alone!FirstWaitlisted
  <1>6. QED
    BY <1>2, <1>3, <1>4, <1>5
       DEF Committed!CanAssign, Alone!CanAssign, Committed!_assignment_status,
           Alone!_assignment_status

LEMMA SameSelection ==
  ASSUME NEW sel
  PROVE  /\ Committed!_selected_shifts(sel) <=> Alone!_selected_shifts(sel)
         /\ Committed!CreatedRows(sel) = Alone!CreatedRows(sel)
         /\ \A v, s : Committed!Live(v, s) <=> Alone!Live(v, s)
         /\ \A v : Committed!UpdatedRows(v, sel) = Alone!UpdatedRows(v, sel)
  <1>1. Committed!_selected_shifts(sel) <=> Alone!_selected_shifts(sel)
    BY DEF Committed!_selected_shifts, Alone!_selected_shifts, Committed!Neighbours,
           Alone!Neighbours
  <1>2. Committed!CreatedRows(sel) = Alone!CreatedRows(sel)
    BY SameRoom DEF Committed!CreatedRows, Alone!CreatedRows, Committed!Absent, Alone!Absent
  <1>3. \A v, s : Committed!Live(v, s) <=> Alone!Live(v, s)
    BY DEF Committed!Live, Alone!Live, Committed!LiveStatuses, Alone!LiveStatuses,
           Committed!ACTIVE_ASSIGNMENT_STATUSES, Alone!ACTIVE_ASSIGNMENT_STATUSES
  <1>4. \A v, s : Committed!UpdatedRow(v, sel, s) = Alone!UpdatedRow(v, sel, s)
    BY <1>3, SameRoom DEF Committed!UpdatedRow, Alone!UpdatedRow
  <1>5. \A v : Committed!UpdatedRows(v, sel) = Alone!UpdatedRows(v, sel)
    BY <1>4 DEF Committed!UpdatedRows, Alone!UpdatedRows
  <1>6. QED
    BY <1>1, <1>2, <1>3, <1>5

LEMMA SameNext == Committed!Next <=> Alone!Next
  <1> USE DEF Committed!Absent, Alone!Absent, Committed!Exists, Alone!Exists,
              Committed!Planned, Alone!Planned, Committed!HasRow, Alone!HasRow,
              Committed!volunteerVars, Alone!volunteerVars,
              Committed!AppendRows, Alone!AppendRows, Committed!SetRows,
              Alone!SetRows, Committed!SetRow, Alone!SetRow
  <1>1. ASSUME NEW v, NEW sel
        PROVE  Committed!create_registration(v, sel) <=> Alone!create_registration(v, sel)
    <2>1. \A s \in sel : Committed!CanAssign(s) <=> Alone!CanAssign(s)
      BY SameRoom
    <2>2. /\ Committed!_selected_shifts(sel) <=> Alone!_selected_shifts(sel)
          /\ Committed!CreatedRows(sel) = Alone!CreatedRows(sel)
      BY SameSelection
    <2>3. QED
      BY <2>1, <2>2 DEF Committed!create_registration, Alone!create_registration
  <1>2. ASSUME NEW v, NEW sel
        PROVE  Committed!update_registration(v, sel) <=> Alone!update_registration(v, sel)
    <2>1. \A s \in sel : /\ Committed!CanAssign(s) <=> Alone!CanAssign(s)
                         /\ Committed!Live(v, s) <=> Alone!Live(v, s)
      BY SameRoom, SameSelection
    <2>2. /\ Committed!_selected_shifts(sel) <=> Alone!_selected_shifts(sel)
          /\ Committed!UpdatedRows(v, sel) = Alone!UpdatedRows(v, sel)
      BY SameSelection
    <2>3. QED
      BY <2>1, <2>2
         DEF Committed!update_registration, Alone!update_registration,
             Committed!get_volunteer_by_edit_token, Alone!get_volunteer_by_edit_token
  <1>3. \A v, s :
          Committed!cancel_assignment(v, s) <=> Alone!cancel_assignment(v, s)
    BY DEF Committed!cancel_assignment, Alone!cancel_assignment,
           Committed!get_volunteer_by_edit_token,
           Alone!get_volunteer_by_edit_token
  <1>4. \A v :
          Committed!create_volunteer_admin(v) <=> Alone!create_volunteer_admin(v)
    BY DEF Committed!create_volunteer_admin, Alone!create_volunteer_admin
  <1>5. \A v, s, status :
          Committed!change_assignment_status(v, s, status)
            <=> Alone!change_assignment_status(v, s, status)
    BY DEF Committed!change_assignment_status, Alone!change_assignment_status
  <1>6. \A v, s, status, override_conflict :
          Committed!assign_volunteer(v, s, status, override_conflict)
            <=> Alone!assign_volunteer(v, s, status, override_conflict)
    BY SameRoom DEF Committed!assign_volunteer, Alone!assign_volunteer,
           Committed!change_assignment_status,
           Alone!change_assignment_status, Committed!Conflicts,
           Alone!Conflicts, Committed!Overlap, Alone!Overlap,
           Committed!ACTIVE_ASSIGNMENT_STATUSES,
           Alone!ACTIVE_ASSIGNMENT_STATUSES
  <1>7. \A s :
          Committed!promote_first_waitlisted(s) <=> Alone!promote_first_waitlisted(s)
    BY SameRoom DEF Committed!promote_first_waitlisted,
           Alone!promote_first_waitlisted
  <1>8. \A v : Committed!reject_volunteer(v) <=> Alone!reject_volunteer(v)
    BY DEF Committed!reject_volunteer, Alone!reject_volunteer,
           Committed!RejectedRows, Alone!RejectedRows, Committed!RejectedRow,
           Alone!RejectedRow
  <1>9. \A v :
          Committed!anonymize_volunteer(v) <=> Alone!anonymize_volunteer(v)
    BY DEF Committed!anonymize_volunteer, Alone!anonymize_volunteer
  <1>10. \A selected, status :
          Committed!bulk_volunteer_status(selected, status)
            <=> Alone!bulk_volunteer_status(selected, status)
    BY DEF Committed!bulk_volunteer_status, Alone!bulk_volunteer_status
  <1>11. \A selected, status :
          Committed!bulk_assignment_status(selected, status)
            <=> Alone!bulk_assignment_status(selected, status)
    BY DEF Committed!bulk_assignment_status, Alone!bulk_assignment_status,
           Committed!BulkRow, Alone!BulkRow
  <1>12. \A v, s :
          Committed!check_in_assignment(v, s) <=> Alone!check_in_assignment(v, s)
    BY DEF Committed!check_in_assignment, Alone!check_in_assignment
  <1>13. \A v, s :
          Committed!check_out_assignment(v, s) <=> Alone!check_out_assignment(v, s)
    BY DEF Committed!check_out_assignment, Alone!check_out_assignment
  <1>14. \A s, form :
          Committed!create_shift(s, form) <=> Alone!create_shift(s, form)
    BY DEF Committed!create_shift, Alone!create_shift, Committed!ShiftFrom,
           Alone!ShiftFrom
  <1>15. \A s, form, status :
          Committed!edit_shift_submit(s, form, status)
            <=> Alone!edit_shift_submit(s, form, status)
    BY DEF Committed!edit_shift_submit, Alone!edit_shift_submit,
           Committed!ShiftFrom, Alone!ShiftFrom
  <1>16. \A s, status, needed_count :
          Committed!update_shift_status(s, status, needed_count)
            <=> Alone!update_shift_status(s, status, needed_count)
    BY DEF Committed!update_shift_status, Alone!update_shift_status,
           Committed!WithStatus, Alone!WithStatus
  <1>17. \A s :
          Committed!delete_or_cancel_shift(s) <=> Alone!delete_or_cancel_shift(s)
    BY DEF Committed!delete_or_cancel_shift, Alone!delete_or_cancel_shift,
           Committed!WithStatus, Alone!WithStatus, Committed!NoShift,
           Alone!NoShift
  <1>18. Committed!registration_window <=> Alone!registration_window
    BY DEF Committed!registration_window, Alone!registration_window
  <1>19. QED
    BY <1>1, <1>2, <1>3, <1>4, <1>5, <1>6, <1>7, <1>8, <1>9, <1>10, <1>11,
       <1>12, <1>13, <1>14, <1>15, <1>16, <1>17, <1>18 DEF Committed!Next,
       Alone!Next, Committed!PublicStep, Alone!PublicStep,
       Committed!CheckInStep, Alone!CheckInStep, Committed!VolunteerAdminStep,
       Alone!VolunteerAdminStep, Committed!PlanningStep, Alone!PlanningStep,
       Committed!AssignmentStatus, Alone!AssignmentStatus,
       Committed!VolunteerStatus, Alone!VolunteerStatus, Committed!ShiftStatus,
       Alone!ShiftStatus

LEMMA OneThreadIsAlone ==
  ASSUME OneThread
  PROVE  RequestsSpec => Alone!Spec
  <1>1. Committed!Init <=> Alone!Init
    BY DEF Committed!Init, Alone!Init, Committed!ShiftFrom, Alone!ShiftFrom,
           Committed!NoShift, Alone!NoShift, Committed!Absent, Alone!Absent
  <1>2. [Committed!Next]_(Committed!vars) <=> [Alone!Next]_(Alone!vars)
    BY SameNext DEF Committed!vars, Alone!vars, Committed!volunteerVars, Alone!volunteerVars
  <1>3. QED
    BY <1>1, <1>2, OneThreadIsSerial, PTL DEF Committed!Spec, Alone!Spec

(***************************************************************************)
(* With one thread the deletion of a shift takes no registration along:    *)
(* nothing is registered between its check and its commit.                 *)
(***************************************************************************)
THEOREM OneThreadKeepsHistory ==
  ASSUME OneThread
  PROVE  RequestsSpec => HistoryIsRetained
  <1>1. Alone!IsFiniteSet(Volunteers)
    BY VolunteersAssumption, Zenon DEF IsFiniteSet, Alone!IsFiniteSet
  <1>2. Alone!Spec => Alone!AssignmentsAreRetained
    BY <1>1, Alone!RowsAreRetained, ShiftFormsAssumption, PTL
  <1>3. [\A v \in Volunteers, s \in Shifts : Alone!HasRow(v, s) => Alone!HasRow(v, s)']_(Alone!vars)
          => [\A v \in Volunteers, s \in Shifts :
                Committed!HasRow(v, s) => Committed!HasRow(v, s)']_(Committed!vars)
    BY DEF Committed!HasRow, Alone!HasRow, Committed!Absent, Alone!Absent, Committed!vars,
           Alone!vars, Committed!volunteerVars, Alone!volunteerVars
  <1>4. QED
    BY <1>2, <1>3, OneThreadIsAlone, PTL
       DEF HistoryIsRetained, Committed!AssignmentsAreRetained, Alone!AssignmentsAreRetained

(***************************************************************************)
(* With one thread the application keeps every promise proved of its       *)
(* handlers: capacities, waitlists, conflicts, promotion and rejection.    *)
(***************************************************************************)
THEOREM OneThreadKeepsPromises ==
  ASSUME OneThread
  PROVE  RequestsSpec => /\ Alone!PublicNeverOverbooks
                         /\ Alone!WaitlistOnlyWhenFull
                         /\ Alone!PublicEditLeavesNoConflict
                         /\ Alone!PromotionIsFair
                         /\ Alone!RejectionReleasesPlaces
                         /\ Alone!NewRowsNeverOverbook
  <1>1. Alone!IsFiniteSet(Volunteers)
    BY VolunteersAssumption, Zenon DEF IsFiniteSet, Alone!IsFiniteSet
  <1>2. Alone!Spec => Alone!PublicNeverOverbooks
    BY <1>1, Alone!PublicRespectsCapacity, ShiftFormsAssumption, PTL
  <1>3. Alone!Spec => Alone!WaitlistOnlyWhenFull
    BY <1>1, Alone!WaitlistRespected, ShiftFormsAssumption, PTL
  <1>4. Alone!Spec => Alone!PublicEditLeavesNoConflict
    BY <1>1, Alone!PublicEditResolvesConflicts, ShiftFormsAssumption, PTL
  <1>5. Alone!Spec => Alone!PromotionIsFair
    BY <1>1, Alone!PromotionsAreFair, ShiftFormsAssumption, PTL
  <1>6. Alone!Spec => Alone!RejectionReleasesPlaces
    BY <1>1, Alone!RejectionReleases, ShiftFormsAssumption, PTL
  <1>7. Alone!Spec => Alone!NewRowsNeverOverbook
    BY <1>1, Alone!NewRowsFit, ShiftFormsAssumption, PTL
  <1>8. QED
    BY <1>2, <1>3, <1>4, <1>5, <1>6, <1>7, OneThreadIsAlone, PTL
===============================================================================

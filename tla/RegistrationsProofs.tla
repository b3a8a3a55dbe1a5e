------------------------- MODULE RegistrationsProofs -------------------------
(***************************************************************************)
(* What holds of Registrations for every set of volunteers and shifts,     *)
(* every capacity and every number of administrator's steps.               *)
(***************************************************************************)
EXTENDS Registrations, FiniteSetTheorems, WellFoundedInduction, TLAPS

Rows == [Shifts -> AssignmentStatus \cup {Absent}]

-----------------------------------------------------------------------------
(***************************************************************************)
(* The rows each handler computes are rows.                                *)
(***************************************************************************)
LEMMA ComputedRows ==
  ASSUME TypeOK, NEW v \in Volunteers, NEW sel \in SUBSET Shifts
  PROVE  /\ CreatedRows(sel) \in Rows
         /\ UpdatedRows(v, sel) \in Rows
         /\ RejectedRows(v) \in Rows
  BY DEF TypeOK, Rows, CreatedRows, UpdatedRows, UpdatedRow, RejectedRows,
         RejectedRow, _assignment_status, AssignmentStatus, Live, LiveStatuses

(***************************************************************************)
(* SetRows writes rows where rows belong.                                  *)
(***************************************************************************)
LEMMA SetRowsType ==
  ASSUME TypeOK, NEW v \in Volunteers, NEW rows \in Rows, SetRows(v, rows)
  PROVE  /\ assignment' \in [Volunteers -> Rows]
         /\ registered' \in [Shifts -> Seq(Volunteers)]
  BY DEF TypeOK, Rows, SetRows, AppendRows

LEMMA SetRowType ==
  ASSUME TypeOK, NEW v \in Volunteers, NEW s \in Shifts,
         NEW status \in AssignmentStatus, SetRow(v, s, status)
  PROVE  /\ assignment' \in [Volunteers -> Rows]
         /\ registered' \in [Shifts -> Seq(Volunteers)]
  <1>1. [assignment[v] EXCEPT ![s] = status] \in Rows
    BY DEF TypeOK, Rows
  <1>2. QED
    BY <1>1, SetRowsType DEF SetRow

(***************************************************************************)
(* Type correctness, handler by handler.                                   *)
(***************************************************************************)
LEMMA PublicStepType ==
  ASSUME TypeOK, NEW v \in Volunteers, PublicStep(v)
  PROVE  TypeOK'
  <1>1. ASSUME NEW sel \in SUBSET Shifts, create_registration(v, sel)
        PROVE  TypeOK'
    <2>1. SetRows(v, CreatedRows(sel)) /\ CreatedRows(sel) \in Rows
      BY <1>1, ComputedRows DEF create_registration
    <2>2. /\ volunteerStatus' \in [Volunteers -> VolunteerStatus \cup {Absent}]
          /\ editToken' \in [Volunteers -> Tokens]
      BY <1>1 DEF TypeOK, create_registration, VolunteerStatus, Tokens
    <2>3. QED
      BY <1>1, <2>1, <2>2, SetRowsType DEF TypeOK, Rows, create_registration
  <1>2. ASSUME NEW sel \in SUBSET Shifts, update_registration(v, sel)
        PROVE  TypeOK'
    <2>1. SetRows(v, UpdatedRows(v, sel)) /\ UpdatedRows(v, sel) \in Rows
      BY <1>2, ComputedRows DEF update_registration
    <2>2. QED
      BY <1>2, <2>1, SetRowsType DEF TypeOK, Rows, update_registration, volunteerVars
  <1>3. ASSUME NEW s \in Shifts, cancel_assignment(v, s)
        PROVE  TypeOK'
    <2>1. SetRow(v, s, "cancelled") /\ "cancelled" \in AssignmentStatus
      BY <1>3 DEF cancel_assignment, AssignmentStatus
    <2>2. QED
      BY <1>3, <2>1, SetRowType DEF TypeOK, Rows, cancel_assignment, volunteerVars
  <1>4. QED
    BY <1>1, <1>2, <1>3 DEF PublicStep

LEMMA CheckInStepType ==
  ASSUME TypeOK, CheckInStep
  PROVE  TypeOK'
  <1>1. ASSUME NEW v \in Volunteers, NEW s \in Shifts, check_in_assignment(v, s)
        PROVE  TypeOK'
    <2>1. SetRow(v, s, "checked_in") /\ "checked_in" \in AssignmentStatus
      BY <1>1 DEF check_in_assignment, AssignmentStatus
    <2>2. checkin' \in [Shifts -> SUBSET Volunteers]
      BY <1>1 DEF TypeOK, check_in_assignment
    <2>3. QED
      BY <1>1, <2>1, <2>2, SetRowType DEF TypeOK, Rows, check_in_assignment, volunteerVars
  <1>2. ASSUME NEW v \in Volunteers, NEW s \in Shifts, check_out_assignment(v, s)
        PROVE  TypeOK'
    <2>1. SetRow(v, s, "attended") /\ "attended" \in AssignmentStatus
      BY <1>2 DEF check_out_assignment, AssignmentStatus
    <2>2. QED
      BY <1>2, <2>1, SetRowType DEF TypeOK, Rows, check_out_assignment, volunteerVars
  <1>3. QED
    BY <1>1, <1>2 DEF CheckInStep

LEMMA ChangeStatusType ==
  ASSUME TypeOK, NEW v \in Volunteers, NEW s \in Shifts,
         NEW status \in AssignmentStatus, SetRow(v, s, status),
         UNCHANGED <<registrationOpen, shift, volunteerVars, checkin>>
  PROVE  TypeOK'
  BY SetRowType DEF TypeOK, Rows, volunteerVars

LEMMA VolunteerAdminStepType ==
  ASSUME TypeOK, VolunteerAdminStep(AssignmentStatus, VolunteerStatus)
  PROVE  TypeOK'
  <1>1. ASSUME NEW v \in Volunteers, create_volunteer_admin(v) \/ anonymize_volunteer(v)
        PROVE  TypeOK'
    BY <1>1 DEF TypeOK, create_volunteer_admin, anonymize_volunteer, Tokens,
                VolunteerStatus
  <1>2. ASSUME NEW v \in Volunteers, reject_volunteer(v)
        PROVE  TypeOK'
    <2>1. SetRows(v, RejectedRows(v)) /\ RejectedRows(v) \in Rows
      BY <1>2, ComputedRows DEF reject_volunteer
    <2>2. /\ volunteerStatus' \in [Volunteers -> VolunteerStatus \cup {Absent}]
          /\ editToken' \in [Volunteers -> Tokens]
      BY <1>2 DEF TypeOK, reject_volunteer, VolunteerStatus, Tokens
    <2>3. QED
      BY <1>2, <2>1, <2>2, SetRowsType DEF TypeOK, Rows, reject_volunteer
  <1>3. ASSUME NEW v \in Volunteers, NEW s \in Shifts, NEW status \in AssignmentStatus,
               \/ change_assignment_status(v, s, status)
               \/ \E override_conflict \in BOOLEAN :
                    assign_volunteer(v, s, status, override_conflict)
        PROVE  TypeOK'
    BY <1>3, ChangeStatusType DEF change_assignment_status, assign_volunteer
  <1>4. ASSUME NEW s \in Shifts, promote_first_waitlisted(s)
        PROVE  TypeOK'
    <2>1. PICK v \in Volunteers : SetRow(v, s, "confirmed")
      BY <1>4 DEF promote_first_waitlisted
    <2>2. "confirmed" \in AssignmentStatus
      BY DEF AssignmentStatus
    <2>3. QED
      BY <1>4, <2>1, <2>2, ChangeStatusType DEF promote_first_waitlisted
  <1>5. ASSUME NEW selected \in SUBSET Volunteers, NEW status \in VolunteerStatus,
               bulk_volunteer_status(selected, status)
        PROVE  TypeOK'
    BY <1>5 DEF TypeOK, bulk_volunteer_status
  <1>6. ASSUME NEW selected \in SUBSET Volunteers, NEW status \in AssignmentStatus,
               bulk_assignment_status(selected, status)
        PROVE  TypeOK'
    BY <1>6 DEF TypeOK, bulk_assignment_status, BulkRow, volunteerVars
  <1>7. QED
    BY <1>1, <1>2, <1>3, <1>4, <1>5, <1>6 DEF VolunteerAdminStep

LEMMA PlanningStepType ==
  ASSUME TypeOK, PlanningStep(ShiftStatus)
  PROVE  TypeOK'
  <1> USE ShiftFormsAssumption
  <1>1. \A form \in ShiftForms, status \in ShiftStatus :
          ShiftFrom(form, status) \in ShiftRow /\ form.needed \in Nat
    BY DEF ShiftFrom, ShiftRow
  <1>2. "open" \in ShiftStatus /\ "cancelled" \in ShiftStatus
    BY DEF ShiftStatus
  <1>3. NoShift \in ShiftRow
    BY DEF NoShift, ShiftRow
  <1>4. ASSUME NEW s \in Shifts, NEW form \in ShiftForms, create_shift(s, form)
        PROVE  TypeOK'
    BY <1>1, <1>2, <1>4 DEF TypeOK, create_shift, volunteerVars
  <1>5. ASSUME NEW s \in Shifts, NEW form \in ShiftForms, NEW status \in ShiftStatus,
               edit_shift_submit(s, form, status)
        PROVE  TypeOK'
    BY <1>1, <1>5 DEF TypeOK, edit_shift_submit, volunteerVars
  <1>6. ASSUME NEW s \in Shifts, NEW form \in ShiftForms, NEW status \in ShiftStatus,
               update_shift_status(s, status, form.needed)
        PROVE  TypeOK'
    BY <1>1, <1>6 DEF TypeOK, update_shift_status, WithStatus, ShiftRow, volunteerVars
  <1>7. ASSUME NEW s \in Shifts, delete_or_cancel_shift(s)
        PROVE  TypeOK'
    BY <1>2, <1>3, <1>7 DEF TypeOK, delete_or_cancel_shift, WithStatus, ShiftRow, volunteerVars
  <1>8. ASSUME registration_window
        PROVE  TypeOK'
    BY <1>8 DEF TypeOK, registration_window, volunteerVars
  <1>9. QED
    BY <1>4, <1>5, <1>6, <1>7, <1>8 DEF PlanningStep

LEMMA InitType == Init => TypeOK
  BY ShiftFormsAssumption
     DEF Init, TypeOK, ShiftRow, NoShift, ShiftFrom, ShiftStatus, Tokens

(***************************************************************************)
(* Every handler leaves well-typed tables: no status outside the enums, no *)
(* negative capacity.                                                      *)
(***************************************************************************)
THEOREM TypeCorrect == Spec => []TypeOK
  <1>1. TypeOK /\ [Next]_vars => TypeOK'
    <2> SUFFICES ASSUME TypeOK, [Next]_vars
                 PROVE  TypeOK'
      OBVIOUS
    <2>1. CASE UNCHANGED vars
      BY <2>1 DEF vars, volunteerVars, TypeOK
    <2>2. CASE Next
      BY <2>2, PublicStepType, CheckInStepType, VolunteerAdminStepType, PlanningStepType
         DEF Next
    <2>3. QED
      BY <2>1, <2>2
  <1>2. QED
    BY <1>1, InitType, PTL DEF Spec

-----------------------------------------------------------------------------
(***************************************************************************)
(* Consistency. A handler that writes the rows of one volunteer keeps the  *)
(* tables consistent when it removes no row, inserts rows only into        *)
(* planned shifts, and checks nobody in; all but check_in_assignment do.   *)
(***************************************************************************)
Harmless(v, rows) ==
  \A s \in Shifts :
    /\ HasRow(v, s) => rows[s] # Absent
    /\ rows[s] # Absent => HasRow(v, s) \/ Planned(s)
    /\ rows[s] = "checked_in" => assignment[v][s] = "checked_in"

LEMMA SetRowsQueue ==
  ASSUME TypeOK, QueueListsRows, NEW v \in Volunteers, NEW rows \in Rows,
         \A s \in Shifts : HasRow(v, s) => rows[s] # Absent,
         SetRows(v, rows)
  PROVE  QueueListsRows'
  <1> SUFFICES ASSUME NEW s \in Shifts
               PROVE  /\ \A i \in 1..Len(registered'[s]) :
                           assignment'[registered'[s][i]][s] # Absent
                      /\ \A u \in Volunteers : assignment'[u][s] # Absent =>
                           \E i \in 1..Len(registered'[s]) : registered'[s][i] = u
                      /\ \A i, j \in 1..Len(registered'[s]) :
                           registered'[s][i] = registered'[s][j] => i = j
    BY DEF QueueListsRows, HasRow
  <1> DEFINE q == registered[s]
  <1>1. /\ q \in Seq(Volunteers)
        /\ \A i \in 1..Len(q) : q[i] \in Volunteers /\ assignment[q[i]][s] # Absent
        /\ \A u \in Volunteers : assignment[u][s] # Absent => \E i \in 1..Len(q) : q[i] = u
        /\ \A i, j \in 1..Len(q) : q[i] = q[j] => i = j
    BY DEF TypeOK, QueueListsRows, HasRow
  <1>2. \A u \in Volunteers :
          assignment'[u][s] # Absent <=>
            assignment[u][s] # Absent \/ (u = v /\ rows[s] # Absent)
    BY DEF TypeOK, SetRows, HasRow, Rows
  <1>3. CASE assignment[v][s] = Absent /\ rows[s] # Absent
    <2>1. registered'[s] = Append(q, v)
      BY <1>3 DEF SetRows, AppendRows, HasRow
    <2>2. /\ Len(Append(q, v)) = Len(q) + 1
          /\ \A i \in 1..Len(q) : Append(q, v)[i] = q[i]
          /\ Append(q, v)[Len(q) + 1] = v
          /\ Len(q) \in Nat
      BY <1>1
    <2>3. \A i \in 1..Len(q) : q[i] # v
      BY <1>1, <1>3
    <2> HIDE DEF q
    <2>4. QED
      BY <1>1, <1>2, <1>3, <2>1, <2>2, <2>3
  <1>4. CASE assignment[v][s] # Absent \/ rows[s] = Absent
    <2>1. registered'[s] = q
      BY <1>4 DEF SetRows, AppendRows, TypeOK, HasRow
    <2> HIDE DEF q
    <2>2. QED
      BY <1>1, <1>2, <1>4, <2>1
  <1>5. QED
    BY <1>3, <1>4

LEMMA SetRowsConsistent ==
  ASSUME TypeOK, Consistent, NEW v \in Volunteers, NEW rows \in Rows,
         Harmless(v, rows), SetRows(v, rows), UNCHANGED <<shift, checkin>>,
         Exists(v)', \A u \in Volunteers : Exists(u) => Exists(u)',
         \A u \in Volunteers \ {v} : editToken'[u] = editToken[u]
  PROVE  Consistent'
  <1>1. QueueListsRows'
    BY SetRowsQueue DEF Consistent, Harmless
  <1>2. RowsHaveParents'
    BY DEF Consistent, RowsHaveParents, Harmless, SetRows, HasRow, Planned, TypeOK, Rows
  <1>3. CheckedInHasRecord'
    BY DEF Consistent, CheckedInHasRecord, Harmless, SetRows, TypeOK, Rows
  <1>4. TokensHaveOwners'
    BY DEF Consistent, TokensHaveOwners
  <1>5. QED
    BY <1>1, <1>2, <1>3, <1>4 DEF Consistent

LEMMA SetRowConsistent ==
  ASSUME TypeOK, Consistent, NEW v \in Volunteers, NEW s \in Shifts,
         NEW status \in AssignmentStatus \ {"checked_in"},
         SetRow(v, s, status), HasRow(v, s) \/ (Exists(v) /\ Planned(s)),
         UNCHANGED <<registrationOpen, shift, volunteerVars, checkin>>
  PROVE  Consistent'
  <1> DEFINE rows == [assignment[v] EXCEPT ![s] = status]
  <1>1. rows \in Rows /\ SetRows(v, rows)
    BY DEF TypeOK, Rows, SetRow
  <1>2. Harmless(v, rows)
    BY DEF Harmless, TypeOK, HasRow, AssignmentStatus, Absent
  <1>3. Exists(v) /\ \A u \in Volunteers : Exists(u) => Exists(u)'
    BY DEF Consistent, RowsHaveParents, Exists, volunteerVars
  <1>4. Exists(v)'
    BY <1>3
  <1> HIDE DEF rows
  <1>5. QED
    BY <1>1, <1>2, <1>3, <1>4, SetRowsConsistent DEF volunteerVars

LEMMA PublicStepConsistent ==
  ASSUME TypeOK, Consistent, NEW v \in Volunteers, PublicStep(v)
  PROVE  Consistent'
  <1>1. ASSUME NEW sel \in SUBSET Shifts, create_registration(v, sel)
        PROVE  Consistent'
    <2>1. Harmless(v, CreatedRows(sel))
      BY <1>1 DEF Harmless, CreatedRows, create_registration, _selected_shifts, Planned,
                  ShiftStatus, Absent, Consistent, RowsHaveParents, _assignment_status
    <2>2. Exists(v)' /\ \A u \in Volunteers : Exists(u) => Exists(u)'
      BY <1>1 DEF create_registration, Exists, TypeOK, Absent
    <2>3. QED
      BY <1>1, <2>1, <2>2, ComputedRows, SetRowsConsistent DEF create_registration, TypeOK
  <1>2. ASSUME NEW sel \in SUBSET Shifts, update_registration(v, sel)
        PROVE  Consistent'
    <2>1. Harmless(v, UpdatedRows(v, sel))
      BY <1>2 DEF Harmless, UpdatedRows, UpdatedRow, update_registration, _selected_shifts,
                  Planned, HasRow, Absent, _assignment_status, TypeOK, AssignmentStatus,
                  ShiftStatus, Live, LiveStatuses, ACTIVE_ASSIGNMENT_STATUSES
    <2>2. Exists(v)
      BY <1>2 DEF update_registration, get_volunteer_by_edit_token, Consistent,
                  TokensHaveOwners
    <2>3. Exists(v)' /\ \A u \in Volunteers : Exists(u) => Exists(u)'
      BY <1>2, <2>2 DEF update_registration, Exists, volunteerVars
    <2>4. /\ UNCHANGED <<shift, checkin>>
          /\ SetRows(v, UpdatedRows(v, sel))
          /\ \A u \in Volunteers \ {v} : editToken'[u] = editToken[u]
      BY <1>2 DEF update_registration, volunteerVars
    <2>5. UpdatedRows(v, sel) \in Rows
      BY ComputedRows
    <2>6. QED
      BY <2>1, <2>3, <2>4, <2>5, SetRowsConsistent
  <1>3. ASSUME NEW s \in Shifts, cancel_assignment(v, s)
        PROVE  Consistent'
    BY <1>3, SetRowConsistent DEF cancel_assignment, AssignmentStatus, HasRow
  <1>4. QED
    BY <1>1, <1>2, <1>3 DEF PublicStep

(***************************************************************************)
(* check_in_assignment sets checked_in, and writes the record with it.     *)
(***************************************************************************)
LEMMA CheckInStepConsistent ==
  ASSUME TypeOK, Consistent, CheckInStep
  PROVE  Consistent'
  <1>1. ASSUME NEW v \in Volunteers, NEW s \in Shifts, check_in_assignment(v, s)
        PROVE  Consistent'
    <2> DEFINE rows == [assignment[v] EXCEPT ![s] = "checked_in"]
    <2>1. rows \in Rows /\ SetRows(v, rows) /\ HasRow(v, s)
      BY <1>1 DEF check_in_assignment, SetRow, TypeOK, Rows, AssignmentStatus, HasRow, Absent
    <2>2. \A t \in Shifts : HasRow(v, t) <=> rows[t] # Absent
      BY <2>1 DEF TypeOK, Absent, HasRow
    <2>3. /\ assignment' = [assignment EXCEPT ![v] = rows]
          /\ checkin' = [checkin EXCEPT ![s] = checkin[s] \cup {v}]
          /\ UNCHANGED <<shift, volunteerStatus, editToken>>
      BY <1>1, <2>1 DEF check_in_assignment, SetRows, volunteerVars
    <2>4. QueueListsRows'
      BY <2>1, <2>2, SetRowsQueue DEF Consistent
    <2>5. RowsHaveParents'
      BY <2>2, <2>3 DEF Consistent, RowsHaveParents, HasRow, Exists, Planned, TypeOK
    <2>6. CheckedInHasRecord'
      BY <2>3 DEF Consistent, CheckedInHasRecord, TypeOK
    <2>7. TokensHaveOwners'
      BY <2>3 DEF Consistent, TokensHaveOwners, Exists
    <2>8. QED
      BY <2>4, <2>5, <2>6, <2>7 DEF Consistent
  <1>2. ASSUME NEW v \in Volunteers, NEW s \in Shifts, check_out_assignment(v, s)
        PROVE  Consistent'
    BY <1>2, SetRowConsistent DEF check_out_assignment, AssignmentStatus
  <1>3. QED
    BY <1>1, <1>2 DEF CheckInStep

(***************************************************************************)
(* Steps that write no assignment row: the volunteers who exist still do.  *)
(***************************************************************************)
LEMMA PeopleStepConsistent ==
  ASSUME Consistent, UNCHANGED <<shift, assignment, registered, checkin>>,
         \A u \in Volunteers : Exists(u) => Exists(u)',
         \A u \in Volunteers : editToken'[u] # "none" => Exists(u)'
  PROVE  Consistent'
  <1>1. RowsHaveParents'
    BY DEF Consistent, RowsHaveParents, HasRow, Planned
  <1>2. QueueListsRows'
    BY DEF Consistent, QueueListsRows, HasRow
  <1>3. CheckedInHasRecord'
    BY DEF Consistent, CheckedInHasRecord
  <1>4. TokensHaveOwners'
    BY DEF TokensHaveOwners
  <1>5. QED
    BY <1>1, <1>2, <1>3, <1>4 DEF Consistent

LEMMA ChangeStatusConsistent ==
  ASSUME TypeOK, Consistent, NEW v \in Volunteers, NEW s \in Shifts,
         NEW status \in AssignmentStatus, change_assignment_status(v, s, status)
  PROVE  Consistent'
  BY SetRowConsistent DEF change_assignment_status

LEMMA VolunteerAdminStepConsistent ==
  ASSUME TypeOK, Consistent, VolunteerAdminStep(AssignmentStatus, VolunteerStatus)
  PROVE  Consistent'
  <1>1. ASSUME NEW v \in Volunteers, create_volunteer_admin(v)
        PROVE  Consistent'
    BY <1>1, PeopleStepConsistent
       DEF create_volunteer_admin, Exists, TypeOK, Absent, Consistent, TokensHaveOwners
  <1>2. ASSUME NEW v \in Volunteers, reject_volunteer(v)
        PROVE  Consistent'
    <2>1. Harmless(v, RejectedRows(v))
      BY <1>2 DEF Harmless, RejectedRows, RejectedRow, HasRow, Absent
    <2>2. Exists(v)' /\ \A u \in Volunteers : Exists(u) => Exists(u)'
      BY <1>2 DEF reject_volunteer, Exists, TypeOK, Absent
    <2>3. /\ UNCHANGED <<shift, checkin>>
          /\ SetRows(v, RejectedRows(v))
          /\ \A u \in Volunteers \ {v} : editToken'[u] = editToken[u]
      BY <1>2 DEF reject_volunteer, TypeOK
    <2>4. RejectedRows(v) \in Rows
      BY ComputedRows
    <2>5. QED
      BY <2>1, <2>2, <2>3, <2>4, SetRowsConsistent
  <1>3. ASSUME NEW v \in Volunteers, anonymize_volunteer(v)
        PROVE  Consistent'
    BY <1>3, PeopleStepConsistent
       DEF anonymize_volunteer, Exists, TypeOK, Absent, Consistent, TokensHaveOwners
  <1>4. ASSUME NEW v \in Volunteers, NEW s \in Shifts, NEW status \in AssignmentStatus,
               change_assignment_status(v, s, status)
        PROVE  Consistent'
    BY <1>4, ChangeStatusConsistent
  <1>5. ASSUME NEW v \in Volunteers, NEW s \in Shifts, NEW status \in AssignmentStatus,
               NEW override_conflict \in BOOLEAN,
               assign_volunteer(v, s, status, override_conflict)
        PROVE  Consistent'
    <2>1. CASE change_assignment_status(v, s, status)
      BY <2>1, ChangeStatusConsistent
    <2>2. CASE ~ change_assignment_status(v, s, status)
      <3>1. /\ status \in AssignmentStatus \ {"checked_in"}
            /\ Exists(v) /\ Planned(s) /\ SetRow(v, s, status)
            /\ UNCHANGED <<registrationOpen, shift, volunteerVars, checkin>>
        BY <1>5, <2>2 DEF assign_volunteer
      <3>2. QED
        BY <3>1, SetRowConsistent
    <2>3. QED
      BY <2>1, <2>2
  <1>6. ASSUME NEW s \in Shifts, promote_first_waitlisted(s)
        PROVE  Consistent'
    <2>1. PICK v \in Volunteers : FirstWaitlisted(s, v) /\ SetRow(v, s, "confirmed")
      BY <1>6 DEF promote_first_waitlisted
    <2>2. HasRow(v, s)
      BY <2>1 DEF FirstWaitlisted, HasRow, Absent
    <2>3. QED
      BY <1>6, <2>1, <2>2, SetRowConsistent DEF promote_first_waitlisted, AssignmentStatus
  <1>7. ASSUME NEW selected \in SUBSET Volunteers, NEW status \in VolunteerStatus,
               bulk_volunteer_status(selected, status)
        PROVE  Consistent'
    BY <1>7, PeopleStepConsistent
       DEF bulk_volunteer_status, Exists, TypeOK, Absent, VolunteerStatus, Consistent,
           TokensHaveOwners
  <1>8. ASSUME NEW selected \in SUBSET Volunteers, NEW status \in AssignmentStatus,
               bulk_assignment_status(selected, status)
        PROVE  Consistent'
    <2>1. \A v \in Volunteers, s \in Shifts :
            /\ HasRow(v, s)' <=> HasRow(v, s)
            /\ assignment'[v][s] = "checked_in" => assignment[v][s] = "checked_in"
      BY <1>8 DEF bulk_assignment_status, BulkRow, HasRow, Absent, TypeOK, AssignmentStatus
    <2>2. UNCHANGED <<shift, volunteerStatus, editToken, registered, checkin>>
      BY <1>8 DEF bulk_assignment_status, volunteerVars
    <2>3. RowsHaveParents'
      BY <2>1, <2>2 DEF Consistent, RowsHaveParents, Exists, Planned
    <2>4. QueueListsRows'
      <3>1. \A s \in Shifts : registered[s] \in Seq(Volunteers)
        BY DEF TypeOK
      <3>2. \A s \in Shifts, i \in Nat : i \in 1..Len(registered[s]) =>
              registered[s][i] \in Volunteers
        BY <3>1
      <3>3. QED
        BY <2>1, <2>2, <3>1, <3>2 DEF Consistent, QueueListsRows
    <2>5. CheckedInHasRecord'
      BY <2>1, <2>2 DEF Consistent, CheckedInHasRecord
    <2>6. TokensHaveOwners'
      BY <2>2 DEF Consistent, TokensHaveOwners, Exists
    <2>7. QED
      BY <2>3, <2>4, <2>5, <2>6 DEF Consistent
  <1>9. QED
    BY <1>1, <1>2, <1>3, <1>4, <1>5, <1>6, <1>7, <1>8 DEF VolunteerAdminStep

(***************************************************************************)
(* delete_or_cancel_shift deletes only shifts without rows.                *)
(***************************************************************************)
LEMMA PlanningStepConsistent ==
  ASSUME TypeOK, Consistent, PlanningStep(ShiftStatus)
  PROVE  Consistent'
  <1>1. UNCHANGED <<volunteerVars, assignment, registered, checkin>>
    BY DEF PlanningStep, create_shift, edit_shift_submit, update_shift_status,
           delete_or_cancel_shift, registration_window
  <1>2. ASSUME NEW v \in Volunteers, NEW t \in Shifts, HasRow(v, t)
        PROVE  Planned(t)'
    <2>1. Planned(t)
      BY <1>2 DEF Consistent, RowsHaveParents
    <2>2. ASSUME NEW s \in Shifts, NEW form \in ShiftForms, create_shift(s, form)
          PROVE  Planned(t)'
      BY <2>1, <2>2 DEF create_shift, Planned, ShiftFrom, TypeOK, Absent
    <2>3. ASSUME NEW s \in Shifts, NEW form \in ShiftForms, NEW status \in ShiftStatus,
                 edit_shift_submit(s, form, status)
          PROVE  Planned(t)'
      BY <2>1, <2>3 DEF edit_shift_submit, Planned, ShiftFrom, TypeOK, Absent, ShiftStatus
    <2>4. ASSUME NEW s \in Shifts, NEW form \in ShiftForms, NEW status \in ShiftStatus,
                 update_shift_status(s, status, form.needed)
          PROVE  Planned(t)'
      BY <2>1, <2>4 DEF update_shift_status, Planned, WithStatus, TypeOK, Absent, ShiftStatus
    <2>5. ASSUME NEW s \in Shifts, delete_or_cancel_shift(s)
          PROVE  Planned(t)'
      BY <1>2, <2>1, <2>5
         DEF delete_or_cancel_shift, Planned, WithStatus, TypeOK, Absent
    <2>6. CASE registration_window
      BY <2>1, <2>6 DEF registration_window, Planned
    <2>7. QED
      BY <2>2, <2>3, <2>4, <2>5, <2>6 DEF PlanningStep
  <1>3. RowsHaveParents'
    BY <1>1, <1>2 DEF Consistent, RowsHaveParents, HasRow, Exists, volunteerVars
  <1>4. (QueueListsRows /\ CheckedInHasRecord /\ TokensHaveOwners)'
    BY <1>1 DEF Consistent, QueueListsRows, CheckedInHasRecord, TokensHaveOwners, HasRow,
                Exists, volunteerVars
  <1>5. QED
    BY <1>3, <1>4 DEF Consistent

LEMMA InitConsistent == Init => Consistent
  <1> SUFFICES ASSUME Init
               PROVE  Consistent
    OBVIOUS
  <1>1. \A v \in Volunteers, s \in Shifts : assignment[v][s] = Absent
    BY DEF Init
  <1>2. RowsHaveParents /\ CheckedInHasRecord /\ TokensHaveOwners
    BY <1>1 DEF Init, RowsHaveParents, CheckedInHasRecord, TokensHaveOwners, HasRow, Absent
  <1>3. QueueListsRows
    <2>1. \A s \in Shifts : Len(registered[s]) = 0
      BY DEF Init
    <2>2. QED
      BY <1>1, <2>1 DEF QueueListsRows, HasRow
  <1>4. QED
    BY <1>2, <1>3 DEF Consistent

(***************************************************************************)
(* After every handler the tables refer to each other consistently: no row *)
(* without its volunteer and shift, a complete promotion order without     *)
(* repetitions, a record behind every checked-in row, an owner for every   *)
(* edit token. The induction needs the types only.                         *)
(***************************************************************************)
THEOREM TablesConsistent == Spec => []Consistent
  <1>1. TypeOK /\ Consistent /\ [Next]_vars => Consistent'
    <2> SUFFICES ASSUME TypeOK, Consistent, [Next]_vars
                 PROVE  Consistent'
      OBVIOUS
    <2>1. CASE UNCHANGED vars
      BY <2>1 DEF vars, volunteerVars, Consistent, RowsHaveParents, QueueListsRows,
                  CheckedInHasRecord, TokensHaveOwners, HasRow, Exists, Planned
    <2>2. CASE Next
      BY <2>2, PublicStepConsistent, CheckInStepConsistent, VolunteerAdminStepConsistent,
         PlanningStepConsistent DEF Next
    <2>3. QED
      BY <2>1, <2>2
  <1>2. QED
    BY <1>1, InitConsistent, TypeCorrect, PTL DEF Spec

-----------------------------------------------------------------------------
(***************************************************************************)
(* Action properties.                                                      *)
(***************************************************************************)
Retains == \A v \in Volunteers, s \in Shifts : HasRow(v, s) => HasRow(v, s)'

LEMMA SetRowsRetains ==
  ASSUME TypeOK, NEW v \in Volunteers, NEW rows \in Rows, SetRows(v, rows),
         \A s \in Shifts : HasRow(v, s) => rows[s] # Absent
  PROVE  Retains
  BY DEF Retains, SetRows, HasRow, TypeOK

LEMMA SetRowRetains ==
  ASSUME TypeOK, NEW v \in Volunteers, NEW s \in Shifts,
         NEW status \in AssignmentStatus, SetRow(v, s, status)
  PROVE  Retains
  BY DEF Retains, SetRow, SetRows, HasRow, TypeOK, AssignmentStatus, Absent

LEMMA StepRetains ==
  ASSUME TypeOK, Consistent, Next
  PROVE  Retains
  <1>1. ASSUME NEW v \in Volunteers, NEW sel \in SUBSET Shifts, create_registration(v, sel)
        PROVE  Retains
    <2>1. \A s \in Shifts : ~ HasRow(v, s)
      BY <1>1 DEF create_registration, Consistent, RowsHaveParents
    <2>2. QED
      BY <1>1, <2>1, ComputedRows, SetRowsRetains DEF create_registration
  <1>2. ASSUME NEW v \in Volunteers, NEW sel \in SUBSET Shifts, update_registration(v, sel)
        PROVE  Retains
    <2>1. \A s \in Shifts : HasRow(v, s) => UpdatedRows(v, sel)[s] # Absent
      BY DEF UpdatedRows, UpdatedRow, HasRow, _assignment_status, Absent
    <2>2. QED
      BY <1>2, <2>1, ComputedRows, SetRowsRetains DEF update_registration
  <1>3. ASSUME NEW v \in Volunteers, NEW s \in Shifts, cancel_assignment(v, s)
        PROVE  Retains
    BY <1>3, SetRowRetains DEF cancel_assignment, AssignmentStatus
  <1>4. CASE CheckInStep
    BY <1>4, SetRowRetains
       DEF CheckInStep, check_in_assignment, check_out_assignment, AssignmentStatus
  <1>5. ASSUME NEW v \in Volunteers, reject_volunteer(v)
        PROVE  Retains
    <2>1. \A s \in Shifts : HasRow(v, s) => RejectedRows(v)[s] # Absent
      BY DEF RejectedRows, RejectedRow, HasRow, Absent
    <2>2. QED
      BY <1>5, <2>1, ComputedRows, SetRowsRetains DEF reject_volunteer
  <1>6. ASSUME NEW v \in Volunteers, create_volunteer_admin(v) \/ anonymize_volunteer(v)
        PROVE  Retains
    BY <1>6 DEF create_volunteer_admin, anonymize_volunteer, Retains, HasRow
  <1>7. ASSUME NEW v \in Volunteers, NEW s \in Shifts, NEW status \in AssignmentStatus,
               NEW override_conflict \in BOOLEAN,
               \/ change_assignment_status(v, s, status)
               \/ assign_volunteer(v, s, status, override_conflict)
        PROVE  Retains
    BY <1>7, SetRowRetains DEF change_assignment_status, assign_volunteer
  <1>8. ASSUME NEW s \in Shifts, promote_first_waitlisted(s)
        PROVE  Retains
    BY <1>8, SetRowRetains DEF promote_first_waitlisted, AssignmentStatus
  <1>9. ASSUME NEW selected \in SUBSET Volunteers, NEW status \in VolunteerStatus,
               bulk_volunteer_status(selected, status)
        PROVE  Retains
    BY <1>9 DEF bulk_volunteer_status, Retains, HasRow
  <1>10. ASSUME NEW selected \in SUBSET Volunteers, NEW status \in AssignmentStatus,
                bulk_assignment_status(selected, status)
         PROVE  Retains
    BY <1>10 DEF bulk_assignment_status, BulkRow, Retains, HasRow, TypeOK,
                 AssignmentStatus, Absent
  <1>11. CASE PlanningStep(ShiftStatus)
    BY <1>11 DEF PlanningStep, create_shift, edit_shift_submit, update_shift_status,
                 delete_or_cancel_shift, registration_window, Retains, HasRow
  <1>12. QED
    BY <1>1, <1>2, <1>3, <1>4, <1>5, <1>6, <1>7, <1>8, <1>9, <1>10, <1>11
       DEF Next, PublicStep, VolunteerAdminStep

(***************************************************************************)
(* "Historical assignments are retained": no sequence of handlers, the     *)
(* deletion of shifts included, removes an assignment row. Creating a      *)
(* volunteer overwrites no rows because rows have owners (Consistent).     *)
(***************************************************************************)
THEOREM RowsAreRetained == Spec => AssignmentsAreRetained
  <1>1. TypeOK /\ Consistent /\ [Next]_vars =>
          [\A v \in Volunteers, s \in Shifts : HasRow(v, s) => HasRow(v, s)']_vars
    BY StepRetains DEF Retains
  <1>2. QED
    BY <1>1, TypeCorrect, TablesConsistent, PTL DEF Spec, AssignmentsAreRetained

LEMMA StepRevokesForGood ==
  ASSUME TypeOK, Consistent, Next, NEW v \in Volunteers
  PROVE  /\ editToken[v] = "revoked" => editToken'[v] = "revoked"
         /\ v \in anonymized => v \in anonymized'
  <1>1. ASSUME NEW u \in Volunteers, NEW sel \in SUBSET Shifts, create_registration(u, sel)
        PROVE  /\ editToken[v] = "revoked" => editToken'[v] = "revoked"
               /\ v \in anonymized => v \in anonymized'
    <2>1. editToken[u] = "none"
      BY <1>1 DEF create_registration, Consistent, TokensHaveOwners
    <2>2. QED
      BY <1>1, <2>1 DEF create_registration, TypeOK
  <1>2. CASE \E u \in Volunteers, s \in Shifts : cancel_assignment(u, s)
    BY <1>2 DEF cancel_assignment, volunteerVars
  <1>3. CASE \E u \in Volunteers, sel \in SUBSET Shifts : update_registration(u, sel)
    BY <1>3 DEF update_registration, volunteerVars
  <1>4. CASE CheckInStep
    BY <1>4 DEF CheckInStep, check_in_assignment, check_out_assignment, volunteerVars
  <1>5. CASE VolunteerAdminStep(AssignmentStatus, VolunteerStatus)
    BY <1>5 DEF VolunteerAdminStep, create_volunteer_admin, reject_volunteer,
                anonymize_volunteer, change_assignment_status, assign_volunteer,
                promote_first_waitlisted, bulk_volunteer_status, bulk_assignment_status,
                volunteerVars, TypeOK
  <1>6. CASE PlanningStep(ShiftStatus)
    BY <1>6 DEF PlanningStep, create_shift, edit_shift_submit, update_shift_status,
                delete_or_cancel_shift, registration_window, volunteerVars
  <1>7. QED
    BY <1>1, <1>2, <1>3, <1>4, <1>5, <1>6 DEF Next, PublicStep

(***************************************************************************)
(* Rejection and anonymization take edit access away for good: a new token *)
(* is issued only with a new volunteer, who has none yet (Consistent).     *)
(***************************************************************************)
THEOREM RevocationLasts == Spec => RevocationIsPermanent
  <1>1. TypeOK /\ Consistent /\ [Next]_vars =>
          [\A v \in Volunteers :
             /\ editToken[v] = "revoked" => editToken'[v] = "revoked"
             /\ v \in anonymized => v \in anonymized']_vars
    BY StepRevokesForGood
  <1>2. QED
    BY <1>1, TypeCorrect, TablesConsistent, PTL DEF Spec, RevocationIsPermanent

(***************************************************************************)
(* Only reject_volunteer makes somebody rejected.                          *)
(***************************************************************************)
LEMMA OnlyRejectionRejects ==
  ASSUME TypeOK, Next, NEW v \in Volunteers,
         volunteerStatus'[v] = "rejected", volunteerStatus[v] # "rejected"
  PROVE  reject_volunteer(v)
  <1>1. ~ \E u \in Volunteers : PublicStep(u)
    BY DEF PublicStep, create_registration, update_registration, cancel_assignment,
           volunteerVars, TypeOK
  <1>2. ~ CheckInStep
    BY DEF CheckInStep, check_in_assignment, check_out_assignment, volunteerVars
  <1>3. ~ PlanningStep(ShiftStatus)
    BY DEF PlanningStep, create_shift, edit_shift_submit, update_shift_status,
           delete_or_cancel_shift, registration_window, volunteerVars
  <1>4. CASE VolunteerAdminStep(AssignmentStatus, VolunteerStatus)
    <2>1. PICK u \in Volunteers : reject_volunteer(u)
      BY <1>4 DEF VolunteerAdminStep, create_volunteer_admin,
                  anonymize_volunteer, change_assignment_status, assign_volunteer,
                  promote_first_waitlisted, bulk_volunteer_status, bulk_assignment_status,
                  volunteerVars, TypeOK
    <2>2. u = v
      BY <2>1 DEF reject_volunteer, TypeOK
    <2>3. QED
      BY <2>1, <2>2
  <1>5. QED
    BY <1>1, <1>2, <1>3, <1>4 DEF Next

(***************************************************************************)
(* Whoever becomes rejected, by the rejection workflow or from the bulk    *)
(* form, holds and awaits nothing any more, and what they attended or      *)
(* missed stays on record.                                                 *)
(***************************************************************************)
THEOREM RejectionReleases == Spec => RejectionReleasesPlaces
  <1> DEFINE Releases(v) == \A s \in Shifts :
        IF assignment[v][s] \in {"attended", "no_show"}
        THEN assignment'[v][s] = assignment[v][s]
        ELSE assignment'[v][s] \in {Absent, "cancelled", "rejected"}
  <1>1. ASSUME TypeOK, NEW v \in Volunteers, reject_volunteer(v)
        PROVE  Releases(v)
    <2>1. assignment'[v] = RejectedRows(v)
      BY <1>1 DEF reject_volunteer, SetRows, TypeOK
    <2>2. QED
      BY <2>1 DEF RejectedRows, RejectedRow, Absent
  <1>2. TypeOK /\ [Next]_vars =>
          [\A v \in Volunteers :
             volunteerStatus'[v] = "rejected" /\ volunteerStatus[v] # "rejected" =>
               Releases(v)]_vars
    BY <1>1, OnlyRejectionRejects
  <1>3. QED
    BY <1>2, TypeCorrect, PTL DEF Spec, RejectionReleasesPlaces

-----------------------------------------------------------------------------
(***************************************************************************)
(* What the public handlers promise about places, waitlists and            *)
(* overlapping shifts. All of it follows from one description of what a    *)
(* public step does to a row (PublicStepRows).                             *)
(***************************************************************************)
(***************************************************************************)
(* A public step of v leaves the rows of all others alone; a row of v is   *)
(* left alone, cancelled, or, when it was not live, given the place or the *)
(* waitlist position that is free.                                         *)
(***************************************************************************)
RowKept(v, s) == assignment'[v][s] = assignment[v][s]
RowGranted(v, s) ==
  /\ ~ Live(v, s)
  /\ CanAssign(s)
  /\ assignment'[v][s] = _assignment_status(s)

LEMMA PublicStepRows ==
  ASSUME TypeOK, Consistent, NEW v \in Volunteers, PublicStep(v)
  PROVE  /\ UNCHANGED shift
         /\ \A u \in Volunteers \ {v}, s \in Shifts : RowKept(u, s)
         /\ \A s \in Shifts : RowKept(v, s) \/ assignment'[v][s] = "cancelled"
                                            \/ RowGranted(v, s)
  <1>1. ASSUME NEW rows \in Rows, SetRows(v, rows)
        PROVE  /\ assignment'[v] = rows
               /\ \A u \in Volunteers \ {v}, s \in Shifts : RowKept(u, s)
    BY <1>1 DEF SetRows, RowKept, TypeOK
  <1>2. ASSUME NEW sel \in SUBSET Shifts, create_registration(v, sel)
        PROVE  /\ UNCHANGED shift
               /\ \A u \in Volunteers \ {v}, s \in Shifts : RowKept(u, s)
               /\ \A s \in Shifts : RowKept(v, s) \/ RowGranted(v, s)
    <2>1. \A s \in Shifts : assignment[v][s] = Absent /\ ~ Live(v, s)
      BY <1>2 DEF create_registration, Consistent, RowsHaveParents, HasRow, Absent, Live,
                  LiveStatuses, ACTIVE_ASSIGNMENT_STATUSES
    <2>2. SetRows(v, CreatedRows(sel)) /\ CreatedRows(sel) \in Rows
      BY <1>2, ComputedRows DEF create_registration
    <2>3. QED
      BY <1>1, <1>2, <2>1, <2>2 DEF create_registration, CreatedRows, RowKept, RowGranted
  <1>3. ASSUME NEW sel \in SUBSET Shifts, update_registration(v, sel)
        PROVE  /\ UNCHANGED shift
               /\ \A u \in Volunteers \ {v}, s \in Shifts : RowKept(u, s)
               /\ \A s \in Shifts : RowKept(v, s) \/ assignment'[v][s] = "cancelled"
                                                  \/ RowGranted(v, s)
    <2>1. SetRows(v, UpdatedRows(v, sel)) /\ UpdatedRows(v, sel) \in Rows
      BY <1>3, ComputedRows DEF update_registration
    <2>2. QED
      BY <1>1, <1>3, <2>1
         DEF update_registration, UpdatedRows, UpdatedRow, RowKept, RowGranted
  <1>4. ASSUME NEW t \in Shifts, cancel_assignment(v, t)
        PROVE  /\ UNCHANGED shift
               /\ \A u \in Volunteers \ {v}, s \in Shifts : RowKept(u, s)
               /\ \A s \in Shifts : RowKept(v, s) \/ assignment'[v][s] = "cancelled"
    BY <1>4 DEF cancel_assignment, SetRow, SetRows, RowKept, TypeOK
  <1>5. QED
    BY <1>2, <1>3, <1>4 DEF PublicStep

(***************************************************************************)
(* Rows are counted in finite sets.                                        *)
(***************************************************************************)
LEMMA HoldersFinite ==
  ASSUME NEW s \in Shifts, NEW statuses
  PROVE  /\ IsFiniteSet(Holders(s, statuses))
         /\ Cardinality(Holders(s, statuses)) \in Nat
  <1>1. Holders(s, statuses) \in SUBSET Volunteers
    BY DEF Holders
  <1>2. IsFiniteSet(Holders(s, statuses))
    BY <1>1, VolunteersAssumption, FS_Subset
  <1>3. QED
    BY <1>2, FS_CardinalityType

LEMMA TakenIsHeld ==
  ASSUME NEW s \in Shifts
  PROVE  /\ PlacesTaken(s) = Cardinality(Holders(s, ACTIVE_ASSIGNMENT_STATUSES))
         /\ PlacesTaken(s)' = Cardinality(Holders(s, ACTIVE_ASSIGNMENT_STATUSES)')
         /\ Waiting(s) = Holders(s, {"waitlisted"})
         /\ Waiting(s)' = Holders(s, {"waitlisted"})'
  BY DEF PlacesTaken, Holders, ACTIVE_ASSIGNMENT_STATUSES, Waiting

(***************************************************************************)
(* Among the holders of rows in given statuses a public step of v adds or  *)
(* removes nobody but v, and cannot add v without granting the row.        *)
(***************************************************************************)
LEMMA HoldersAfterPublicStep ==
  ASSUME TypeOK, Consistent, NEW v \in Volunteers, PublicStep(v), NEW s \in Shifts,
         NEW statuses, "cancelled" \notin statuses
  PROVE  /\ Holders(s, statuses)' \subseteq Holders(s, statuses) \cup {v}
         /\ \/ Holders(s, statuses)' \subseteq Holders(s, statuses)
            \/ RowGranted(v, s) /\ assignment'[v][s] \in statuses
  BY PublicStepRows DEF Holders, RowKept

LEMMA HoldersGrowByOne ==
  ASSUME TypeOK, Consistent, NEW v \in Volunteers, PublicStep(v), NEW s \in Shifts,
         NEW statuses, "cancelled" \notin statuses
  PROVE  /\ Cardinality(Holders(s, statuses)') \in Nat
         /\ Cardinality(Holders(s, statuses)') <= Cardinality(Holders(s, statuses)) + 1
         /\ \/ Cardinality(Holders(s, statuses)') <= Cardinality(Holders(s, statuses))
            \/ RowGranted(v, s) /\ assignment'[v][s] \in statuses
  <1> DEFINE old == Holders(s, statuses)
             new == Holders(s, statuses)'
  <1>1. IsFiniteSet(old) /\ Cardinality(old) \in Nat
    BY HoldersFinite
  <1>2. new \subseteq old \cup {v}
    BY HoldersAfterPublicStep
  <1>3. new \subseteq old \/ (RowGranted(v, s) /\ assignment'[v][s] \in statuses)
    BY HoldersAfterPublicStep
  <1> HIDE DEF old, new
  <1>4. IsFiniteSet(old \cup {v}) /\ Cardinality(old \cup {v}) <= Cardinality(old) + 1
    BY <1>1, FS_AddElement
  <1>5. IsFiniteSet(new) /\ Cardinality(new) <= Cardinality(old \cup {v})
    BY <1>2, <1>4, FS_Subset
  <1>6. Cardinality(new) \in Nat /\ Cardinality(old \cup {v}) \in Nat
    BY <1>4, <1>5, FS_CardinalityType
  <1>7. new \subseteq old => Cardinality(new) <= Cardinality(old)
    BY <1>1, FS_Subset
  <1>8. Cardinality(new) <= Cardinality(old) + 1
    BY <1>1, <1>4, <1>5, <1>6
  <1>9. QED
    BY <1>3, <1>6, <1>7, <1>8 DEF old, new

(***************************************************************************)
(* What is taken after a public step that raises it is within needed_count.*)
(***************************************************************************)
LEMMA PublicStepCapacity ==
  ASSUME TypeOK, Consistent, NEW s \in Shifts, NEW v \in Volunteers, PublicStep(v),
         PlacesTaken(s)' > PlacesTaken(s)
  PROVE  PlacesTaken(s)' <= shift[s].needed
  <1> DEFINE taken == Cardinality(Holders(s, ACTIVE_ASSIGNMENT_STATUSES))
  <1>1. /\ taken \in Nat /\ shift[s].needed \in Nat
        /\ PlacesTaken(s) = taken
    BY HoldersFinite, TakenIsHeld DEF TypeOK, ShiftRow
  <1>2. "cancelled" \notin ACTIVE_ASSIGNMENT_STATUSES
    BY DEF ACTIVE_ASSIGNMENT_STATUSES
  <1>3. PlacesTaken(s)' \in Nat /\ PlacesTaken(s)' <= taken + 1
    BY <1>2, HoldersGrowByOne, TakenIsHeld
  <1>4. \/ PlacesTaken(s)' <= taken
        \/ RowGranted(v, s) /\ assignment'[v][s] \in ACTIVE_ASSIGNMENT_STATUSES
    BY <1>2, HoldersGrowByOne, TakenIsHeld
  <1>5. RowGranted(v, s) /\ assignment'[v][s] \in ACTIVE_ASSIGNMENT_STATUSES
    BY <1>1, <1>3, <1>4
  <1>6. available_places(s) > 0
    BY <1>5 DEF RowGranted, _assignment_status, ACTIVE_ASSIGNMENT_STATUSES
  <1>7. taken < shift[s].needed
    BY <1>1, <1>6 DEF available_places
  <1>8. QED
    BY <1>1, <1>3, <1>7

(***************************************************************************)
(* No public registration, edit or cancellation raises the taken places of *)
(* a shift above needed_count, whatever the administrator did before.      *)
(***************************************************************************)
THEOREM PublicRespectsCapacity == Spec => PublicNeverOverbooks
  <1>1. TypeOK /\ Consistent /\ [Next]_vars =>
          [\A s \in Shifts :
             /\ PlacesTaken(s)' > PlacesTaken(s)
             /\ PlacesTaken(s)' > shift[s].needed
             => ~ \E v \in Volunteers : PublicStep(v)]_vars
    <2> SUFFICES ASSUME TypeOK, Consistent, NEW s \in Shifts, NEW v \in Volunteers,
                        PublicStep(v), PlacesTaken(s)' > PlacesTaken(s),
                        PlacesTaken(s)' > shift[s].needed
                 PROVE  FALSE
      OBVIOUS
    <2>1. PlacesTaken(s)' <= shift[s].needed
      BY PublicStepCapacity
    <2>2. shift[s].needed \in Nat
      BY DEF TypeOK, ShiftRow
    <2>3. PlacesTaken(s)' \in Nat
      BY HoldersGrowByOne, TakenIsHeld DEF ACTIVE_ASSIGNMENT_STATUSES
    <2>4. QED
      BY <2>1, <2>2, <2>3
  <1>2. QED
    BY <1>1, TypeCorrect, TablesConsistent, PTL DEF Spec, PublicNeverOverbooks

(***************************************************************************)
(* Whoever joins a waitlist by a public step found the shift full and the  *)
(* waitlist below its capacity, and so it stays.                           *)
(***************************************************************************)
THEOREM WaitlistRespected == Spec => WaitlistOnlyWhenFull
  <1> DEFINE Respected(s) ==
               /\ PlacesTaken(s)' >= shift[s].needed
               /\ shift[s].waitlist # NoWaitlist
               /\ Cardinality(Waiting(s)') <= shift[s].waitlist
  <1>1. ASSUME TypeOK, Consistent, NEW s \in Shifts, NEW v \in Volunteers,
               v \in Waiting(s)' \ Waiting(s), PublicStep(v)
        PROVE  Respected(s)
    <2> DEFINE taken == Cardinality(Holders(s, ACTIVE_ASSIGNMENT_STATUSES))
               waiting == Cardinality(Holders(s, {"waitlisted"}))
    <2>1. RowGranted(v, s) /\ assignment'[v][s] = "waitlisted"
      BY <1>1, PublicStepRows DEF Waiting, RowKept
    <2>2. ~ (available_places(s) > 0) /\ WaitlistHasRoom(s)
      BY <2>1 DEF RowGranted, CanAssign, _assignment_status
    <2>3. /\ taken \in Nat /\ waiting \in Nat
          /\ shift[s].needed \in Nat
          /\ shift[s].waitlist \in Nat \cup {NoWaitlist}
      BY <1>1, HoldersFinite DEF TypeOK, ShiftRow
    <2>4. taken >= shift[s].needed
      BY <2>2, <2>3 DEF available_places
    <2>5. /\ shift[s].waitlist # NoWaitlist
          /\ waiting < shift[s].waitlist
      BY <2>2 DEF WaitlistHasRoom
    <2>6. PlacesTaken(s)' \in Nat /\ taken <= PlacesTaken(s)'
      <3> DEFINE old == Holders(s, ACTIVE_ASSIGNMENT_STATUSES)
                 new == Holders(s, ACTIVE_ASSIGNMENT_STATUSES)'
      <3>1. v \notin old
        BY <2>1 DEF RowGranted, Live, LiveStatuses, Holders
      <3>2. \A u \in Volunteers \ {v} : RowKept(u, s)
        BY <1>1, PublicStepRows
      <3>3. old \subseteq new /\ new \in SUBSET Volunteers
        BY <3>1, <3>2 DEF Holders, RowKept
      <3>4. PlacesTaken(s)' = Cardinality(new)
        BY TakenIsHeld
      <3> HIDE DEF new
      <3>5. IsFiniteSet(new)
        BY <3>3, VolunteersAssumption, FS_Subset
      <3> HIDE DEF old
      <3>6. Cardinality(old) <= Cardinality(new) /\ Cardinality(new) \in Nat
        BY <3>3, <3>5, FS_Subset, FS_CardinalityType
      <3>7. QED
        BY <3>4, <3>6 DEF old
    <2>7. /\ Cardinality(Waiting(s)') \in Nat
          /\ Cardinality(Waiting(s)') <= waiting + 1
      BY <1>1, HoldersGrowByOne, TakenIsHeld
    <2> HIDE DEF taken, waiting
    <2>8. QED
      BY <2>3, <2>4, <2>5, <2>6, <2>7
  <1> HIDE DEF Respected
  <1>2. TypeOK /\ Consistent /\ [Next]_vars =>
          [\A s \in Shifts, v \in Volunteers :
             v \in Waiting(s)' \ Waiting(s) /\ PublicStep(v) => Respected(s)]_vars
    BY <1>1
  <1>3. QED
    BY <1>2, TypeCorrect, TablesConsistent, PTL
       DEF Spec, WaitlistOnlyWhenFull, Respected

-----------------------------------------------------------------------------
LEMMA LeastNatural ==
  ASSUME NEW T \in SUBSET Nat, T # {}
  PROVE  \E x \in T : \A y \in T : x <= y
  <1> DEFINE R == {p \in Nat \X Nat : p[1] < p[2]}
  <1>1. IsWellFoundedOn(R, Nat)
    BY NatLessThanWellFounded DEF OpToRel
  <1>2. \A x, y \in Nat : y < x => <<y, x>> \in R
    OBVIOUS
  <1> HIDE DEF R
  <1>3. PICK x \in T : \A y \in T : ~ <<y, x>> \in R
    BY <1>1, WFMin
  <1>4. ASSUME NEW y \in T
        PROVE  x <= y
    <2>1. x \in Nat /\ y \in Nat
      OBVIOUS
    <2>2. ~ (y < x)
      BY <1>2, <1>3, <2>1, Zenon
    <2>3. QED
      BY <2>1, <2>2
  <1>5. QED
    BY <1>4

(***************************************************************************)
(* _selected_shifts compares a shift with those that start next only. That *)
(* is enough: a shift that starts later than s has a neighbour of s at or  *)
(* before it.                                                              *)
(***************************************************************************)
LEMMA NeighboursSuffice ==
  ASSUME TypeOK, NEW sel \in SUBSET Shifts, _selected_shifts(sel),
         NEW s \in sel, NEW t \in sel, s # t
  PROVE  ~ Overlap(s, t)
  <1>1. \A u \in Shifts : shift[u].starts \in Nat /\ shift[u].ends \in Nat
    BY DEF TypeOK, ShiftRow
  <1>2. ASSUME NEW a \in sel, NEW b \in sel, a # b, shift[a].starts <= shift[b].starts
        PROVE  shift[a].ends <= shift[b].starts
    <2>1. CASE Neighbours(sel, a, b)
      BY <2>1 DEF _selected_shifts
    <2>2. CASE ~ Neighbours(sel, a, b)
      <3> DEFINE later == {shift[u].starts : u \in {w \in sel :
                             shift[a].starts < shift[w].starts}}
      <3>1. PICK u \in sel : /\ shift[a].starts < shift[u].starts
                             /\ shift[u].starts < shift[b].starts
        BY <1>2, <2>2 DEF Neighbours
      <3>2. later \in SUBSET Nat /\ later # {}
        BY <1>1, <3>1
      <3>3. PICK n \in later : \A m \in later : n <= m
        <4> HIDE DEF later
        <4> QED BY <3>2, LeastNatural
      <3>4. PICK c \in sel : shift[a].starts < shift[c].starts /\ n = shift[c].starts
        OBVIOUS
      <3>5. \A w \in sel : shift[a].starts < shift[w].starts => n <= shift[w].starts
        BY <3>3
      <3>6. Neighbours(sel, a, c)
        BY <1>1, <3>4, <3>5 DEF Neighbours
      <3>7. shift[a].ends <= shift[c].starts
        BY <3>6 DEF _selected_shifts
      <3>8. n <= shift[u].starts
        BY <3>1, <3>5
      <3>9. QED
        BY <1>1, <3>1, <3>4, <3>7, <3>8
    <2>3. QED
      BY <2>1, <2>2
  <1>3. QED
    BY <1>1, <1>2 DEF Overlap

(***************************************************************************)
(* After a registration or an edit nobody holds or awaits places in two    *)
(* shifts that overlap, however shifts were moved and rows were assigned   *)
(* before.                                                                 *)
(***************************************************************************)
THEOREM PublicEditResolvesConflicts == Spec => PublicEditLeavesNoConflict
  <1>1. ASSUME TypeOK, NEW v \in Volunteers, NEW sel \in SUBSET Shifts,
               create_registration(v, sel) \/ update_registration(v, sel),
               NEW s \in Shifts, Live(v, s)'
        PROVE  s \in sel /\ _selected_shifts(sel)
    <2>1. CASE create_registration(v, sel)
      <3>1. assignment'[v] = CreatedRows(sel)
        BY <1>1, <2>1 DEF create_registration, SetRows, TypeOK
      <3>2. QED
        BY <1>1, <2>1, <3>1 DEF create_registration, CreatedRows, Live, LiveStatuses,
                                ACTIVE_ASSIGNMENT_STATUSES, Absent
    <2>2. CASE update_registration(v, sel)
      <3>1. assignment'[v] = UpdatedRows(v, sel)
        BY <1>1, <2>2 DEF update_registration, SetRows, TypeOK
      <3>2. QED
        BY <1>1, <2>2, <3>1 DEF update_registration, UpdatedRows, UpdatedRow, Live,
                                LiveStatuses, ACTIVE_ASSIGNMENT_STATUSES
    <2>3. QED
      BY <1>1, <2>1, <2>2
  <1>2. TypeOK /\ [Next]_vars =>
          [\A v \in Volunteers, s, t \in Shifts :
             s # t /\ Live(v, s)' /\ Live(v, t)' /\ Overlap(s, t) =>
               ~ \E sel \in SUBSET Shifts :
                   create_registration(v, sel) \/ update_registration(v, sel)]_vars
    BY <1>1, NeighboursSuffice
  <1>3. QED
    BY <1>2, TypeCorrect, PTL DEF Spec, PublicEditLeavesNoConflict

-----------------------------------------------------------------------------
(***************************************************************************)
(* promote_first_waitlisted passes nobody over, because the order it reads *)
(* names every waiting person once (QueueListsRows).                       *)
(***************************************************************************)
THEOREM PromotionsAreFair == Spec => PromotionIsFair
  <1>1. ASSUME TypeOK, Consistent, NEW s \in Shifts, promote_first_waitlisted(s),
               NEW i \in 1..Len(registered[s]), NEW j \in 1..Len(registered[s]),
               registered[s][i] \in Waiting(s) \ Waiting(s)',
               registered[s][j] \in Waiting(s)'
        PROVE  i < j
    <2>1. PICK v \in Volunteers : FirstWaitlisted(s, v) /\ SetRow(v, s, "confirmed")
      BY <1>1 DEF promote_first_waitlisted
    <2>2. /\ assignment'[v][s] = "confirmed"
          /\ \A u \in Volunteers \ {v} : assignment'[u][s] = assignment[u][s]
      BY <1>1, <2>1 DEF SetRow, SetRows, TypeOK
    <2>3. registered[s][i] = v
      BY <1>1, <2>2 DEF Waiting
    <2>4. registered[s][j] # v /\ assignment[registered[s][j]][s] = "waitlisted"
      BY <1>1, <2>2 DEF Waiting
    <2>5. PICK k \in 1..Len(registered[s]) :
            /\ registered[s][k] = v
            /\ \A l \in 1..(k - 1) : assignment[registered[s][l]][s] # "waitlisted"
      BY <2>1 DEF FirstWaitlisted
    <2>6. i = k
      BY <1>1, <2>3, <2>5 DEF Consistent, QueueListsRows
    <2>7. j # k /\ ~ (j \in 1..(k - 1))
      BY <2>4, <2>5
    <2>8. registered[s] \in Seq(Volunteers)
      BY <1>1 DEF TypeOK
    <2>9. Len(registered[s]) \in Nat
      BY <2>8
    <2>10. QED
      BY <2>6, <2>7, <2>9
  <1>2. TypeOK /\ Consistent /\ [Next]_vars =>
          [\A s \in Shifts : \A i, j \in 1..Len(registered[s]) :
             /\ registered[s][i] \in Waiting(s) \ Waiting(s)'
             /\ registered[s][j] \in Waiting(s)'
             /\ promote_first_waitlisted(s)
             => i < j]_vars
    BY <1>1
  <1>3. QED
    BY <1>2, TypeCorrect, TablesConsistent, PTL DEF Spec, PromotionIsFair

-----------------------------------------------------------------------------
(***************************************************************************)
(* Only existing rows overbook.                                            *)
(***************************************************************************)
LEMMA AtMostOneMore ==
  ASSUME NEW S, NEW T, NEW x, IsFiniteSet(S), T \subseteq S \cup {x}
  PROVE  Cardinality(T) <= Cardinality(S) + 1
  <1>1. IsFiniteSet(S \cup {x}) /\ Cardinality(S \cup {x}) <= Cardinality(S) + 1
    <2>1. Cardinality(S) \in Nat
      BY FS_CardinalityType
    <2>2. QED
      BY <2>1, FS_AddElement
  <1>2. IsFiniteSet(T) /\ Cardinality(T) <= Cardinality(S \cup {x})
    BY <1>1, FS_Subset
  <1>3. QED
    BY <1>1, <1>2, FS_CardinalityType

LEMMA SetRowKeepsOthers ==
  ASSUME TypeOK, NEW u \in Volunteers, NEW t \in Shifts, NEW status \in AssignmentStatus,
         SetRow(u, t, status)
  PROVE  /\ assignment'[u][t] = status
         /\ \A v \in Volunteers, s \in Shifts : v # u \/ s # t => RowKept(v, s)
  BY DEF SetRow, SetRows, RowKept, TypeOK

(***************************************************************************)
(* A step that inserts a row of v in s which takes a place is a public     *)
(* step or an assignment; it found a place and inserts no other row in s.  *)
(***************************************************************************)
NewlyPlaced(v, s) == assignment[v][s] = Absent /\ assignment'[v][s] \in OccupyingStatuses

LEMMA NewRowFits ==
  ASSUME TypeOK, Consistent, Next, NEW v \in Volunteers, NEW s \in Shifts, NewlyPlaced(v, s)
  PROVE  /\ occupied(s) < shift[s].needed
         /\ \A u \in Volunteers \ {v} : RowKept(u, s)
  <1>1. ~ RowKept(v, s)
    BY DEF NewlyPlaced, RowKept, OccupyingStatuses, Absent
  <1>2. ASSUME NEW u \in Volunteers, PublicStep(u)
        PROVE  /\ occupied(s) < shift[s].needed
               /\ \A w \in Volunteers \ {v} : RowKept(w, s)
    <2>1. u = v /\ RowGranted(v, s)
      BY <1>1, <1>2, PublicStepRows DEF NewlyPlaced, OccupyingStatuses
    <2>2. available_places(s) > 0
      BY <2>1 DEF RowGranted, _assignment_status, NewlyPlaced, OccupyingStatuses
    <2>3. Cardinality(Holders(s, ACTIVE_ASSIGNMENT_STATUSES)) < shift[s].needed
      BY <2>2, HoldersFinite DEF available_places, TypeOK, ShiftRow
    <2>4. Holders(s, OccupyingStatuses) \subseteq Holders(s, ACTIVE_ASSIGNMENT_STATUSES)
      BY DEF Holders, OccupyingStatuses, ACTIVE_ASSIGNMENT_STATUSES
    <2>5. occupied(s) <= Cardinality(Holders(s, ACTIVE_ASSIGNMENT_STATUSES))
      BY <2>4, HoldersFinite, FS_Subset DEF occupied
    <2>6. /\ occupied(s) \in Nat /\ shift[s].needed \in Nat
          /\ Cardinality(Holders(s, ACTIVE_ASSIGNMENT_STATUSES)) \in Nat
      BY HoldersFinite DEF occupied, TypeOK, ShiftRow
    <2>7. QED
      BY <1>2, <2>1, <2>3, <2>5, <2>6, PublicStepRows
  <1>3. ASSUME NEW u \in Volunteers, NEW t \in Shifts, NEW status \in AssignmentStatus,
               SetRow(u, t, status), HasRow(u, t)
        PROVE  FALSE
    BY <1>1, <1>3, SetRowKeepsOthers DEF NewlyPlaced, HasRow
  <1>4. ~ CheckInStep
    BY <1>3 DEF CheckInStep, check_in_assignment, check_out_assignment, HasRow,
                AssignmentStatus, Absent
  <1>5. ~ \E u \in Volunteers, t \in Shifts, status \in AssignmentStatus :
            change_assignment_status(u, t, status)
    BY <1>3 DEF change_assignment_status
  <1>6. ~ \E t \in Shifts : promote_first_waitlisted(t)
    BY <1>3 DEF promote_first_waitlisted, FirstWaitlisted, HasRow, AssignmentStatus, Absent
  <1>7. ASSUME NEW u \in Volunteers, reject_volunteer(u)
        PROVE  FALSE
    <2>1. assignment' = [assignment EXCEPT ![u] = RejectedRows(u)]
      BY <1>7 DEF reject_volunteer, SetRows
    <2>2. QED
      BY <1>1, <2>1 DEF RejectedRows, RejectedRow, RowKept, NewlyPlaced, TypeOK
  <1>8. ~ \E u \in Volunteers : create_volunteer_admin(u) \/ anonymize_volunteer(u)
    BY <1>1 DEF create_volunteer_admin, anonymize_volunteer, RowKept
  <1>9. ~ \E selected \in SUBSET Volunteers :
            \/ \E status \in VolunteerStatus : bulk_volunteer_status(selected, status)
            \/ \E status \in AssignmentStatus : bulk_assignment_status(selected, status)
    BY <1>1 DEF bulk_volunteer_status, bulk_assignment_status, BulkRow, RowKept, NewlyPlaced
  <1>10. ~ PlanningStep(ShiftStatus)
    BY <1>1 DEF PlanningStep, create_shift, edit_shift_submit, update_shift_status,
                delete_or_cancel_shift, registration_window, RowKept
  <1>11. ASSUME NEW u \in Volunteers, NEW t \in Shifts, NEW status \in AssignmentStatus,
                NEW override_conflict \in BOOLEAN,
                assign_volunteer(u, t, status, override_conflict)
         PROVE  /\ occupied(s) < shift[s].needed
                /\ \A w \in Volunteers \ {v} : RowKept(w, s)
    <2>1. SetRow(u, t, status)
      BY <1>11 DEF assign_volunteer, change_assignment_status
    <2>2. u = v /\ t = s /\ \A w \in Volunteers \ {v} : RowKept(w, s)
      BY <1>1, <2>1, SetRowKeepsOthers
    <2>3. status = "confirmed" /\ ~ HasRow(v, s)
      BY <1>11, <2>1, <2>2, SetRowKeepsOthers DEF assign_volunteer, NewlyPlaced, HasRow,
                                                  OccupyingStatuses
    <2>4. QED
      BY <1>11, <2>2, <2>3 DEF assign_volunteer, change_assignment_status
  <1>12. QED
    BY <1>2, <1>4, <1>5, <1>6, <1>7, <1>8, <1>9, <1>10, <1>11
       DEF Next, VolunteerAdminStep

(***************************************************************************)
(* Public requests, assignments, promotions and check-ins insert no row    *)
(* into a place that is not there: a shift is overbooked only by setting   *)
(* the status of a row that exists (as AdminCannotOverbook finds).         *)
(***************************************************************************)
THEOREM NewRowsFit == Spec => NewRowsNeverOverbook
  <1> DEFINE Revived(s) == \E v \in Volunteers :
        /\ assignment[v][s] \notin OccupyingStatuses \cup {Absent}
        /\ assignment'[v][s] \in OccupyingStatuses
  <1>1. ASSUME TypeOK, Consistent, Next, NEW s \in Shifts, occupied(s)' > occupied(s),
               ~ Revived(s)
        PROVE  occupied(s)' <= shift[s].needed
    <2> DEFINE old == Holders(s, OccupyingStatuses)
               new == Holders(s, OccupyingStatuses)'
    <2>1. /\ IsFiniteSet(old) /\ Cardinality(old) \in Nat
          /\ occupied(s) = Cardinality(old) /\ occupied(s)' = Cardinality(new)
          /\ shift[s].needed \in Nat
      BY <1>1, HoldersFinite DEF occupied, TypeOK, ShiftRow
    <2>2. \A v \in new : v \in old \/ NewlyPlaced(v, s)
      BY <1>1 DEF Holders, NewlyPlaced
    <2>3. new \subseteq old => Cardinality(new) <= Cardinality(old)
      BY <2>1, FS_Subset
    <2>4. IsFiniteSet(new)
      <3>1. new \in SUBSET Volunteers
        BY DEF Holders
      <3>2. QED
        BY <3>1, VolunteersAssumption, FS_Subset
    <2>5. Cardinality(new) \in Nat
      BY <2>4, FS_CardinalityType
    <2>6. PICK v \in Volunteers : NewlyPlaced(v, s)
      <3>1. ~ (new \subseteq old)
        BY <1>1, <2>1, <2>3, <2>5
      <3>2. QED
        BY <2>2, <3>1 DEF Holders
    <2>7. occupied(s) < shift[s].needed /\ \A u \in Volunteers \ {v} : RowKept(u, s)
      BY <1>1, <2>6, NewRowFits
    <2>8. new \subseteq old \cup {v}
      BY <2>7 DEF Holders, RowKept
    <2>9. Cardinality(new) <= Cardinality(old) + 1
      BY <2>1, <2>8, AtMostOneMore
    <2>10. QED
      BY <2>1, <2>5, <2>7, <2>9
  <1>2. TypeOK /\ Consistent /\ [Next]_vars =>
          [\A s \in Shifts :
             /\ occupied(s)' > occupied(s)
             /\ occupied(s)' > shift[s].needed
             => \E v \in Volunteers :
                  /\ assignment[v][s] \notin OccupyingStatuses \cup {Absent}
                  /\ assignment'[v][s] \in OccupyingStatuses]_vars
    <2> SUFFICES ASSUME TypeOK, Consistent, Next, NEW s \in Shifts,
                        occupied(s)' > occupied(s), occupied(s)' > shift[s].needed,
                        ~ Revived(s)
                 PROVE  FALSE
      BY DEF vars
    <2>1. occupied(s)' <= shift[s].needed
      BY <1>1
    <2>2. IsFiniteSet(Holders(s, OccupyingStatuses)')
      <3>1. Holders(s, OccupyingStatuses)' \in SUBSET Volunteers
        BY DEF Holders
      <3>2. QED
        BY <3>1, VolunteersAssumption, FS_Subset
    <2>3. occupied(s)' \in Nat /\ shift[s].needed \in Nat
      BY <2>2, FS_CardinalityType DEF occupied, TypeOK, ShiftRow
    <2>4. QED
      BY <2>1, <2>3
  <1>3. QED
    BY <1>2, TypeCorrect, TablesConsistent, PTL DEF Spec, NewRowsNeverOverbook
===============================================================================

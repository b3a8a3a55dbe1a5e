---------------------------- MODULE Registrations ----------------------------
(***************************************************************************)
(* Allocation of volunteers to the shifts of one event: the rows of the    *)
(* tables volunteers, shifts and shift_assignments, and every handler that *)
(* writes them (app/services/registrations.py, admin.py, checkins.py and   *)
(* the routes of app/main.py and app/api/public.py that call them).        *)
(*                                                                         *)
(* One action is one handler run from its first query to its commit, with  *)
(* no other handler in between; module Requests lifts that restriction.    *)
(* A handler that raises leaves the session uncommitted and get_db closes  *)
(* it, so an error path is a step that changes nothing and is left to      *)
(* stuttering: each action states the conditions under which its handler   *)
(* reaches the commit.                                                     *)
(*                                                                         *)
(* Left out, because no handler of this module reads them: confirmed_at,   *)
(* cancelled_at, source, names and contact data, the audit log; left to    *)
(* other modules of the plan: mails, materials, ages.                      *)
(***************************************************************************)
EXTENDS Integers, Sequences, FiniteSets

CONSTANTS
  Volunteers,   \* ids of volunteer rows that may come to exist
  Shifts,       \* ids of shift rows that may come to exist
  ShiftForms,   \* the data an administrator may submit for a shift
  NoWaitlist    \* waitlist_capacity IS NULL

(***************************************************************************)
(* create_shift and edit_shift_submit refuse a shift that does not end     *)
(* after it starts and negative capacities.                                *)
(***************************************************************************)
ASSUME ShiftFormsAssumption ==
  /\ NoWaitlist \notin Nat
  /\ ShiftForms \subseteq [needed: Nat, waitlist: Nat \cup {NoWaitlist},
                           starts: Nat, ends: Nat]
  /\ \A f \in ShiftForms : f.starts < f.ends

ASSUME VolunteersAssumption == IsFiniteSet(Volunteers)

AssignmentStatus ==
  {"proposed", "pending", "confirmed", "waitlisted", "cancelled", "rejected",
   "checked_in", "attended", "no_show"}

ShiftStatus == {"draft", "open", "full", "closed", "cancelled", "completed"}

VolunteerStatus ==
  {"submitted", "needs_more_info", "orga_review", "orga_approved",
   "police_export_required", "police_exported", "police_cleared", "assigned",
   "rejected", "blocked", "archived", "deleted_operational_data"}

Absent == "absent"   \* there is no such row

(***************************************************************************)
(* Statuses that take a place, for a public registration and for the       *)
(* administrator's workflows: admin.py does not count pending rows.        *)
(***************************************************************************)
ACTIVE_ASSIGNMENT_STATUSES == {"pending", "confirmed", "checked_in", "attended"}
OccupyingStatuses == {"confirmed", "checked_in", "attended"}

VARIABLES
  registrationOpen,  \* the event is public, open, and now is within its window
  shift,             \* shift rows
  volunteerStatus,   \* status of the volunteer rows
  editToken,         \* edit_token_hash and edit_token_revoked_at of those rows
  anonymized,        \* volunteers with anonymized_at set
  assignment,        \* assignment_status of the row of a volunteer in a shift
  registered,        \* the rows of a shift in (registered_at, id) order
  checkin            \* volunteers with a check_ins row, by shift

volunteerVars == <<volunteerStatus, editToken, anonymized>>
vars == <<registrationOpen, shift, volunteerVars, assignment, registered, checkin>>

ShiftRow ==
  [status: ShiftStatus \cup {Absent}, needed: Nat,
   waitlist: Nat \cup {NoWaitlist}, starts: Nat, ends: Nat]

(***************************************************************************)
(* "none" is a row without a hash that was never revoked: an administrator *)
(* created it.                                                             *)
(***************************************************************************)
Tokens == {"none", "valid", "revoked"}

TypeOK ==
  /\ registrationOpen \in BOOLEAN
  /\ shift \in [Shifts -> ShiftRow]
  /\ volunteerStatus \in [Volunteers -> VolunteerStatus \cup {Absent}]
  /\ editToken \in [Volunteers -> Tokens]
  /\ anonymized \subseteq Volunteers
  /\ assignment \in [Volunteers -> [Shifts -> AssignmentStatus \cup {Absent}]]
  /\ registered \in [Shifts -> Seq(Volunteers)]
  /\ checkin \in [Shifts -> SUBSET Volunteers]

NoShift == [status |-> Absent, needed |-> 0, waitlist |-> NoWaitlist,
            starts |-> 0, ends |-> 1]

ShiftFrom(form, status) ==
  [status |-> status, needed |-> form.needed, waitlist |-> form.waitlist,
   starts |-> form.starts, ends |-> form.ends]

WithStatus(row, status, needed_count) ==
  [status |-> status, needed |-> needed_count, waitlist |-> row.waitlist,
   starts |-> row.starts, ends |-> row.ends]

(***************************************************************************)
(* An event as create_event leaves it, some shifts of which are planned    *)
(* already and that nobody signed up for.                                  *)
(***************************************************************************)
Init ==
  /\ registrationOpen \in BOOLEAN
  /\ shift \in [Shifts -> {NoShift} \cup {ShiftFrom(f, "open") : f \in ShiftForms}]
  /\ volunteerStatus = [v \in Volunteers |-> Absent]
  /\ editToken = [v \in Volunteers |-> "none"]
  /\ anonymized = {}
  /\ assignment = [v \in Volunteers |-> [s \in Shifts |-> Absent]]
  /\ registered = [s \in Shifts |-> <<>>]
  /\ checkin = [s \in Shifts |-> {}]

-----------------------------------------------------------------------------
(***************************************************************************)
(* What the handlers compute from the rows they read.                      *)
(***************************************************************************)
Exists(v) == volunteerStatus[v] # Absent
Planned(s) == shift[s].status # Absent
HasRow(v, s) == assignment[v][s] # Absent

Holders(s, statuses) == {v \in Volunteers : assignment[v][s] \in statuses}

\* Faulty variant: the public form counts as the administrator's forms do.
available_places_without_pending(s) ==
  LET free == shift[s].needed - Cardinality(Holders(s, OccupyingStatuses))
  IN IF free > 0 THEN free ELSE 0

available_places(s) ==
  LET free == shift[s].needed - Cardinality(Holders(s, ACTIVE_ASSIGNMENT_STATUSES))
  IN IF free > 0 THEN free ELSE 0

\* Faulty variant: the comparison with waitlist_capacity is off by one.
WaitlistHasRoom_off_by_one(s) ==
  /\ shift[s].waitlist # NoWaitlist
  /\ Cardinality(Holders(s, {"waitlisted"})) <= shift[s].waitlist

WaitlistHasRoom(s) ==
  /\ shift[s].waitlist # NoWaitlist
  /\ Cardinality(Holders(s, {"waitlisted"})) < shift[s].waitlist

(***************************************************************************)
(* _assignment_status: raises when neither a place nor the waitlist is     *)
(* free, else grants one of the two.                                       *)
(***************************************************************************)
CanAssign(s) == available_places(s) > 0 \/ WaitlistHasRoom(s)

\* Faulty variant: whoever may join the waitlist is given a place.
_assignment_status_always_confirms(s) == IF CanAssign(s) THEN "confirmed" ELSE "waitlisted"

_assignment_status(s) == IF available_places(s) > 0 THEN "confirmed" ELSE "waitlisted"

(***************************************************************************)
(* _selected_shifts sorts the selection by start and compares neighbours.  *)
(***************************************************************************)
Neighbours(sel, s, t) ==
  /\ s # t
  /\ shift[s].starts <= shift[t].starts
  /\ ~ \E u \in sel : /\ shift[s].starts < shift[u].starts
                      /\ shift[u].starts < shift[t].starts

_selected_shifts(sel) ==
  /\ sel # {}
  /\ \A s \in sel : shift[s].status = "open"
  /\ \A s, t \in sel : Neighbours(sel, s, t) => shift[s].ends <= shift[t].starts

(***************************************************************************)
(* The test of assign_volunteer, and of the properties below.              *)
(***************************************************************************)
Overlap(s, t) ==
  shift[s].starts < shift[t].ends /\ shift[t].starts < shift[s].ends

(***************************************************************************)
(* Rows update_registration calls active: it keeps or cancels them; every  *)
(* other row of a selected shift it revives.                               *)
(***************************************************************************)
LiveStatuses == ACTIVE_ASSIGNMENT_STATUSES \cup {"waitlisted"}
Live(v, s) == assignment[v][s] \in LiveStatuses

CreatedRows(sel) ==
  [s \in Shifts |-> IF s \in sel THEN _assignment_status(s) ELSE Absent]

\* Faulty variant: deselecting a shift one waits for keeps the waiting row.
UpdatedRow_keeps_waiting(v, sel, s) ==
  IF s \in sel
  THEN IF Live(v, s) THEN assignment[v][s] ELSE _assignment_status(s)
  ELSE IF assignment[v][s] \in ACTIVE_ASSIGNMENT_STATUSES THEN "cancelled"
                                                         ELSE assignment[v][s]

UpdatedRow(v, sel, s) ==
  IF s \in sel
  THEN IF Live(v, s) THEN assignment[v][s] ELSE _assignment_status(s)
  ELSE IF Live(v, s) THEN "cancelled" ELSE assignment[v][s]

UpdatedRows(v, sel) == [s \in Shifts |-> UpdatedRow(v, sel, s)]

\* Faulty variant: only rows that take a place are rejected.
RejectedRow_keeps_waiting(v, s) ==
  IF assignment[v][s] \in ACTIVE_ASSIGNMENT_STATUSES \ {"attended"}
  THEN "rejected"
  ELSE assignment[v][s]

RejectedRow(v, s) ==
  IF assignment[v][s] \in {Absent, "cancelled", "rejected", "attended", "no_show"}
  THEN assignment[v][s]
  ELSE "rejected"

RejectedRows(v) == [s \in Shifts |-> RejectedRow(v, s)]

(***************************************************************************)
(* The rows a handler inserts for v take the last place in their shifts.   *)
(***************************************************************************)
AppendRows(v, inserted) ==
  [s \in Shifts |-> IF s \in inserted THEN Append(registered[s], v)
                                      ELSE registered[s]]

SetRows(v, rows) ==
  /\ assignment' = [assignment EXCEPT ![v] = rows]
  /\ registered' =
       AppendRows(v, {s \in Shifts : ~ HasRow(v, s) /\ rows[s] # Absent})

SetRow(v, s, status) == SetRows(v, [assignment[v] EXCEPT ![s] = status])

\* Faulty variant: the waitlist is read newest first.
LastWaitlisted(s, v) ==
  \E i \in 1..Len(registered[s]) :
    /\ registered[s][i] = v
    /\ assignment[v][s] = "waitlisted"
    /\ \A j \in (i + 1)..Len(registered[s]) : assignment[registered[s][j]][s] # "waitlisted"

FirstWaitlisted(s, v) ==
  \E i \in 1..Len(registered[s]) :
    /\ registered[s][i] = v
    /\ assignment[v][s] = "waitlisted"
    /\ \A j \in 1..(i - 1) : assignment[registered[s][j]][s] # "waitlisted"

-----------------------------------------------------------------------------
(***************************************************************************)
(* Public handlers.                                                        *)
(***************************************************************************)
create_registration(v, sel) ==
  /\ ~ Exists(v)
  /\ registrationOpen
  /\ _selected_shifts(sel)
  /\ \A s \in sel : CanAssign(s)
  /\ volunteerStatus' = [volunteerStatus EXCEPT ![v] = "submitted"]
  /\ editToken' = [editToken EXCEPT ![v] = "valid"]
  /\ SetRows(v, CreatedRows(sel))
  /\ UNCHANGED <<registrationOpen, shift, anonymized, checkin>>

get_volunteer_by_edit_token(v) == editToken[v] = "valid"

update_registration(v, sel) ==
  /\ get_volunteer_by_edit_token(v)
  /\ registrationOpen
  /\ _selected_shifts(sel)
  /\ \A s \in sel : Live(v, s) \/ CanAssign(s)
  /\ SetRows(v, UpdatedRows(v, sel))
  /\ UNCHANGED <<registrationOpen, shift, volunteerVars, checkin>>

cancel_assignment(v, s) ==
  /\ get_volunteer_by_edit_token(v)
  /\ assignment[v][s] \notin {Absent, "cancelled"}
  /\ SetRow(v, s, "cancelled")
  /\ UNCHANGED <<registrationOpen, shift, volunteerVars, checkin>>

-----------------------------------------------------------------------------
(***************************************************************************)
(* Administrator's handlers on volunteers and their rows.                  *)
(***************************************************************************)
create_volunteer_admin(v) ==
  /\ ~ Exists(v)
  /\ volunteerStatus' = [volunteerStatus EXCEPT ![v] = "submitted"]
  /\ UNCHANGED <<registrationOpen, shift, editToken, anonymized, assignment,
                 registered, checkin>>

change_assignment_status(v, s, status) ==
  /\ HasRow(v, s)
  /\ status # "checked_in"
  /\ SetRow(v, s, status)
  /\ UNCHANGED <<registrationOpen, shift, volunteerVars, checkin>>

Conflicts(v, s) ==
  {t \in Shifts : assignment[v][t] \in ACTIVE_ASSIGNMENT_STATUSES /\ Overlap(s, t)}

occupied(s) == Cardinality(Holders(s, OccupyingStatuses))

\* Faulty variant: the comparison with needed_count is off by one.
assign_volunteer_off_by_one(v, s, status, override_conflict) ==
  /\ Exists(v)
  /\ Planned(s)
  /\ status \in {"confirmed", "waitlisted", "pending"}
  /\ \/ change_assignment_status(v, s, status)
     \/ /\ ~ HasRow(v, s)
        /\ Conflicts(v, s) # {} => override_conflict
        /\ status = "confirmed" => occupied(s) <= shift[s].needed
        /\ SetRow(v, s, status)
        /\ UNCHANGED <<registrationOpen, shift, volunteerVars, checkin>>

assign_volunteer(v, s, status, override_conflict) ==
  /\ Exists(v)
  /\ Planned(s)
  /\ status \in {"confirmed", "waitlisted", "pending"}
  /\ \/ change_assignment_status(v, s, status)
     \/ /\ ~ HasRow(v, s)
        /\ Conflicts(v, s) # {} => override_conflict
        /\ status = "confirmed" => occupied(s) < shift[s].needed
        /\ SetRow(v, s, status)
        /\ UNCHANGED <<registrationOpen, shift, volunteerVars, checkin>>

promote_first_waitlisted(s) ==
  /\ occupied(s) < shift[s].needed
  /\ \E v \in Volunteers : FirstWaitlisted(s, v) /\ SetRow(v, s, "confirmed")
  /\ UNCHANGED <<registrationOpen, shift, volunteerVars, checkin>>

(***************************************************************************)
(* The bulk action commits once per volunteer, so a bulk rejection is a    *)
(* series of these steps.                                                  *)
(***************************************************************************)
reject_volunteer(v) ==
  /\ Exists(v)
  /\ volunteerStatus' = [volunteerStatus EXCEPT ![v] = "rejected"]
  /\ editToken' = [editToken EXCEPT ![v] = "revoked"]
  /\ SetRows(v, RejectedRows(v))
  /\ UNCHANGED <<registrationOpen, shift, anonymized, checkin>>

anonymize_volunteer(v) ==
  /\ Exists(v)
  /\ v \notin anonymized
  /\ volunteerStatus' = [volunteerStatus EXCEPT ![v] = "deleted_operational_data"]
  /\ editToken' = [editToken EXCEPT ![v] = "revoked"]
  /\ anonymized' = anonymized \cup {v}
  /\ UNCHANGED <<registrationOpen, shift, assignment, registered, checkin>>

bulk_volunteer_status(selected, status) ==
  /\ selected # {}
  /\ \A v \in selected : Exists(v)
  /\ status # "rejected"
  /\ volunteerStatus' =
       [v \in Volunteers |-> IF v \in selected THEN status ELSE volunteerStatus[v]]
  /\ UNCHANGED <<registrationOpen, shift, editToken, anonymized, assignment,
                 registered, checkin>>

BulkRow(v, s, status) ==
  IF assignment[v][s] \in {Absent, "cancelled"} THEN assignment[v][s] ELSE status

\* Faulty variant: the bulk action does not refuse checked_in.
bulk_assignment_status_any(selected, status) ==
  /\ selected # {}
  /\ \A v \in selected : Exists(v)
  /\ assignment' = [v \in Volunteers |-> [s \in Shifts |->
       IF v \in selected THEN BulkRow(v, s, status) ELSE assignment[v][s]]]
  /\ UNCHANGED <<registrationOpen, shift, volunteerVars, registered, checkin>>

bulk_assignment_status(selected, status) ==
  /\ selected # {}
  /\ \A v \in selected : Exists(v)
  /\ status # "checked_in"
  /\ assignment' = [v \in Volunteers |-> [s \in Shifts |->
       IF v \in selected THEN BulkRow(v, s, status) ELSE assignment[v][s]]]
  /\ UNCHANGED <<registrationOpen, shift, volunteerVars, registered, checkin>>

check_in_assignment(v, s) ==
  /\ assignment[v][s] \in {"confirmed", "checked_in"}
  /\ checkin' = [checkin EXCEPT ![s] = @ \cup {v}]
  /\ SetRow(v, s, "checked_in")
  /\ UNCHANGED <<registrationOpen, shift, volunteerVars>>

check_out_assignment(v, s) ==
  /\ HasRow(v, s)
  /\ v \in checkin[s]
  /\ SetRow(v, s, "attended")
  /\ UNCHANGED <<registrationOpen, shift, volunteerVars, checkin>>

-----------------------------------------------------------------------------
(***************************************************************************)
(* Administrator's handlers on shifts and on the event.                    *)
(***************************************************************************)
create_shift(s, form) ==
  /\ ~ Planned(s)
  /\ shift' = [shift EXCEPT ![s] = ShiftFrom(form, "open")]
  /\ UNCHANGED <<registrationOpen, volunteerVars, assignment, registered, checkin>>

edit_shift_submit(s, form, status) ==
  /\ Planned(s)
  /\ shift' = [shift EXCEPT ![s] = ShiftFrom(form, status)]
  /\ UNCHANGED <<registrationOpen, volunteerVars, assignment, registered, checkin>>

\* Faulty variant: the form stores the places still free.
update_shift_status_free_places(s, status, needed_count) ==
  /\ Planned(s)
  /\ shift' = [shift EXCEPT ![s] =
       WithStatus(shift[s], status, needed_count - occupied(s))]
  /\ UNCHANGED <<registrationOpen, volunteerVars, assignment, registered, checkin>>

update_shift_status(s, status, needed_count) ==
  /\ Planned(s)
  /\ shift' = [shift EXCEPT ![s] = WithStatus(shift[s], status, needed_count)]
  /\ UNCHANGED <<registrationOpen, volunteerVars, assignment, registered, checkin>>

\* Faulty variant: a shift whose rows are all cancelled is deleted, and the
\* foreign key's ON DELETE CASCADE takes the rows with it.
delete_or_cancel_shift_unoccupied(s) ==
  /\ Planned(s)
  /\ shift' = [shift EXCEPT ![s] =
       IF \E v \in Volunteers : Live(v, s)
       THEN WithStatus(shift[s], "cancelled", shift[s].needed)
       ELSE NoShift]
  /\ assignment' = IF \E v \in Volunteers : Live(v, s) THEN assignment
       ELSE [v \in Volunteers |-> [assignment[v] EXCEPT ![s] = Absent]]
  /\ UNCHANGED <<registrationOpen, volunteerVars, registered, checkin>>

delete_or_cancel_shift(s) ==
  /\ Planned(s)
  /\ shift' = [shift EXCEPT ![s] =
       IF \E v \in Volunteers : HasRow(v, s)
       THEN WithStatus(shift[s], "cancelled", shift[s].needed)
       ELSE NoShift]
  /\ UNCHANGED <<registrationOpen, volunteerVars, assignment, registered, checkin>>

(***************************************************************************)
(* edit_event and archive_event change what _validate_event_is_open reads, *)
(* and so does the passing of registration_opens_at or _closes_at.         *)
(***************************************************************************)
registration_window ==
  /\ registrationOpen' = ~ registrationOpen
  /\ UNCHANGED <<shift, volunteerVars, assignment, registered, checkin>>

-----------------------------------------------------------------------------
PublicStep(v) ==
  \/ \E sel \in SUBSET Shifts : create_registration(v, sel) \/ update_registration(v, sel)
  \/ \E s \in Shifts : cancel_assignment(v, s)

CheckInStep ==
  \E v \in Volunteers, s \in Shifts :
    check_in_assignment(v, s) \/ check_out_assignment(v, s)

VolunteerAdminStep(statuses, volunteerStatuses) ==
  \/ \E v \in Volunteers :
       create_volunteer_admin(v) \/ reject_volunteer(v) \/ anonymize_volunteer(v)
  \/ \E v \in Volunteers, s \in Shifts, status \in statuses :
       \/ change_assignment_status(v, s, status)
       \/ \E override_conflict \in BOOLEAN :
            assign_volunteer(v, s, status, override_conflict)
  \/ \E s \in Shifts : promote_first_waitlisted(s)
  \/ \E selected \in SUBSET Volunteers :
       \/ \E status \in volunteerStatuses : bulk_volunteer_status(selected, status)
       \/ \E status \in statuses : bulk_assignment_status(selected, status)

PlanningStep(shiftStatuses) ==
  \/ \E s \in Shifts, form \in ShiftForms :
       \/ create_shift(s, form)
       \/ \E status \in shiftStatuses :
            \/ edit_shift_submit(s, form, status)
            \/ update_shift_status(s, status, form.needed)
  \/ \E s \in Shifts : delete_or_cancel_shift(s)
  \/ registration_window

Next ==
  \/ \E v \in Volunteers : PublicStep(v)
  \/ CheckInStep
  \/ VolunteerAdminStep(AssignmentStatus, VolunteerStatus)
  \/ PlanningStep(ShiftStatus)

Spec == Init /\ [][Next]_vars

-----------------------------------------------------------------------------
(***************************************************************************)
(* Foreign keys of shift_assignments: whoever holds a row exists, and the  *)
(* shift has not been deleted (delete_or_cancel_shift keeps one that has   *)
(* rows).                                                                  *)
(***************************************************************************)
RowsHaveParents ==
  \A v \in Volunteers, s \in Shifts : HasRow(v, s) => Exists(v) /\ Planned(s)

(***************************************************************************)
(* The order promote_first_waitlisted sorts by lists every row of a shift, *)
(* each one once: reviving a row neither moves nor repeats it.             *)
(***************************************************************************)
QueueListsRows ==
  \A s \in Shifts :
    /\ \A i \in 1..Len(registered[s]) : HasRow(registered[s][i], s)
    /\ \A v \in Volunteers : HasRow(v, s) =>
         \E i \in 1..Len(registered[s]) : registered[s][i] = v
    /\ \A i, j \in 1..Len(registered[s]) :
         registered[s][i] = registered[s][j] => i = j

(***************************************************************************)
(* Whoever is checked in has a check-in record, so that check-out and the  *)
(* return of materials remain possible: only check_in_assignment sets that *)
(* status, every other handler refuses it.                                 *)
(***************************************************************************)
CheckedInHasRecord ==
  \A v \in Volunteers, s \in Shifts :
    assignment[v][s] = "checked_in" => v \in checkin[s]

(***************************************************************************)
(* A token, valid or revoked, belongs to a person who exists.              *)
(***************************************************************************)
TokensHaveOwners == \A v \in Volunteers : editToken[v] # "none" => Exists(v)

(***************************************************************************)
(* The tables refer to each other consistently after every handler.        *)
(***************************************************************************)
Consistent ==
  RowsHaveParents /\ TokensHaveOwners /\ QueueListsRows /\ CheckedInHasRecord

-----------------------------------------------------------------------------
PlacesTaken(s) == Cardinality({v \in Volunteers :
  assignment[v][s] \in {"pending", "confirmed", "checked_in", "attended"}})

(***************************************************************************)
(* A person who registers, edits or cancels never brings the number of     *)
(* taken places of a shift above needed_count by raising it, although the  *)
(* administrator may have lowered needed_count, overbooked the shift or    *)
(* re-opened rows before (available_places, _assignment_status).           *)
(***************************************************************************)
PublicNeverOverbooks ==
  [][\A s \in Shifts :
       /\ PlacesTaken(s)' > PlacesTaken(s)
       /\ PlacesTaken(s)' > shift[s].needed
       => ~ \E v \in Volunteers : PublicStep(v)]_vars

Waiting(s) == {v \in Volunteers : assignment[v][s] = "waitlisted"}

(***************************************************************************)
(* A person joins the waitlist of a shift only when the shift is full, has *)
(* a waitlist, and the waitlist stays within its capacity                  *)
(* (_assignment_status), also when a row is revived by an edit.            *)
(***************************************************************************)
WaitlistOnlyWhenFull ==
  [][\A s \in Shifts, v \in Volunteers :
       v \in Waiting(s)' \ Waiting(s) /\ PublicStep(v) =>
         /\ PlacesTaken(s)' >= shift[s].needed
         /\ shift[s].waitlist # NoWaitlist
         /\ Cardinality(Waiting(s)') <= shift[s].waitlist]_vars

(***************************************************************************)
(* After a public registration or edit the person holds no two places,     *)
(* nor waits for any, in shifts that overlap in time, whatever the shifts  *)
(* were moved to or the administrator assigned before: comparing only      *)
(* neighbours in the sorted selection (_selected_shifts) is enough.        *)
(***************************************************************************)
PublicEditLeavesNoConflict ==
  [][\A v \in Volunteers, s, t \in Shifts :
       s # t /\ Live(v, s)' /\ Live(v, t)' /\ Overlap(s, t) =>
         ~ \E sel \in SUBSET Shifts :
             create_registration(v, sel) \/ update_registration(v, sel)]_vars

(***************************************************************************)
(* Rejecting a person releases every place and waitlist position they hold *)
(* and keeps the record of shifts they attended or missed                  *)
(* (reject_volunteer).                                                     *)
(***************************************************************************)
RejectionReleasesPlaces ==
  [][\A v \in Volunteers :
       volunteerStatus'[v] = "rejected" /\ volunteerStatus[v] # "rejected" =>
         \A s \in Shifts :
           IF assignment[v][s] \in {"attended", "no_show"}
           THEN assignment'[v][s] = assignment[v][s]
           ELSE assignment'[v][s] \in {Absent, "cancelled", "rejected"}]_vars

(***************************************************************************)
(* "Historical assignments are retained. Assignments are status-driven     *)
(* instead of hard-deleted": no handler removes a row, not even the        *)
(* deletion of its shift.                                                  *)
(***************************************************************************)
AssignmentsAreRetained ==
  [][\A v \in Volunteers, s \in Shifts : HasRow(v, s) => HasRow(v, s)']_vars

(***************************************************************************)
(* Rejection and anonymization remove edit access for good: no later step  *)
(* of anybody makes the token of that person valid again, and anonymized   *)
(* data is never un-anonymized.                                            *)
(***************************************************************************)
RevocationIsPermanent ==
  [][\A v \in Volunteers :
       /\ editToken[v] = "revoked" => editToken'[v] = "revoked"
       /\ v \in anonymized => v \in anonymized']_vars

(***************************************************************************)
(* A promotion from the waitlist passes nobody over: whoever is still      *)
(* waiting afterwards registered for the shift after the promoted person,  *)
(* even if their row was cancelled and revived in between.                 *)
(***************************************************************************)
PromotionIsFair ==
  [][\A s \in Shifts : \A i, j \in 1..Len(registered[s]) :
       /\ registered[s][i] \in Waiting(s) \ Waiting(s)'
       /\ registered[s][j] \in Waiting(s)'
       /\ promote_first_waitlisted(s)
       => i < j]_vars

(***************************************************************************)
(* No handler overbooks a shift with new rows: whenever the places taken   *)
(* (as the administrator's forms count them) rise above needed_count, some *)
(* row that existed before was set to a status that takes a place, which   *)
(* is how assign_volunteer breaks AdminCannotOverbook.                     *)
(***************************************************************************)
NewRowsNeverOverbook ==
  [][\A s \in Shifts :
       /\ occupied(s)' > occupied(s)
       /\ occupied(s)' > shift[s].needed
       => \E v \in Volunteers :
            /\ assignment[v][s] \notin OccupyingStatuses \cup {Absent}
            /\ assignment'[v][s] \in OccupyingStatuses]_vars

(***************************************************************************)
(* An administrator assigning somebody to a shift as confirmed does not    *)
(* overbook it (assign_volunteer refuses with "Die Schicht ist voll").     *)
(***************************************************************************)
AdminCannotOverbook ==
  [][\A v \in Volunteers, s \in Shifts, override_conflict \in BOOLEAN :
       /\ assign_volunteer(v, s, "confirmed", override_conflict)
       /\ occupied(s)' > occupied(s)
       => occupied(s)' <= shift[s].needed]_vars
=============================================================================

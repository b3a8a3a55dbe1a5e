-------------------------------- MODULE Materials --------------------------------
(***************************************************************************)
(* Materials handed out at the check-in desk, and the planning data they   *)
(* hang on: rows of teams, roles, team_materials, checkins and             *)
(* checkin_materials, the role of each shift and the status of each        *)
(* assignment (app/services/checkins.py and the planning routes of         *)
(* app/main.py).                                                           *)
(*                                                                         *)
(* As in Requests, a request is cut in two. The handler of a thread reads  *)
(* the committed rows and decides (one action); Commit writes the columns  *)
(* it changed into the rows committed by then, unless a key refuses it,    *)
(* and lets the database cascade. Nothing locks what a handler read.       *)
(*                                                                         *)
(* Shifts and assignments are there throughout (Registrations models how   *)
(* they come and go), and so is their one event. Statuses the desk treats  *)
(* alike are one: "other" stands for those it refuses. Names and amounts   *)
(* beyond the stock are left out.                                          *)
(***************************************************************************)
EXTENDS Integers, FiniteSets

CONSTANTS
  Teams, Roles, Materials,      \* ids the database can give to rows
  Shifts, Assignments,
  TeamOfRole, TeamOfMaterial,   \* team_id, which no handler changes
  ShiftOf,                      \* shift_id of each assignment
  Consumables,                  \* materials with is_consumable
  Quantities,                   \* quantity_available an administrator enters
  Threads,                      \* worker threads that may be inside a handler
  NoRole                        \* role_id IS NULL

ASSUME PlanAssumption ==
  /\ TeamOfRole \in [Roles -> Teams]
  /\ TeamOfMaterial \in [Materials -> Teams]
  /\ ShiftOf \in [Assignments -> Shifts]
  /\ Consumables \subseteq Materials
  /\ NoRole \notin Roles
ASSUME SizeAssumption ==
  /\ Quantities \subseteq Nat
  /\ IsFiniteSet(Assignments)
  /\ IsFiniteSet(Threads) /\ Threads # {}

VARIABLES
  db,          \* the committed rows
  request,     \* thread -> what its handler loaded and is about to commit
  hands,       \* <<a, m>>: the person of a holds a returnable m
  peak,        \* largest stock entered for a material since it was created
  stale,       \* some session committed onto rows that had changed meanwhile
  overridden   \* assignments whose status was set by hand after a check-in

deskVars == <<db, request, hands, peak, stale, overridden>>

Statuses == {"confirmed", "checked_in", "attended", "other"}
Issues == Assignments \X Materials

(***************************************************************************)
(* A row of checkin_materials is out until returned_at is set, or used if  *)
(* no return is required.                                                  *)
(***************************************************************************)
IssueStates == {"none", "out", "back", "used"}

Rows ==
  [team: [Teams -> BOOLEAN], role: [Roles -> BOOLEAN], material: [Materials -> BOOLEAN],
   available: [Materials -> Nat], active: [Materials -> BOOLEAN],
   shiftRole: [Shifts -> Roles \cup {NoRole}], status: [Assignments -> Statuses],
   checkin: [Assignments -> BOOLEAN], issue: [Issues -> IssueStates]]

-----------------------------------------------------------------------------
(***************************************************************************)
(* Rows refer to rows that exist, and only somebody with a check-in record *)
(* holds or held material.                                                 *)
(***************************************************************************)
References(rows) ==
  /\ \A r \in Roles : rows.role[r] => rows.team[TeamOfRole[r]]
  /\ \A m \in Materials : rows.material[m] => rows.team[TeamOfMaterial[m]]
  /\ \A s \in Shifts : rows.shiftRole[s] # NoRole => rows.role[rows.shiftRole[s]]
  /\ \A a \in Assignments, m \in Materials :
       rows.issue[<<a, m>>] # "none" => rows.checkin[a] /\ rows.material[m]

Plan(team, role, material, active, available, shiftRole, status) ==
  [team |-> [x \in Teams |-> x \in team], role |-> [x \in Roles |-> x \in role],
   material |-> [x \in Materials |-> x \in material], available |-> available,
   active |-> [x \in Materials |-> x \in active], shiftRole |-> shiftRole,
   status |-> status, checkin |-> [a \in Assignments |-> FALSE],
   issue |-> [p \in Issues |-> "none"]]

\* An event as it may be planned before anybody is checked in.
Init ==
  /\ \E team \in SUBSET Teams, role \in SUBSET Roles, material \in SUBSET Materials,
        active \in SUBSET Materials,
        available \in [Materials -> Quantities \cup {0}],
        shiftRole \in [Shifts -> Roles \cup {NoRole}],
        status \in [Assignments -> {"confirmed", "other"}] :
       /\ active \subseteq material
       /\ \A m \in Materials \ material : available[m] = 0
       /\ db = Plan(team, role, material, active, available, shiftRole, status)
  /\ References(db)
  /\ request = [t \in {} |-> db]
  /\ hands = {}
  /\ peak = db.available
  /\ stale = FALSE
  /\ overridden = {}

-----------------------------------------------------------------------------
Busy == DOMAIN request

(***************************************************************************)
(* The handler of thread t ran and is about to commit wanted. At the desk, *)
(* the materials given are handed over, and those taken are returned, when *)
(* the page confirms it.                                                   *)
(***************************************************************************)
Handled(t, wanted, given, taken, overrides) ==
  /\ t \notin Busy
  /\ request' = [u \in Busy \cup {t} |->
       IF u = t THEN [seen |-> db, wanted |-> wanted, given |-> given, taken |-> taken,
                      overrides |-> overrides]
                ELSE request[u]]
  /\ UNCHANGED <<db, hands, peak, stale, overridden>>

Planned(t, wanted) == Handled(t, wanted, {}, {}, {})

Used(m) == Cardinality({a \in Assignments : db.issue[<<a, m>>] \in {"out", "used"}})

\* Faulty variant: one item too many.
InStock_off_by_one(m) == Used(m) <= db.available[m]

InStock(m) == Used(m) < db.available[m]

available_materials(a) ==
  LET r == db.shiftRole[ShiftOf[a]]
  IN {m \in Materials : /\ r # NoRole
                        /\ db.material[m] /\ db.active[m]
                        /\ TeamOfMaterial[m] = TeamOfRole[r]}

\* Faulty variant: a material issued to anybody counts as issued.
Issued_to_anybody(a, selected) ==
  [p \in Issues |->
     IF /\ p[1] = a /\ p[2] \in selected
        /\ \A b \in Assignments : db.issue[<<b, p[2]>>] = "none"
     THEN IF p[2] \in Consumables THEN "used" ELSE "out"
     ELSE db.issue[p]]

\* A material issued before, returned or not, is not issued again.
Issued(a, selected) ==
  [p \in Issues |->
     IF p[1] = a /\ p[2] \in selected /\ db.issue[p] = "none"
     THEN IF p[2] \in Consumables THEN "used" ELSE "out"
     ELSE db.issue[p]]

check_in_assignment(t, a, selected) ==
  /\ db.status[a] \in {"confirmed", "checked_in"}
  /\ selected \subseteq available_materials(a)
  /\ \A m \in selected : db.issue[<<a, m>>] = "none" => InStock(m)
  /\ Handled(t,
       [db EXCEPT !.status[a] = "checked_in", !.checkin[a] = TRUE,
                  !.issue = Issued(a, selected)],
       {a} \X (selected \ Consumables), {}, {})

\* Faulty variant: returned_at is not set.
Returned_forgotten(a) == db.issue

Returned(a) ==
  [p \in Issues |-> IF p[1] = a /\ db.issue[p] = "out" THEN "back" ELSE db.issue[p]]

check_out_assignment(t, a) ==
  /\ db.checkin[a]
  /\ Handled(t, [db EXCEPT !.status[a] = "attended", !.issue = Returned(a)],
       {}, {p \in Issues : p[1] = a /\ db.issue[p] = "out"}, {})

\* Also what the bulk actions, a rejection and the public handlers set.
change_assignment_status(t, a, status) ==
  /\ status # "checked_in"
  /\ Handled(t, [db EXCEPT !.status[a] = status], {}, {},
             IF db.checkin[a] THEN {a} ELSE {})

-----------------------------------------------------------------------------
(***************************************************************************)
(* An id is given to one row only, also while others still use rows with   *)
(* it that are deleted.                                                    *)
(***************************************************************************)
NewTeam(x) == ~ db.team[x]
  /\ \A u \in Busy : ~ request[u].seen.team[x] /\ ~ request[u].wanted.team[x]
NewRole(x) == ~ db.role[x]
  /\ \A u \in Busy : ~ request[u].seen.role[x] /\ ~ request[u].wanted.role[x]
NewMaterial(x) == ~ db.material[x]
  /\ \A u \in Busy : ~ request[u].seen.material[x] /\ ~ request[u].wanted.material[x]

create_team(t, k) ==
  /\ NewTeam(k)
  /\ Planned(t, [db EXCEPT !.team[k] = TRUE])

create_role(t, r) ==
  /\ NewRole(r)
  /\ db.team[TeamOfRole[r]]
  /\ Planned(t, [db EXCEPT !.role[r] = TRUE])

create_team_material(t, m, available) ==
  /\ NewMaterial(m)
  /\ db.team[TeamOfMaterial[m]]
  /\ Planned(t, [db EXCEPT !.material[m] = TRUE, !.active[m] = TRUE,
                           !.available[m] = available])

\* Faulty variant: what is handed out is deducted from the stock entered.
update_team_material_deducted(t, m, available, active) ==
  /\ db.material[m]
  /\ Planned(t, [db EXCEPT !.available[m] = available - Used(m), !.active[m] = active])

update_team_material(t, m, available, active) ==
  /\ db.material[m]
  /\ Planned(t, [db EXCEPT !.available[m] = available, !.active[m] = active])

InUse(r) == \E s \in Shifts : db.shiftRole[s] = r

\* delete-orphan: the roles and materials that are loaded go with the team.
delete_empty_team(t, k) ==
  /\ db.team[k]
  /\ \A r \in Roles : TeamOfRole[r] = k => ~ InUse(r)
  /\ Planned(t,
       [db EXCEPT !.team[k] = FALSE,
          !.role = [r \in Roles |-> db.role[r] /\ TeamOfRole[r] # k],
          !.material = [m \in Materials |-> db.material[m] /\ TeamOfMaterial[m] # k]])

\* Faulty variant: a role is deleted although shifts use it.
delete_unused_role_unchecked(t, r) ==
  /\ db.role[r]
  /\ Planned(t, [db EXCEPT !.role[r] = FALSE])

delete_unused_role(t, r) ==
  /\ db.role[r]
  /\ ~ InUse(r)
  /\ Planned(t, [db EXCEPT !.role[r] = FALSE])

delete_unused_team_material(t, m) ==
  /\ db.material[m]
  /\ \A a \in Assignments : db.issue[<<a, m>>] = "none"
  /\ Planned(t, [db EXCEPT !.material[m] = FALSE])

\* An id that is not found is no role.
edit_shift_submit(t, s, r) ==
  /\ r # NoRole => db.role[r]
  /\ Planned(t, [db EXCEPT !.shiftRole[s] = r])

-----------------------------------------------------------------------------
\* The session writes a column only if its value differs from the one loaded.
Columns(current, loaded, left) ==
  [x \in DOMAIN current |-> IF left[x] = loaded[x] THEN current[x] ELSE left[x]]

Flushed(r) ==
  [team |-> Columns(db.team, r.seen.team, r.wanted.team),
   role |-> Columns(db.role, r.seen.role, r.wanted.role),
   material |-> Columns(db.material, r.seen.material, r.wanted.material),
   available |-> Columns(db.available, r.seen.available, r.wanted.available),
   active |-> Columns(db.active, r.seen.active, r.wanted.active),
   shiftRole |-> Columns(db.shiftRole, r.seen.shiftRole, r.wanted.shiftRole),
   status |-> Columns(db.status, r.seen.status, r.wanted.status),
   checkin |-> Columns(db.checkin, r.seen.checkin, r.wanted.checkin),
   issue |-> Columns(db.issue, r.seen.issue, r.wanted.issue)]

(***************************************************************************)
(* ON DELETE CASCADE from teams, ON DELETE SET NULL from roles to shifts.  *)
(***************************************************************************)
Cascaded(rows) ==
  LET role == [r \in Roles |-> rows.role[r] /\ rows.team[TeamOfRole[r]]]
      material == [m \in Materials |-> rows.material[m] /\ rows.team[TeamOfMaterial[m]]]
  IN [rows EXCEPT
        !.role = role,
        !.material = material,
        !.available = [m \in Materials |-> IF material[m] THEN rows.available[m] ELSE 0],
        !.active = [m \in Materials |-> material[m] /\ rows.active[m]],
        !.shiftRole = [s \in Shifts |->
          IF rows.shiftRole[s] # NoRole /\ ~ role[rows.shiftRole[s]]
          THEN NoRole ELSE rows.shiftRole[s]]]

Inserts(loaded, left, x) == ~ loaded[x] /\ left[x]

(***************************************************************************)
(* The rows a new or changed row refers to are still there.                *)
(***************************************************************************)
ParentsExist(r) ==
  /\ \A x \in Roles :
       Inserts(r.seen.role, r.wanted.role, x) => db.team[TeamOfRole[x]]
  /\ \A m \in Materials :
       Inserts(r.seen.material, r.wanted.material, m) => db.team[TeamOfMaterial[m]]
  /\ \A s \in Shifts :
       /\ r.wanted.shiftRole[s] # r.seen.shiftRole[s]
       /\ r.wanted.shiftRole[s] # NoRole
       => db.role[r.wanted.shiftRole[s]]

(***************************************************************************)
(* The unique keys of checkins and checkin_materials.                      *)
(***************************************************************************)
KeysAreUnique(r) ==
  /\ \A a \in Assignments :
       Inserts(r.seen.checkin, r.wanted.checkin, a) => ~ db.checkin[a]
  /\ \A p \in Issues :
       r.seen.issue[p] = "none" /\ r.wanted.issue[p] # "none" => db.issue[p] = "none"

\* Faulty variant: only the deletion of a material looks at its issues.
IssuesKeepMaterial_unchecked(r) == TRUE

(***************************************************************************)
(* material_id refers to a row, is not null, and has no ON DELETE: neither *)
(* the material of an issue nor its team can go.                           *)
(***************************************************************************)
IssuesKeepMaterial(r) ==
  \A a \in Assignments, m \in Materials :
    Flushed(r).issue[<<a, m>>] # "none" => Cascaded(Flushed(r)).material[m]

\* An UPDATE that matches no row raises StaleDataError.
UpdatesFindTheirRow(r) ==
  \A m \in Materials :
    /\ r.seen.material[m] /\ r.wanted.material[m]
    /\ \/ r.wanted.available[m] # r.seen.available[m]
       \/ r.wanted.active[m] # r.seen.active[m]
    => db.material[m]

Accepted(r) ==
  /\ ParentsExist(r)
  /\ KeysAreUnique(r)
  /\ IssuesKeepMaterial(r)
  /\ UpdatesFindTheirRow(r)

Larger(i, j) == IF i > j THEN i ELSE j

\* A refused commit leaves everything as it is: get_db closes the session.
Refuse(t) ==
  /\ t \in Busy
  /\ ~ Accepted(request[t])
  /\ request' = [u \in Busy \ {t} |-> request[u]]
  /\ UNCHANGED <<db, hands, peak, stale, overridden>>

Commit(t) ==
  /\ t \in Busy
  /\ Accepted(request[t])
  /\ db' = Cascaded(Flushed(request[t]))
  /\ request' = [u \in Busy \ {t} |-> request[u]]
  /\ hands' = (hands \ request[t].taken) \cup request[t].given
  /\ peak' = [m \in Materials |->
       IF db'.material[m] THEN Larger(peak[m], db'.available[m]) ELSE 0]
  /\ stale' = (stale \/ db # request[t].seen)
  /\ overridden' = overridden \cup request[t].overrides

-----------------------------------------------------------------------------
DeskStep(t) ==
  \E a \in Assignments :
    \/ \E selected \in SUBSET Materials : check_in_assignment(t, a, selected)
    \/ check_out_assignment(t, a)

StatusStep(t) ==
  \E a \in Assignments, status \in Statuses : change_assignment_status(t, a, status)

PlanningStep(t) ==
  \/ \E k \in Teams : create_team(t, k) \/ delete_empty_team(t, k)
  \/ \E r \in Roles : create_role(t, r) \/ delete_unused_role(t, r)
  \/ \E m \in Materials :
       \/ \E available \in Quantities :
            \/ create_team_material(t, m, available)
            \/ \E active \in BOOLEAN : update_team_material(t, m, available, active)
       \/ delete_unused_team_material(t, m)
  \/ \E s \in Shifts, r \in Roles \cup {NoRole} : edit_shift_submit(t, s, r)

Finish(t) == Commit(t) \/ Refuse(t)

Next == \E t \in Threads : DeskStep(t) \/ StatusStep(t) \/ PlanningStep(t) \/ Finish(t)

Spec == Init /\ [][Next]_deskVars

-----------------------------------------------------------------------------
TypeOK ==
  /\ db \in Rows
  /\ Busy \subseteq Threads
  /\ request \in [Busy -> [seen: Rows, wanted: Rows, given: SUBSET Issues,
                           taken: SUBSET Issues, overrides: SUBSET Assignments]]
  /\ hands \subseteq Issues
  /\ peak \in [Materials -> Nat]
  /\ stale \in BOOLEAN
  /\ overridden \subseteq Assignments

(***************************************************************************)
(* Whatever planning and desk requests overlap, the committed rows refer   *)
(* to rows that exist; in particular a material that was issued stays, for *)
(* traceability.                                                           *)
(***************************************************************************)
ReferencesHold == References(db)

(***************************************************************************)
(* Desks that read the stock at the same time may hand out more than there *)
(* is, but never more than one item per further thread, however often they *)
(* do so.                                                                  *)
(***************************************************************************)
OverissueIsBounded ==
  \A m \in Materials : Used(m) <= peak[m] + Cardinality(Threads) - 1

(***************************************************************************)
(* What is recorded as handed out is in that person's hands; and the other *)
(* way round, if no status was set by hand after the check-in and no       *)
(* commit was stale.                                                       *)
(***************************************************************************)
RecordsMatchHands ==
  \A a \in Assignments, m \in Materials :
    /\ db.issue[<<a, m>>] = "out" => <<a, m>> \in hands
    /\ ~ stale /\ a \notin overridden /\ <<a, m>> \in hands
         => db.issue[<<a, m>>] = "out"

(***************************************************************************)
(* Whoever has attended returned everything, with the same proviso.        *)
(***************************************************************************)
AttendedHasReturned ==
  \A a \in Assignments, m \in Materials :
    ~ stale /\ a \notin overridden /\ db.status[a] = "attended"
      => db.issue[<<a, m>>] # "out"

(***************************************************************************)
(* "Tasks in use cannot be deleted": a deletion takes the role from a      *)
(* shift only if the shift was given the role after the deletion looked.   *)
(***************************************************************************)
RoleIsLostToRacesOnly ==
  [][\A t \in Busy, s \in Shifts :
       /\ t \notin DOMAIN request'
       /\ db.shiftRole[s] # NoRole /\ db'.shiftRole[s] = NoRole
       /\ request[t].wanted.shiftRole[s] = request[t].seen.shiftRole[s]
       => request[t].seen.shiftRole[s] # db.shiftRole[s]]_deskVars

(***************************************************************************)
(* "Check-in workflow with explicit material handover history": whatever a *)
(* person holds is on record, whoever sets statuses meanwhile.             *)
(***************************************************************************)
HandoverIsRecorded == \A p \in hands : db.issue[p] = "out"
===============================================================================

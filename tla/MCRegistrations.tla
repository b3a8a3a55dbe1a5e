--------------------------- MODULE MCRegistrations ---------------------------
(***************************************************************************)
(* Registrations on a small event. The public and the check-in desk act    *)
(* without limit; the administrator takes a few steps, so that a run stays *)
(* finite in time while every handler still meets every other. In the      *)
(* scene "queue" everybody competes for one shift; in "conflicts" two      *)
(* people choose among all the shifts.                                     *)
(***************************************************************************)
EXTENDS Registrations, TLC

CONSTANTS
  MaxAdminSteps,      \* bound on the administrator's steps in "queue"; one less else
  StatusInputs,       \* assignment statuses the administrator submits
  PersonInputs,       \* volunteer statuses the administrator submits
  ShiftStatusInputs   \* shift statuses the administrator submits

VARIABLES scene, adminSteps

mcVars == <<vars, scene, adminSteps>>

(***************************************************************************)
(* A shift of one place with a waitlist, and one without that begins when  *)
(* the first ends.                                                         *)
(***************************************************************************)
Early == [needed |-> 1, waitlist |-> 1, starts |-> 0, ends |-> 2]
Late  == [needed |-> 1, waitlist |-> NoWaitlist, starts |-> 2, ends |-> 4]
MCShiftForms == {Early, Late}

Queue == scene = "queue"
People == IF Queue THEN Cardinality(Volunteers) ELSE 2
Places == IF Queue THEN 1 ELSE Cardinality(Shifts)
AdminLimit == IF Queue THEN MaxAdminSteps ELSE MaxAdminSteps - 1

InScene ==
  /\ Cardinality({v \in Volunteers : Exists(v)}) <= People
  /\ Cardinality({s \in Shifts : Planned(s)}) <= Places

(***************************************************************************)
(* Registration has begun; there is a shift of the first form, and in      *)
(* "conflicts" others of any form.                                         *)
(***************************************************************************)
MCInit ==
  /\ scene \in {"queue", "conflicts"}
  /\ Init
  /\ registrationOpen
  /\ Cardinality({s \in Shifts : Planned(s)}) = Places
  /\ \E s \in Shifts : shift[s].waitlist # NoWaitlist
  /\ adminSteps = 0

AdminStep ==
  /\ adminSteps < AdminLimit
  /\ adminSteps' = adminSteps + 1
  /\ \/ VolunteerAdminStep(StatusInputs, PersonInputs)
     \/ PlanningStep(ShiftStatusInputs)

Act ==
  \/ /\ (\E v \in Volunteers : PublicStep(v)) \/ CheckInStep
     /\ UNCHANGED adminSteps
  \/ AdminStep

MCNext == Act /\ UNCHANGED scene /\ InScene'

MCSpec == MCInit /\ [][MCNext]_mcVars

Symmetry == Permutations(Volunteers) \cup Permutations(Shifts)
=============================================================================

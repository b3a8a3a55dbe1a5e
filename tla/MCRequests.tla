------------------------------ MODULE MCRequests ------------------------------
(***************************************************************************)
(* Requests on a small event, with a bound on the requests of each kind in *)
(* one behaviour. In the scene "race" everybody competes for one shift in  *)
(* all the threads; in "serial" two people choose among all the shifts and *)
(* one thread serves them.                                                 *)
(***************************************************************************)
EXTENDS Requests, TLC

CONSTANTS
  MaxAdminRequests,   \* bound on the administrator's requests
  MaxRequests,        \* bound on all requests
  StatusInputs,       \* assignment statuses the administrator submits
  PersonInputs,       \* volunteer statuses the administrator submits
  ShiftStatusInputs   \* shift statuses the administrator submits

VARIABLES scene, adminRequests, requests

mcVars == <<requestVars, scene, adminRequests, requests>>

Early == [needed |-> 1, waitlist |-> 1, starts |-> 0, ends |-> 2]
MCShiftForms == {Early}

Race == scene = "race"
People == IF Race THEN Cardinality(Volunteers) ELSE 2
Places == IF Race THEN 1 ELSE Cardinality(Shifts)
Workers == IF Race THEN Cardinality(Threads) ELSE 1
AdminLimit == IF Race THEN MaxAdminRequests ELSE 2

InScene ==
  /\ Cardinality({v \in Volunteers : Exists(v)}) <= People
  /\ Cardinality({s \in Shifts : Planned(s)}) <= Places
  /\ Cardinality(Busy) <= Workers

MCInit ==
  /\ scene \in {"race", "serial"}
  /\ RequestsInit
  /\ registrationOpen
  /\ Cardinality({s \in Shifts : Planned(s)}) = Places
  /\ adminRequests = 0
  /\ requests = 0

Request ==
  \/ /\ requests < MaxRequests
     /\ requests' = requests + 1
     /\ \E t \in Threads :
          \/ /\ HandlePublic(t) \/ HandleCheckIn(t)
             /\ UNCHANGED adminRequests
          \/ /\ adminRequests < AdminLimit
             /\ HandleAdmin(t, StatusInputs, PersonInputs, ShiftStatusInputs)
             /\ adminRequests' = adminRequests + 1
  \/ /\ get_db \/ \E t \in Threads : Commit(t)
     /\ UNCHANGED <<adminRequests, requests>>

MCNext == Request /\ UNCHANGED scene /\ InScene'

MCSpec == MCInit /\ [][MCNext]_mcVars

Symmetry ==
  Permutations(Volunteers) \cup Permutations(Shifts) \cup Permutations(Threads)
===============================================================================

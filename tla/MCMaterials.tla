------------------------------ MODULE MCMaterials ------------------------------
(***************************************************************************)
(* One team with one role and two materials, one of them consumable; a     *)
(* shift with a few assignments; a bounded number of requests.             *)
(***************************************************************************)
EXTENDS Materials, TLC

CONSTANTS
  MaxRequests,        \* bound on the requests
  MaxInterventions,   \* bound on those that plan or set a status by hand
  TheTeam, TheShift

MCTeamOfRole == [r \in Roles |-> TheTeam]
MCTeamOfMaterial == [m \in Materials |-> TheTeam]
MCShiftOf == [a \in Assignments |-> TheShift]

VARIABLES requests, interventions

counters == <<requests, interventions>>

\* A complete plan, or none yet; everybody is expected.
MCInit ==
  /\ Init
  /\ \A a \in Assignments : db.status[a] = "confirmed"
  /\ \/ \A r \in Roles, m \in Materials : db.role[r] /\ db.active[m]
     \/ \A k \in Teams : ~ db.team[k]
  /\ requests = 0 /\ interventions = 0

MCNext ==
  \/ (\E t \in Threads : Finish(t)) /\ UNCHANGED counters
  \/ /\ requests < MaxRequests
     /\ requests' = requests + 1
     /\ \/ (\E t \in Threads : DeskStep(t)) /\ UNCHANGED interventions
        \/ /\ interventions < MaxInterventions
           /\ \E t \in Threads : StatusStep(t) \/ PlanningStep(t)
           /\ interventions' = interventions + 1

MCSpec == MCInit /\ [][MCNext]_<<deskVars, counters>>

Symmetry == Permutations(Assignments) \cup Permutations(Threads)
===============================================================================

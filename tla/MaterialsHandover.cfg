CONSTANTS
  TheTeam = TheTeam
  TheShift = TheShift
  Teams = {TheTeam}
  Roles = {r1}
  Materials = {m1, m2}
  Shifts = {TheShift}
  Assignments = {a1, a2}
  TeamOfRole <- MCTeamOfRole
  TeamOfMaterial <- MCTeamOfMaterial
  ShiftOf <- MCShiftOf
  Consumables = {m2}
  Quantities = {0, 1}
  Threads = {t1}
  NoRole = NoRole
  MaxRequests = 4
  MaxInterventions = 1
SPECIFICATION MCSpec
SYMMETRY Symmetry
CHECK_DEADLOCK FALSE
INVARIANT HandoverIsRecorded

CONSTANTS
  Volunteers = {v1, v2, v3}
  Shifts = {s1, s2}
  Threads = {t1, t2}
  NoWaitlist = NoWaitlist
  ShiftForms <- MCShiftForms
  StatusInputs = {"confirmed", "waitlisted", "checked_in"}
  PersonInputs = {"orga_approved"}
  ShiftStatusInputs = {"closed"}
  MaxAdminRequests = 3
  MaxRequests = 5
SPECIFICATION MCSpec
SYMMETRY Symmetry
CHECK_DEADLOCK FALSE
INVARIANT CommittedConsistent
PROPERTY RevocationSurvivesRaces
PROPERTY FreshCommitIsSerial
PROPERTY OverbookingNeedsStaleReads

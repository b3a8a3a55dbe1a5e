CONSTANTS
  Volunteers = {v1, v2}
  Shifts = {s1}
  Threads = {t1, t2}
  NoWaitlist = NoWaitlist
  ShiftForms <- MCShiftForms
  StatusInputs = {"confirmed", "waitlisted", "checked_in"}
  PersonInputs = {"orga_approved"}
  ShiftStatusInputs = {"closed"}
  MaxAdminRequests = 2
  MaxRequests = 4
SPECIFICATION MCSpec
SYMMETRY Symmetry
CHECK_DEADLOCK FALSE
PROPERTY HistoryIsRetained

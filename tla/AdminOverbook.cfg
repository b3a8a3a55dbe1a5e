CONSTANTS
  Volunteers = {v1, v2}
  Shifts = {s1}
  NoWaitlist = NoWaitlist
  ShiftForms <- MCShiftForms
  StatusInputs = {"confirmed", "waitlisted", "pending", "no_show", "checked_in"}
  PersonInputs = {"orga_approved"}
  ShiftStatusInputs = {"closed", "open"}
  MaxAdminSteps = 2
SPECIFICATION MCSpec
SYMMETRY Symmetry
CHECK_DEADLOCK FALSE
PROPERTY AdminCannotOverbook

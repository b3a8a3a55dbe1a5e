CONSTANTS
  Volunteers = {v1, v2, v3}
  Shifts = {s1, s2}
  NoWaitlist = NoWaitlist
  ShiftForms <- MCShiftForms
  StatusInputs = {"confirmed", "waitlisted", "pending", "no_show", "checked_in"}
  PersonInputs = {"orga_approved"}
  ShiftStatusInputs = {"closed", "open"}
  MaxAdminSteps = 2
SPECIFICATION MCSpec
SYMMETRY Symmetry
CHECK_DEADLOCK FALSE
INVARIANT TypeOK
INVARIANT Consistent
PROPERTY PublicNeverOverbooks
PROPERTY WaitlistOnlyWhenFull
PROPERTY PromotionIsFair
PROPERTY PublicEditLeavesNoConflict
PROPERTY RejectionReleasesPlaces
PROPERTY AssignmentsAreRetained
PROPERTY NewRowsNeverOverbook

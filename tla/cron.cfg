SPECIFICATION Spec
CONSTANTS
  Minutes = 2
  Hours = 2
  Weekdays = 3
  Days <- SmallCalendar
  Limit <- FiveDays
  Wall <- ChangingClock
  Specs <- SmallSpecs
  Nows = {0, 3, 9, 18, 19, 20, 21, 22, 23, 25, 30, 37, 45, 48, 49, 51, 57, 60}
  NoStep = NoStep
INVARIANTS FieldsValid AnnualFound FiresNext
CHECK_DEADLOCK FALSE

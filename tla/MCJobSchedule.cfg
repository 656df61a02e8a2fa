SPECIFICATION JobSpec
CONSTANTS
  j1 = j1 j2 = j2
  Job = {j1}
  Schedule <- TwoSchedules
  DayMinutes = 2
  MonthDays = 2
  WeekDays = 3
  Horizon = 4
INVARIANTS SlotsMoveForward SkippedStaysSkipped
PROPERTIES SlotsAccountedFor
CHECK_DEADLOCK FALSE

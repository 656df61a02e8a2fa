---------------------------- MODULE MCJobSchedule ----------------------------
(* Instances of JobSchedule for TLC: days of two minutes, months of two days *)
(* and weeks of three, with schedules that use both readings of day fields.  *)
EXTENDS JobSchedule

CONSTANTS j1, j2

EveryMinute == [minute |-> {0, 1}, day |-> {0, 1}, dayWild |-> TRUE,
                week |-> {0, 1, 2}, weekWild |-> TRUE]
DayOrWeekday == [minute |-> {1}, day |-> {1}, dayWild |-> FALSE,
                 week |-> {2}, weekWild |-> FALSE]

TwoSchedules == {EveryMinute, DayOrWeekday}

=============================================================================

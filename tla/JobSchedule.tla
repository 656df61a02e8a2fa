------------------------------ MODULE JobSchedule ------------------------------
(***************************************************************************)
(* Cron Jobs (src/internal/automation: jobs.go, cron.go, the scheduler     *)
(* goroutine of dispatch.go).                                              *)
(*                                                                         *)
(* Time is counted in instants, three to a minute: the boundary itself,    *)
(* the rest of the second :00, and the rest of the minute.  They are       *)
(* apart because due slots are found by comparing TEXT: RFC3339Nano drops  *)
(* a zero fraction, and "10:05:00Z" sorts after "10:05:00.003Z".           *)
(* Every WithTransaction is one action; the clock is read before it, by    *)
(* the scheduler (tick) and by CreateJob / ReplaceJob (edit).              *)
(* A slot is the minute it names.  Deliveries appear as the slots they     *)
(* hold under the unique index (job, slot); Deliveries.tla has their life. *)
(***************************************************************************)
EXTENDS Naturals, FiniteSets, FiniteSetsExt

CONSTANTS
  Job,
  Schedule,       \* the cron schedules explored, see ScheduleType
  DayMinutes, MonthDays, WeekDays,   \* the calendar, scaled down
  Horizon         \* bound of the exploration: the last minute of the clock

ScheduleType == [minute: SUBSET (0 .. DayMinutes - 1),
                 day: SUBSET (0 .. MonthDays - 1), dayWild: BOOLEAN,
                 week: SUBSET (0 .. WeekDays - 1), weekWild: BOOLEAN]

ASSUME JobScheduleAssumption ==
  /\ {DayMinutes, MonthDays, WeekDays} \subseteq Nat \ {0}
  /\ Horizon \in Nat
  /\ Schedule \subseteq ScheduleType /\ Schedule # {}
  /\ Job # {}

Cycle   == DayMinutes * MonthDays * WeekDays
Minute  == 0 .. Horizon + Cycle
Instant == 0 .. 3 * Horizon + 2
None    == 3 * Horizon + 3

MinuteOf(at) == at \div 3

VARIABLES
  clock,      \* the current instant
  webhookOn,  \* the Webhook of the Jobs is enabled
  jobs,       \* the Jobs that exist
  cron,       \* [Job -> Schedule]
  jobEnabled, \* [Job -> BOOLEAN]
  nextRun,    \* [Job -> Minute]: next_run_at
  slots,      \* <<job, slot>> held by a Delivery
  edit,       \* a CreateJob / ReplaceJob between its clock and its commit
  running,    \* the Runtime process
  wake,       \* the minute the scheduler's timer is armed for
  tick,       \* the instant the scheduler read, or None
  skipped,    \* history: <<job, slot>> consumed with the Webhook disabled
  raced,      \* history: Jobs whose edit a scheduler transaction overtook
  heard       \* history: [Job -> Instant \cup {None}], the latest instant at
              \* which the scheduler left the enabled Job as not due since
              \* its next run was planned

tableVars == <<webhookOn, jobs, cron, jobEnabled, nextRun, slots>>
loopVars  == <<running, wake, tick>>
jobVars == <<clock, tableVars, edit, loopVars, skipped, raced, heard>>

NoEdit == [open |-> FALSE, overtaken |-> FALSE]
EditOf(j, s, slot) == [open |-> TRUE, overtaken |-> FALSE, job |-> j,
                       cron |-> s, slot |-> slot]

-----------------------------------------------------------------------------
(* Cron. *)

MatchesDay(s, d) ==
  LET dom == d % MonthDays \in s.day
      dow == d % WeekDays \in s.week
  IN IF s.dayWild \/ s.weekWild THEN dom /\ dow ELSE dom \/ dow

Matches(s, m) == /\ m % DayMinutes \in s.minute
                 /\ MatchesDay(s, m \div DayMinutes)

CronNextInclusive(s, m) == Min({n \in m .. m + Cycle : Matches(s, n)})

\* CreateJob and ReplaceJob refuse a schedule without a run time (next.IsZero); the calendar
\* repeats, so one that has a run time always has a next one.
ASSUME CronAssumption ==
  \A s \in Schedule, m \in 0 .. Horizon : \E n \in m + 1 .. m + Cycle : Matches(s, n)

\* The first matching minute after m.
CronNext(s, m) == Min({n \in m + 1 .. m + Cycle : Matches(s, n)})

\* Mutant of TextDue: next_run_at < now.
TextDueStrict(slot, at) == 3 * slot < at /\ at # 3 * slot + 1

TextDue(slot, at) == 3 * slot <= at /\ at # 3 * slot + 1

JobInit ==
  /\ clock \in 0 .. 2
  /\ webhookOn = FALSE
  /\ jobs = {}
  /\ cron = [j \in Job |-> CHOOSE s \in Schedule : TRUE]
  /\ jobEnabled = [j \in Job |-> FALSE]
  /\ nextRun = [j \in Job |-> 0]
  /\ slots = {}
  /\ edit = NoEdit
  /\ running = TRUE
  /\ wake = MinuteOf(clock) + 1
  /\ tick = None
  /\ skipped = {}
  /\ raced = {}
  /\ heard = [j \in Job |-> None]

-----------------------------------------------------------------------------
(* The Owner. *)

\* CreateJob and ReplaceJob read the clock before their transaction.
BeginEdit(j, s) ==
  /\ running /\ ~edit.open
  /\ edit' = EditOf(j, s, CronNext(s, MinuteOf(clock)))
  /\ UNCHANGED <<clock, tableVars, loopVars, skipped, raced, heard>>

PlanJob(j, s, slot) ==
  /\ cron'    = [cron EXCEPT ![j] = s]
  /\ nextRun' = [nextRun EXCEPT ![j] = slot]
  /\ raced'   = IF edit.overtaken THEN raced \cup {j} ELSE raced \ {j}
  /\ skipped' = {x \in skipped : x[1] # j}
  /\ heard'   = [heard EXCEPT ![j] = None]
  /\ edit'    = NoEdit

CreateJob ==
  /\ running /\ edit.open /\ edit.job \notin jobs
  /\ jobs' = jobs \cup {edit.job}
  /\ jobEnabled' = [jobEnabled EXCEPT ![edit.job] = FALSE]
  /\ PlanJob(edit.job, edit.cron, edit.slot)
  /\ UNCHANGED <<clock, webhookOn, slots, loopVars>>

ReplaceJob ==
  /\ running /\ edit.open /\ edit.job \in jobs
  /\ PlanJob(edit.job, edit.cron, edit.slot)
  /\ UNCHANGED <<clock, webhookOn, jobs, jobEnabled, slots, loopVars>>

SetJobEnabled(j, on) ==
  /\ running /\ j \in jobs
  /\ jobEnabled' = [jobEnabled EXCEPT ![j] = on]
  /\ UNCHANGED <<clock, webhookOn, jobs, cron, nextRun, slots, edit, loopVars,
                 skipped, raced, heard>>

SwitchWebhook ==
  /\ running
  /\ webhookOn' = ~webhookOn
  /\ UNCHANGED <<clock, jobs, cron, jobEnabled, nextRun, slots, edit, loopVars,
                 skipped, raced, heard>>

\* A terminal Delivery leaves the history, and with it its index entry.
PruneDelivery(x) ==
  /\ running /\ x \in slots
  /\ slots' = slots \ {x}
  /\ UNCHANGED <<clock, webhookOn, jobs, cron, jobEnabled, nextRun, edit,
                 loopVars, skipped, raced, heard>>

-----------------------------------------------------------------------------
(* The scheduler. *)

Due(at) == {j \in jobs : jobEnabled[j] /\ TextDue(nextRun[j], at)}

SlotOf(j) == <<j, nextRun[j]>>

\* The unique index refuses a second Delivery for a slot; the error rolls
\* the whole transaction back.
Conflict(at) == webhookOn /\ \E j \in Due(at) : SlotOf(j) \in slots

\* What a transaction at this instant leaves as not due.
Hears(at) ==
  heard' = [j \in Job |-> IF j \in Due(at) THEN None
                          ELSE IF j \in jobs /\ jobEnabled[j] THEN at
                          ELSE heard[j]]

\* Mutant of ScheduleDueJobs: skipped slots are met again.
AdvanceDeliveredOnly(at) ==
  LET consumed == {SlotOf(j) : j \in Due(at)} IN
  /\ slots'   = IF webhookOn THEN slots \cup consumed ELSE slots
  /\ skipped' = IF webhookOn THEN skipped ELSE skipped \cup consumed
  /\ nextRun' = [j \in Job |-> IF j \in Due(at) /\ webhookOn
                               THEN CronNext(cron[j], MinuteOf(at)) ELSE nextRun[j]]
  /\ edit'    = [edit EXCEPT !.overtaken = @ \/ (edit.open /\ Due(at) # {})]
  /\ Hears(at)

ScheduleDueJobs(at) ==
  LET consumed == {SlotOf(j) : j \in Due(at)} IN
  /\ slots'   = IF webhookOn THEN slots \cup consumed ELSE slots
  /\ skipped' = IF webhookOn THEN skipped ELSE skipped \cup consumed
  /\ nextRun' = [j \in Job |-> IF j \in Due(at)
                               THEN CronNext(cron[j], MinuteOf(at)) ELSE nextRun[j]]
  /\ edit'    = [edit EXCEPT !.overtaken =
                   @ \/ (edit.open /\ edit.job \in Due(at))]
  /\ Hears(at)

\* schedulerLoop: the timer fires at the boundary or later.
Tick ==
  /\ running /\ tick = None /\ clock >= 3 * wake
  /\ tick' = clock
  /\ UNCHANGED <<clock, tableVars, edit, running, wake, skipped, raced, heard>>

RunTick ==
  /\ running /\ tick # None
  /\ \/ ~Conflict(tick) /\ ScheduleDueJobs(tick)
     \/ Conflict(tick) /\ UNCHANGED <<slots, skipped, nextRun, edit, heard>>
  /\ tick' = None
  /\ wake' = MinuteOf(clock) + 1
  /\ UNCHANGED <<clock, webhookOn, jobs, cron, jobEnabled, running, raced>>

Stop ==
  /\ running
  /\ running' = FALSE
  /\ tick' = None
  /\ edit' = NoEdit
  /\ UNCHANGED <<clock, tableVars, wake, skipped, raced, heard>>

\* newService consumes what is overdue; a conflict refuses the start.
NewService ==
  /\ ~running /\ ~Conflict(clock)
  /\ ScheduleDueJobs(clock)
  /\ running' = TRUE
  /\ wake' = MinuteOf(clock) + 1
  /\ UNCHANGED <<clock, webhookOn, jobs, cron, jobEnabled, tick, raced>>

\* Time passes; a suspended machine skips any number of minutes.
Advance ==
  /\ \E later \in Instant : later > clock /\ clock' = later
  /\ UNCHANGED <<tableVars, edit, loopVars, skipped, raced, heard>>

-----------------------------------------------------------------------------
Edit == \/ \E j \in Job, s \in Schedule : BeginEdit(j, s)
        \/ CreateJob
        \/ ReplaceJob

JobOwner == \/ Edit
         \/ \E j \in Job, on \in BOOLEAN : SetJobEnabled(j, on)
         \/ SwitchWebhook

JobNext ==
  \/ JobOwner
  \/ \E x \in slots : PruneDelivery(x)
  \/ Tick
  \/ RunTick
  \/ Stop
  \/ NewService
  \/ Advance

JobSpec == JobInit /\ [][JobNext]_jobVars

-----------------------------------------------------------------------------
(* Properties. *)

\* Every variable stays in its type.
JobTypeOK ==
  /\ clock \in Instant /\ webhookOn \in BOOLEAN /\ running \in BOOLEAN
  /\ jobs \subseteq Job /\ raced \subseteq Job
  /\ cron \in [Job -> Schedule] /\ jobEnabled \in [Job -> BOOLEAN]
  /\ nextRun \in [Job -> Minute]
  /\ slots \subseteq Job \X Minute /\ skipped \subseteq Job \X Minute
  /\ \/ edit = NoEdit
     \/ edit \in [open: {TRUE}, overtaken: BOOLEAN, job: Job,
                  cron: Schedule, slot: Minute]
  /\ wake \in Minute /\ tick \in Instant \cup {None}
  /\ heard \in [Job -> Instant \cup {None}]

\* A scheduler transaction that meets a slot already delivered rolls back for
\* every Job and would refuse the next start.  The slots delivered or skipped
\* lie before the next run, so that never happens, except to a Job whose edit
\* read the clock, was overtaken by the scheduler and then planned the
\* consumed slot again.
SlotsMoveForward ==
  \A x \in slots \cup skipped :
    x[2] < nextRun[x[1]] \/ x[1] \in raced

\* A slot skipped because the Webhook was disabled is never delivered later,
\* whenever the Webhook, the Job or the Runtime comes back.
SkippedStaysSkipped == \A x \in skipped \cap slots : x[1] \in raced

\* The instant a scheduler transaction goes by.
ReadAt == IF running THEN tick ELSE clock

\* The slots of the Job that its next run jumps over in this step.
Passed(j) == {n \in nextRun[j] + 1 .. nextRun'[j] - 1 : Matches(cron[j], n)}

\* The scheduler had the slot of the Job in front of it and left it, although
\* its minute had begun and its first second was over.
LeftInTime(j) == /\ heard[j] # None /\ heard[j] >= 3 * nextRun[j]
                 /\ heard[j] # 3 * nextRun[j] + 1

\* What becomes of every slot, through disabled Jobs, crashes, conflicts and
\* sleep.  A Job moves past its next run only by an edit, or when the enabled
\* Job has that slot delivered, or skipped because of the disabled Webhook.
\* The slots it jumps over with that are coalesced, as after a restart: they
\* had begun when the clock was read, and since the next run was due nothing
\* that committed looked at the enabled Job, with one exception: a tick in the
\* first second of the slot, to which the text of next_run_at is not yet <=
\* that of now.  (The exception costs a Job of every minute every other slot,
\* where the specification of Jobs has one Delivery per due slot.)
SlotsAccountedFor ==
  [][\A j \in jobs : nextRun'[j] # nextRun[j] =>
       \/ edit.open /\ ~edit'.open /\ edit.job = j
       \/ /\ jobEnabled[j] /\ nextRun'[j] > nextRun[j]
          /\ IF webhookOn THEN SlotOf(j) \in slots' \ slots
                          ELSE SlotOf(j) \in skipped'
          /\ \A n \in Passed(j) : 3 * n <= ReadAt /\ ~LeftInTime(j)]_jobVars

=============================================================================

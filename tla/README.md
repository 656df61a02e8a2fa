# Formal models of Modelry

Modelry is a local-first backend workbench: one Go process (the Runtime) over
one SQLite project database. It keeps Collections of Records whose schema is
changed at run time, answers queries under access rules, streams Record events
to clients, delivers Webhooks, runs Cron Jobs and extension hooks, and backs up
and restores the project. This directory holds TLA+ modules translated from the
code in `src/`, TLC configurations that check small instances of them, and
TLAPS proofs about them for every value of their constants.

    tlc -workers 2 -config MCSchemaChanges.cfg MCSchemaChanges
    tlapm SchemaChangesProofs.tla

`PROJECT.json` lists the components, the runs, the lines of code that every
definition stands for, the hazards, the findings and the theorems.

## 1. The system

All durable state is in SQLite (WAL, up to eight connections, one writer) and in
a directory of file objects. `storage.WithTransaction` retries nothing: a
transaction commits as a whole or leaves nothing, so in every module **one
transaction is one action**. What makes the program hard is what lies between
transactions: goroutines, HTTP requests that take several transactions, network
calls, hooks, and a process that may stop anywhere.

| Component (package under `src/internal`) | State | Operations | What is hard | What makes it correct |
|---|---|---|---|---|
| Webhook deliveries (`automation`: dispatch, deliveries, webhooks, recovery) | tables of Webhooks, deliveries, rounds, attempts; four workers; the map of active attempts | create, claim, process, finish, redrive, enable/disable/replace a Webhook, delete a Secret, recover | a request between two transactions; disable and Secret deletion commit first and cancel requests afterwards; crash before the outcome is stored | one worker for a delivery, budgets, limits, nothing sent after disable by an attempt that the map still holds, every delivery ends |
| Job schedules (`automation`: jobs, cron) | `next_run_at` of each Job, deliveries unique on (Job, slot) | create, replace, enable, the scheduler's tick, startup | clock read before the transaction, sleep and downtime, due times compared as text | no slot delivered twice or made up for; what gets no delivery is accounted for |
| Record events (`recordevents`) | event log, sequence of each Collection, watermarks; subscriptions in memory | append with pruning, replay, subscribe, publish, close | pruning against replay; a commit and its wake-up are two steps | a gap is always announced; no wake is lost |
| Realtime streams (`realtimeapi`) | one goroutine for each client, a channel of replay slots | open, replay, revalidate, write, heartbeat, end | access revoked between check and write; slots on every way out; shutdown | access lost ends the stream; nothing leaks |
| Schema changes (`backendmodel`, `backendapi`) | Applied Model, ChangeSets, ApplyAttempts, history, physical tables | save/update/remove an operation, discard, Apply in three transactions, recover, delete the Collection | Records written and Collections deleted during Apply; a client that leaves; a crash | model, history and attempts agree; nothing unevaluated is applied |
| Records (`records`, `recordlifecycle`) | Record tables, staged uploads | create, update, delete | model, relations and access are read before hooks run and checked again inside the transaction | no lost write, no dangling relation, nothing the rules forbid |
| Restore (`portability`) | journal, commit marker, project files | stage, activate, roll back, check at startup | a crash at every step of a directory swap | old project or new project, never a mixture |
| File store (`filestore`) | provider configuration, migrations, staged objects | configure, migrate, cancel, reconcile | objects written during a migration, staging older than its Record | no referenced object is missing; an upload is bound once |
| Extensions (`extensions`) | configurations, hooks, runs, intents, in-memory map of invocations | configure, enable, disable, delete, invoke, dispatch intents | authority revoked in two steps around invocations; a stop with runs in progress | one hook for a slot; what was revoked is cancelled; an intent runs once |
| App Users and mail (`appauth`, `mail`) | credentials, sessions, tokens, outbox | sign in, change, recover, register, send, retry | keys are derived between two transactions; tokens end together; the outcome of a send may be lost | no session outlives its password; a mail has one sender and bounded attempts |
| Control Plane identities (`adminauth`, `serviceaccounts`) | Owner, Administrators, Sessions, Service Accounts, API Keys | first run, sign in, manage | two first runs; an actor whose Permission is taken away while it acts | one Owner, one identity for an address, no Permission out of nowhere |
| Listings (`records/query`, `requests`, `audit`, `activity`) | none | read page by page | a snapshot for each page, writes in between, mixed directions | each steady row on exactly one page |
| AI proposals (`aicollab`) | proposals | draft, approve, apply | applies what is pending at that moment | what was approved is what is applied |
| Policies, drift, audit, settings, HTTP, CLI, admin UI | rows written in the transactions of others | reads and single transactions | little | - |

How they interact: a Record write appends an event and delivery intents in its
own transaction and wakes streams and workers after it has committed; the
scheduler creates deliveries; deleting a Secret reaches into the dispatcher;
Apply rebuilds the table that Record writes use; recovery tokens are mailed
through the outbox; deleting a Collection removes
its events, changes and history; restore replaces the database under all of
them while nothing runs.

## 2. Modules

| Module | What it is |
|---|---|
| `Deliveries` | the Webhook dispatcher in detail |
| `DeliveryContract` | what an observer of one delivery is promised; `Deliveries` implements it |
| `JobSchedule` | the Cron scheduler of one or more Jobs |
| `AutomationProofs` | of `Deliveries` and `JobSchedule`: invariants, capacity, budgets, two action properties and the refinement, proved |
| `RecordStream` | the event log and its streams |
| `ReadersProofs` | `RecordStream` and `Listings`: invariants, proved |
| `SchemaChanges` | schema changes and Collection deletion |
| `SchemaChangesProofs` | invariants and an action property, proved |
| `Restore` | the journal of a restore and its recovery |
| `FileStore` | file values, staged uploads and the maintenance of the file store |
| `FilesProofs` | of `FileStore` and `Restore`: invariants, proved |
| `RecordWrites` | Record writes, Access Rules and live runs of visual rules |
| `RecordWritesProofs` | invariants and an action property, proved |
| `Listings` | seven paged listings with their cursors |
| `MailOutbox`, `AppAccounts` | the mail outbox; App Users, whose module extends it |
| `AppAccountsProofs` | invariants of both, proved |
| `AdminAccounts` | Owner, Administrators and Service Accounts |
| `AdminAccountsProofs` | invariants and two action properties, proved |
| `Extensions` | Hooks, their Runs and intents, Secrets and origins |
| `ExtensionsProofs` | invariants and an action property, proved |
| `MC*` | model values, symmetry, constraints and small calendars for TLC |

### Deliveries

Tables are functions from `Delivery` (the ordinal) to columns; `snapshot` and
`started` are the rounds, `attempts` the attempt rows. A worker is a record with
a program counter through `processAttempt`: `claimed` (committed, not yet in the
map of active attempts), `registered`, `checked` (after `currentDeliveryBlock`),
`secretRead`, `posting`, `erred`, `done` (`persistAttemptOutcome` retrying) and
`leaving`, when the outcome is committed and the deferred `unregisterActive` has
still to run. The map `service.active` is keyed by the delivery, so `active`, the
workers whose attempts it holds, has one at most for each delivery (`Entry`):
`RegisterActive` writes over what is there, and `UnregisterActive` deletes it
whoever made it. `displaced` are the workers that lost their entry in this way,
a history variable.
`DisableWebhook` and `DeleteSecret` are the transaction; the cancellation of
running requests that the code performs afterwards is owed in `cancelling` and
`revoking` and happens in `CancelWebhook` and `SecretRevoked`. `Crash` clears
everything that is not durable; `Restart` is `recoverOnStartup`. Deliveries come
from a Record hook (`AppendIntent`), the scheduler (`CreateJobDelivery`), a Job
run by hand (`RunJobOnce`) and a test (`CreateTestDelivery`). The clock is
abstracted to whether the retry delay of a delivery has elapsed (`due`), the
receiver's answer to its class.

### JobSchedule

Time is counted in three instants a minute (the boundary, the rest of its first
second, the rest of the minute) because due Jobs are found by comparing text.
`BeginEdit` and `Tick` read the clock, `CreateJob`, `ReplaceJob` and `RunTick`
are the transactions that use it. `NewService` consumes what is overdue and is
refused when it conflicts; `Stop` is the end of the process. `skipped`, `raced`
and `heard` (when the scheduler last looked at a Job and left it as not due) are
history variables. The clock only moves on. The names of this module are apart from those of
`Deliveries`, so that one module can extend both.

### RecordStream

`log` is the event table, whose rows are ordered by `ordinal`, `head` and `mark`
the sequence and watermark of each Collection. Pruning keeps the rows that fit both
limits together with all that came after them, which is what the loop of
`pruneInTransaction` stops at. A stream's `phase` follows `handleSubscribe` and
`streamEvents`; the phases in `Holding` own a replay slot, and `page` is what is left
of a page, delivered in the order of the sequences. `AppendEvent` is the event part
of a Record transaction with its pruning, `PublishCommitted` the wake-up after the
commit. `offered` is a history variable.

### SchemaChanges

A ChangeSet carries at most one operation on Field `f` and one on relation `r`;
the model is whether `f` is unique and whether `r` is there. `BeginApply`,
`CommitApply` and `RecordApplyFailure` are the three transactions of `Apply`,
and `call` is the request that runs them. `ApplyFails` is the second one rolling
back for any reason; the third may fail too, and then leaves the attempt in
progress. Invalid models cannot appear (the model changes only by a
commit of the evaluated change), so that refusal is left out.

### Restore

A file's content is the number of the activation that brought it. Every rename,
copy, removal and directory sync of `activationPlan.run`, of its rollback and of
the recovery is a step of the process `proc`, in the order of the code. `proc.left`
are the destinations it has still to visit, which `First` and `NextUndo` take in the
order of the plan and of the journal. `seen` are
the directories as processes see them, `disk` what a power loss may leave of
each: everything that was visible since it was last synced. `Kill` stops the
process, `PowerLoss` the machine, and every step that touches a file may also
fail; a rollback in which something fails goes on, keeps the journal and ends as
"broken". `Outcomes` are the states a power loss may leave now, `RecoveredIn` the
project that the recovery makes of one of them, computed and not stepped, so the
safety properties speak of a crash at this very moment. No process syncs again what
it finds, so what one that was killed, or gave up, had not synced may be lost for
long: `stale` keeps those contents until somebody happens to sync their directory,
and `StalePowerLoss` leaves one of them, which the history variable `lost` records.
Nothing is restored after that (a bound).

### FileStore

Objects are sets of keys in two Providers; `refs` is the file value of a Record.
A writer stages, consumes (`ClaimUpload`), promotes and commits or undoes;
reconciliation lists the references and then the objects, and removes old ones
without reference; a migration lists, copies one by one and switches; a
Configure checks and then writes. Each of them is a program counter. `exposed`
marks a Record whose last write overlapped one of these; `acked` the migrations
whose cancellation was answered while they ran.

### RecordWrites

A request reads the model, the rules, the Record and the Collections that refer
to it, waits in its hook, and decides again in its commit. `posts` may refer to
`authors`; `ApplySchema` adds or removes that relation, `SaveRules` and `ApplyRules`
change the Access Rules between two commits. `log` is what the Record events say, and `gap` and
`blind` are history variables. A visual rule is a request whose run row is
written in a transaction of its own (`StoreRun`).

### Listings

One module for seven listings, because what differs between them is how they
order, compare a cursor and collect a page: `AfterRecord` for the columns of
`compileAfterCursor`, `AfterRequest` and `AfterEntry` for the others,
`ListApplication`'s loop that reads raw pages until enough rows are allowed, and
the newest facts of each source that the Activity feed merges. One row is
written between two pages. A Field of a Record may be empty (`Null`), which SQL
compares with nothing; `ended` and `redriven` are history variables, the kinds of
key that cursors had, and the facts whose time a redrive has moved back. A page is a set of places (`Place`, the values that a
cursor holds): `FirstOf` takes the rows that fewer than `Limit` others precede,
`LastOf` the one the next cursor is made of, and `listed` counts how often the
client has been given a row.

### MailOutbox and AppAccounts

A mail row goes from `pending` to `running` (claimed by the worker or by the
request that sends a test mail) and ends; a conversation with the provider is
accepted, refused or transient. The outcome of one may fail to be recorded
(`Unrecorded`), since the code ignores that error: the mail stays running, with
nobody who sends it, until the next start. `AppAccounts` enqueues a mail in the transactions
that issue a token. A password is known by the number of its salt; a login, a
change of the password, a recovery and a registration read, derive a key (the
slow step) and commit. Tokens have an age in half hours; `maximumRecoveryTokens`
and the hourly window are constants.

### AdminAccounts

The first run and an Administrator's login are two steps with the derivation
between them; a request of a Service Account is authentication and transaction.
A request of the Owner is one step. Operations are the four that the handlers of
Service Accounts ask for, and one that stands for all others.

### Extensions

A configuration binds slots (Collection and phase), names a Secret and has the
grant of an origin. `calls` are the invocations with what they pinned, `owed`
the cancellations that a committed request still has to make, `intents` the
after-commit intents. `Stop` and `Start` are `Close` and `NewService` with
`interruptPending`; a before Hook that was cut off leaves a run that `Start`
cannot read (finding 1).

## 3. Runs

| Run | Instance | What it shows |
|---|---|---|
| `deliveries` | 2 workers, 3 deliveries, queue of 1, history of 2, 2 payloads, 2 revisions, a redrive, 1 crash, failing reads of `SecretRevoked`, fairness | `AttemptOwnership`, `CapacityHeld`, `BudgetsRespected`, `EnabledWebhookCanSign`, `NoRequestAfterDisable`, `Settles`, refinement of `DeliveryContract` |
| `jobs_schedule` | 1 Job, two schedules, a scaled calendar, four minutes | `SlotsMoveForward`, `SkippedStaysSkipped`, `SlotsAccountedFor` |
| `streams` | 1 stream, 2 Collections, window of 2 events and 2 bytes, 1 connection, fairness | `RetainedWindow`, `NothingMissed`, `WakeNotLost`, `LostAccessEnds`, `CloseEndsStreams` |
| `schema_changes` | 2 clients that may leave, 2 ChangeSets, 3 attempts, 2 Records, 2 versions of a ChangeSet | `ApplyHoldsTheChange`, `OneAttempt`, `UniqueHolds`, `RelationTargetChecked` |
| `restore` | database, key, a sidecar and an object; 2 activations, 2 failures (a failing step, a kill or a power loss, also before the disk has got what an ended process did), fairness | `OldOrNew`, `CommitPoint`, `Recovers` |
| `files` | 2 writers over 1 Record, 1 key, 1 upload, 1 migration, 1 restart | `LostOnlyByOverlap`, `UploadBoundOnce`, `ConfirmedCancelHolds` |
| `record_writes` | 2 writers, 2 requests, 2 schema versions, 3 of the rules | `EventsReplay`, `RelationsResolve`, `RunsTellTheTruth`, `CommittedWritesAllowed` |
| `listings` | 4 rows, 2 values and the empty one, pages of 1, raw pages of 2, 3 facts of a source, 1 write | `ListedOnce` |
| `app_accounts` | 2 App Users, 1 address, 1 request in flight, 3 tokens, 2 passwords, 3 mails, 1 restart | `SessionsOfCurrentPassword`, `CodesEndTogether`, `SendsBounded`, `OneSender` |
| `admin_accounts` | 2 requests, 2 Administrators, 2 Service Accounts, 1 key, 2 Sessions, 2 addresses | `OneIdentityPerEmail`, `OwnerStands`, `NothingRegained` |
| `extensions` | 2 Extensions, 1 Collection, 1 Secret, 1 intent, 1 before Hook, 2 owed cancellations, 1 stop | `OneHookPerSlot`, `RevokedIsCancelled`, `IntentsStand` |
| `extensions_restart` | violation, fairness | finding 1 |

`TypeOK` is a definition of most modules and is in no run: theorems state it for
every instance of ten modules (`TypeCorrect`, `JobTypeCorrect`, `RestoreTypeCorrect`), and in the others
it documents the variables.

Why the bounds are enough. The limits of the code (queue, history, rounds,
retries, slots, window, tokens, pages) are constants set to one or two, so that
every limit is reached, exceeded and left again within the bound. Conflicts in
these components are between two actors over one object, and there are two of the
actors that can conflict; ordering effects that need a third object have it (the
third delivery pushes the first out of a history of two; the second Collection
pushes the first's events out of the window; the third attempt follows one that
failed and one that was interrupted; the fourth row follows a page that ended
inside a group of equal keys). A second crash in `Restore` may hit the recovery
of the first. Counters that would grow for ever are bounded only in guards, and
the constants that do so are commented as bounds where they are declared. The
Cron calendar has two minutes a day, two days a month and three days a week:
small, but a day of the month and a weekday still match on different days, which
is where the two readings of day fields differ.

Four runs have a `CONSTRAINT` besides. `MCDeliveries!Scope` explores three
deliveries for Record hooks (the third while no cancellation is owed and no Secret
is deleted), and one or two when the Webhook is replaced, for
tests and Jobs, after a redrive and after a crash; it cuts off only steps to
which no fairness is owed, so that `Settles` is still checked on whole
behaviours. `MCAppAccounts!Scope` explores either several passwords and tokens
with mails that settle at once, or one of each with retries, test mails and a
restart. `MCRecordStream!Scope` leaves the list rule of the Collection alone that
nobody watches, and is owed no fairness either. `MCExtensions!Scope` allows two owed cancellations
at a time, one after a second configuration was replaced, and none after the restart.

Symmetry is used for interchangeable ids that no definition orders: clients,
writers, accounts, ChangeSets, attempts, Records, Extensions, intents. It is used in
no run with a liveness property.

Deadlock is not checked where the model ends by its bounds or the system may really
stop: `JobSchedule` (after an edit that raced the scheduler the same slot can be
planned twice, the unique index then refuses every start, and the Runtime stays
down), `Restore` and `FileStore` (all crashes and activations used), `RecordWrites`
and `Listings` (all requests answered), `AppAccounts` and `Extensions` (bounds).

Some properties state less than one would wish, because the code does less. Each
names its exception in the definition and its comment:

- `NoRequestAfterDisable` excepts an attempt whose entry in the map of active
  attempts an earlier attempt of the delivery has deleted (`displaced`).
- `SlotsMoveForward` and `SkippedStaysSkipped` except a Job whose edit the scheduler
  overtook (`raced`). `SlotsAccountedFor` says what becomes of each slot, not that
  each is delivered: an every-minute Job delivers every other slot, against spec
  0006 ("emits one Delivery per due slot").
- `OldOrNew` and `CommitPoint` except the time after a power loss that undid what an
  ended process had left unsynced (`lost`).
- `LostOnlyByOverlap` excepts Records whose last write overlapped maintenance,
  `RelationsResolve` the deletion that listed the relations before one was applied
  (`blind`).
- `CommittedWritesAllowed` asks about the row that the rules decide about inside the
  transaction, which for an update is the old one.
- `ListedOnce` excepts Records that a cursor passes over because of an empty Field
  (`PassedOver`), and the facts that a redrive moved back, which may be listed twice
  (`redriven`).
- `RevokedIsCancelled` excepts a binding that went with its Collection (`Stranded`),
  against spec 0005 section 5.
- `ConfirmedCancelHolds` is about a cancellation that was answered while the row
  said that the migration was running; a row that another writer overwrites
  afterwards is only asked for the switch.
- `SendsBounded` counts restarts and gives a test mail its budget twice.
- `LostAccessEnds` says that a stream ends, not that it does within one heartbeat.
- `OnlyFailuresStrand` (a theorem) says that the failure of an Apply that could not
  be recorded is the only way to lose an attempt, not that there is none.

### Fairness

`Deliveries!Fairness`: workers take steps (goroutines are scheduled; a request
ends within its two second deadline; `persistAttemptOutcome` retries until
storage answers), retry delays elapse, and a stopped Runtime is started again.
The Owner and the receiver are owed nothing, and crashes are finitely many.

`RecordStream!Fairness`: a handler that can go on does and its ticker ticks
(weak); a handler blocked on the channel of replay slots is served in turn, as
Go serves blocked senders, and a `select` that finds its context cancelled again
and again does not choose the other case for ever, as Go chooses at random
(both strong).

`Restore!Fairness`: a process that is restoring goes on (weak), one that has the
project open is stopped some time (weak), and somebody whose restore was
refused or interrupted calls it again with the backup (strong). Crashes are
finitely many; without that `Recovers` is false, and ought to be.

`Extensions!FairSpec`: somebody starts the stopped project (weak). It is what makes
the violation of `StartsAgain` a fault of the code: starting is never possible
again, not merely never tried.

## 4. Proofs

TLAPS checks these for every set of webhooks, secrets, workers, clients,
ChangeSets, attempts, Records, values, identities, keys, Jobs, schedules, tokens,
mails, Extensions, intents, uploads, migrations, streams, listed rows, sidecars and file objects, and every budget
and limit. The only assumptions
are those the modules state about their constants (`DeliveriesAssumption` and
so on); TLC evaluates them in the runs. Four of them say more than the type of a
constant. `CronAssumption` says that every schedule has a run time after every
minute: `CreateJob` and `ReplaceJob` refuse one that has none, and in a calendar
that repeats one run time is followed by others. `ExtensionsAssumption` allows a
Secret one version at least, because creating it gives it the first.
`FileStoreAssumption` allows one revision at least: a project begins with the first.
`StreamAssumption` says that no Event is larger than a page and no page larger than the
window: `AppendEventInTransaction` refuses an Event beyond `maximumSingleEventBytes`,
which is `maximumReadBatchBytes`, and the window has 64 times as many.

**Deliveries.** The inductive invariant `IInv` joins the types,
`AttemptOwnership` and `Standing`. They need each other: that a running
delivery's attempt row is its last one follows from who holds it, that a
recovered delivery may be retried from what it has behind it. From `IInv`
follow `TypeCorrect`, `ClaimsAreExclusive` and `DeliveriesStand`.
`NoRequestAfterDisable` needs a second invariant, `DisableReaches`: a worker
that passed the block check of a Webhook its owner then disabled is already
cancelled, or the owner still owes the cancellation; every later step of that
worker is refused. It also says that a worker past its registration is in the map
of active attempts or was displaced from it, which is the one way for a
cancellation to miss it and the exception of the property. `EnabledCanSign` is inductive with the types alone.
`Refinement` maps each action to one of `DeliveryContract`'s.
`CapacityIsHeld` needs that what is not created yet has no status (`Standing`) and
that the history is longer than the queue, which the code's limits are: with the
history full there is then a terminal delivery, hence an oldest one (`Least`), and
one is removed for the one that is added. `BudgetsAreRespected` is about a sum over
rounds. `Budgets` adds to it that a delivery that does not exist has no round and
that a worker that is done has an outcome, so that finishing never writes an empty
row; that the sum is defined, is zero at the start and grows by one with an attempt
are lemmas for any finite set (`SumDefined`, `SumOfZero`, `SumOfIncrement`).
They are induction over data. The library's rules for it take an operator as a
parameter, which the provers cannot instantiate; `SubsetInduction` has the set of
the good subsets instead, and follows from a smallest counterexample (`WFMin` of the
library, for `<` on the naturals).

**SchemaChanges.** Neither `ApplyHoldsTheChange` nor `OneAttempt` is inductive:
an edit by a second client breaks them unless it is known that the ChangeSet of
a running Apply has an attempt in progress. `IInv` says who holds what: an
attempt in progress belongs to one active ChangeSet (`AttemptsActive`), no
ChangeSet has two (`OneAttempt`), a running request has its own (`CallsHold`,
`CallsApart`), a deleted Collection has none (`Gone`). `EditKeeps` shows that
every edit goes to a ChangeSet without an attempt; `StartedKeeps` and `EndKeeps`
that the two ends of an Apply move exactly one. `UniqueStands` is inductive by
itself, because both steps that could break it go through the index;
`RelationsAreChecked` follows from the second evaluation alone. The theorem
`AttemptsEndWithTheirRequests` says of every step that leaves an attempt in progress
without a request that it is the third transaction of a failed Apply, failing
itself, for whatever reason; a start leaves none, since recovery closes them all. It
needs that nobody calls while the process is down (`NobodyCalls`).

**AdminAccounts.** `OneIdentityPerEmail` is not inductive: `bootstrap` writes the
Owner's address without looking at the Administrators'. `IInv` adds that before
the first run there are none and nobody acts as Owner (`NobodyBefore`), which in
turn needs that a Session belongs to somebody who is there (`SessionsOwned`): a
login that a deletion overtakes must not open a Session that the foreign key
would refuse. From `IInv` follow `TypeCorrect`, `IdentitiesApart` and, with the
types, `OnlyWhatIsHeld`: a request that is answered comes of a Service Account
that is active in its transaction, and what it gives lies within its own
Permission (lemma `Allowed`). `OneOwner` follows from the condition of
`BootstrapCommit` alone.

**JobSchedule.** `SlotsMoveForward` is not inductive: a tick may use an instant
that it has read long ago, and an edit a slot that it has computed from one.
`IInv` adds that whatever the scheduler has read or consumed lies in the past
(`Past`) and that an edit it has not overtaken plans a slot after everything it
has consumed for the Job (`EditAhead`); lemma `CronNextLater` gives each of them
its progress. `StartsUnlessRaced` draws the conclusion that matters in operation:
while no edit has raced the scheduler, no tick and no startup meets the unique
index, at whatever time. `SlotsAreAccountedFor` needs that an
instant at which the scheduler left a Job was one at which its next run was not due
(`LeftNotDue`), and that every slot that is jumped over had begun: no run time lies
between an instant and the next run that `CronNext` gives for it (`CronNextIsNext`,
from `MinIsLeast`).

**RecordStream.** None of the three properties is inductive. `NothingMissed` needs that a
page continues without a hole where its stream has got to (`Paged`), which lemma
`PageShape` gets from `RetainedWindow` and from the numbering of the rows (`Table`):
a page is not empty unless the stream has reached the head, because it takes one
Event at least (`OneFits`), and it takes with an Event all before it. `RetainedWindow`
is preserved because pruning keeps with a row all that came after it (`KeptLast`), so
that what is dropped of a Collection is what its new watermark covers
(`PrunedSpans`), and what is kept fits because its first row was kept (`KeptFits`).
`WakeNotLost` needs the same of a stream that has read an empty page and not begun
to wait (`Hears`), and that it is registered. The number of streams that
hold a replay slot (`Slots`) bounds the channel. The lemmas about `Page` and `Kept` are
for any finite set of rows.

**AppAccounts** and **MailOutbox**, of which it is an extension. For a password the
hazard is what happens between the reading of a credential and the commit that
uses it; the proof needs that a Session's owner has a credential
(`SessionsOwned`), or the two secrets could not be compared, and that
`SameCredential` is asked again by every commit. `CodesEnd` needs that tokens are
numbered in the order of issue (`CodesNumbered`), so that pruning takes the oldest.
`OneSender` becomes inductive with what each dispatcher knows of its mail
(`Senders`); that a running mail has a sender is not part of it, since an outcome
that was not recorded leaves one without. `SendsBounded` bounds a past quantity by budgets that the provider
consumes: `Spending` states the potential instead, conversations so far plus
attempts left, for mails that wait, for mails that are being sent, and with one
more for a mail whose row says that it is running (`Slack`), whose last outcome may
never be recorded; each step either moves one unit
from the future into the past, or is a restart or a retry, which pay for it.

**RecordWrites.** A request carries what it has read through several stages, and
its commit is right because of what cannot have changed meanwhile. `WellFormed`
places a request on the path of its operation (`Stages`, a sequence that depends
on the kind of the request and on the lifecycle) with what it has learnt so far;
`Loaded` says that its snapshot of a Collection is the model of now as long as
the versions are equal, which is what the commit compares; `Fresh` that an id
drawn by a creation is nobody else's. With them `EventsReplay`,
`RelationsResolve` and `RunsTellTheTruth` are inductive together. `Counted` bounds
the revision of a Record by the requests that have begun. `WritesAreAllowed`
is a property of the commit alone, but needs `WellFormed` to know which row it
decides about.

**Extensions.** `RevokedIsCancelled` is not inductive, because one owed cancellation
does not stand in for another: a replaced configuration that still covers what a
Hook pins cancels nothing, even if the Extension was disabled besides. `Owing`
therefore names, for each of the four things that can be taken from a running
Hook (that its Extension is enabled, its binding and grant, its Secret and that
Secret's value), the cancellations that may be owed while it is missing. That a
Hook has them when it starts rests on `PendingStands`: an intent that is still
pending pins the Secret its Extension names, or the request that changed it would
have cancelled it. `Placed` says what is behind each stage of an invocation, from
which `IntentsSettleOnce` follows; the bound of the semaphore is part of
`TypeCorrect` and is about the cardinality of `Busy`.

**FileStore.** None of the three is inductive: each forbids a result, and says
nothing of what a request has in hand. `Undisturbed` says what a write that has
overlapped no maintenance can rely on: the Provider in memory is the stored one
unless a reload is under way, and is the one that the write has picked, and its
object is there. `Known` says what reconciliation, a migration or a `Configure`
knows of every Record that was not written over it: its key is kept, is in the new
Provider already, or is still to be copied. With both, only an overlapped write can
lose an object (`ObjectsKept`). For uploads, `Staging` and `Bound` say who holds a
staged upload at each step from its claim to its promotion, and that an upload
that became an object is gone (`UploadsConsumedOnce`). For cancellation,
`RowsOfMigrations` relates a migration to its row: a confirmed cancellation is of a
row that is cancelled or failed and of a migration past its start (`CancelHolds`).

**Listings.** `ListedOnce` says nothing of a listing under way. `ListedRows` adds that
what has been given to the client is not behind its cursor, wherever a row that
changes has moved since, `SteadyRows` that a steady row which is not behind it has been
given, and `Collected` the same for the two cursors of `ListApplication`: what it has
collected lies between them, and no steady Record there is missing, so that a page
cut out of what several snapshots gave is still a prefix of the order. Lemma
`AfterIsBehind` is what the comparisons with a cursor are for: each of the three is
the order of its listing, except across an empty Field. `Noted` ties that exception to
the cursors the listing has had, so that a steady row is given, is still ahead, or is
`PassedOver`. A fact of the Activity that moves forward cannot come back behind the
cursor, one that a redrive moves back can, and is no longer counted (`Tame`). `FirstRows` says what a page is of any finite
set of places, and its largest and smallest elements (`OneLast`) come from the numbers of
their predecessors, not by induction. The attempt also showed that a row of the
Activity feed must not come back under an ID that was used before, which the code
ensures (a fact has the ID of its row, which is drawn anew) and an earlier form
of `WriteFact` did not say.

**Restore.** `OldOrNew` and `CommitPoint` speak of what a power loss may leave now, so
the invariant has to speak of every content that `disk` allows a directory, not of
the one that processes see. `Before` says that each of them, for each destination,
is one the journal can undo: the old file under its own name or under the backup's
if a backup is recorded, nothing where nothing was. `After` says that each is the
new file. `RestoreInv` has one of the two at any time, `After` once the marker is
synced (`committed`), and what the process knows at each of its stages (`Stages`):
that a step may leave one destination behind, the one whose directory it syncs next
(`Open`); what was staged, preserved and installed so far (`Copying`, `Preserving`,
`Activation`, `Sealing`), from which the marker means that every target is in place;
that a rollback has undone all destinations but those it has still to visit
(`Rollback`); that a clean-up removes backups only when nothing can be undone any
more, and the journal only when there are no backups. The lemmas about `Put` say once
what writing, syncing and forgetting files leave of these (`PutBefore`, `PutAfter`,
`QuietPut`, `FewerFiles`); TLC checked `RestoreInv` on the instance of the run before
it was proved. `RestoreInv` holds until a power loss leaves what was stale
(`RestoreInvariant`: `lost \/ RestoreInv`), and `lost` is never taken back
(`LostStays`). Nothing is proved of the time after it. The two failures of the run are
not enough to need the exception; with three, and the properties without `lost`, TLC
finds a clean-up that has removed backups under a marker that no process has synced,
and the mixture that a power loss then leaves (section 5).

Checked by TLC only:

- the liveness properties (`Settles`, `LostAccessEnds`, `CloseEndsStreams`,
  `Recovers`): liveness, fairness and `ENABLED` are outside the prover's reach.

No module with a theorem uses a RECURSIVE operator.

## 5. Findings

1. `extensions_restart` - a stop while a before Hook runs leaves a Run whose
   `intent_id` is NULL; `interruptPending` scans it into a string, `NewService`
   fails and the Runtime does not start again (`extensions/hooks.go:515`, against
   spec 0005).

What follows was met while modelling; no run of its own shows it. The first list is
**in the models** as the code does it, under the definition that is named, and the
properties above are stated so that they hold nevertheless.

Automation and schema:

- `unregisterActive` is deferred until after the outcome is committed and deletes by
  delivery id (`automation/dispatch.go:168`, `automation/webhooks.go:172`). If the
  delivery was claimed again by then, the entry of the new attempt goes, a disable
  does not find it, and it posts after the disable has returned (against spec 0006
  "cancel their active request contexts"). In `Deliveries`: `UnregisterActive`,
  `displaced`.
- Deleting a Secret cancels the requests of the Webhooks that use it now; after
  `ReplaceWebhook` a worker that still holds the old Secret posts after the
  deletion has returned (`automation/webhooks.go:135`, against ADR 0004 "A request
  never starts with a deleted Secret"). In `Deliveries`: `SecretRevoked`.
- An error of the block check cancels a delivery as a block does
  (`automation/dispatch.go:259`). In `Deliveries`: `CheckBlock`.
- Slots are compared as RFC3339Nano text, so a tick in the first second of a
  minute does not find the slot of that minute; an every-minute Job then delivers
  every other slot (`automation/jobs.go:218`, against spec 0006 "emits one Delivery
  per due slot"). In `JobSchedule`: `TextDue`.
- The deletion of a Collection looks for the status `applying`, which no code
  writes, and so goes through while an Apply runs (`backendapi/deletion.go:148`,
  against spec 0012). In `SchemaChanges`: `Applying`.
- A failed Apply is recorded under the context of the request; when the client has
  left, or the transaction fails for another reason, its attempt blocks the ChangeSet
  until the Runtime restarts (`backendmodel/apply.go:166`, against spec 0002). In
  `SchemaChanges`: `RecordApplyFailure`.

Records and files:

- A cursor that ends with a NULL skips the Records with a value (ascending), and
  Records with NULL are never listed after a page that ends with a value
  (descending) (`records/query.go:487`, against its own comment). In `Listings`:
  `AfterRecord`, `PassedOver`.
- The Collections that may refer to a Record are listed before the transaction
  that deletes it (`records/relations.go:98`): a relation applied in between
  dangles. In `RecordWrites`: `References`, `blind`.
- A visual rule that is run again after its run row was lost creates its Record
  again. In `RecordWrites`: `LoseRun`.
- What a hook changed is authorized before the transaction only for its values;
  inside, the rules decide about the row that was there. In `RecordWrites`:
  `CommitUpdate`.
- An object that is written after a migration listed its keys stays at the old
  Provider (`filestore/service.go:955`, against ADR 0005). In `FileStore`: `ListKeys`.
- `updateStatus("running")` is unconditional and brings a cancelled migration row
  back; `finishMigration` of a failure overwrites `cancelled`. In `FileStore`:
  `MarkRunning`, `FinishMigration`.
- The busy check of `StartMigration` and the insert of the row are two steps. In
  `FileStore`: `StartMigration`, `InsertMigration`; the run has one migration, so that
  only the theorems cover two.
- Staged uploads do not expire before a restart (spec 0007 says 15 minutes), so 64
  abandoned ones block staging. In `FileStore`: `MaxUploads`, `Cleaned`.
- Reconciliation looks at the first 1,000 keys only. A promotion in the local
  Provider keeps the modification time, so a file staged long ago is old at once. In
  `FileStore`: `FirstPages`, `PromotedAge`.
- A recovery takes what it finds for durable and does not sync it again: when a
  process is killed between the renaming of the marker and the sync of the managed
  directory, and the clean-up of the next one fails before it has synced that
  directory, the one after that removes the backups of file objects, and a power loss
  that takes the marker back then leaves the old database with new objects. A retried
  rollback has the same gap. In `Restore`: `stale`, `StalePowerLoss`.
- A rollback also deletes a destination of which there is no backup, if it was
  activated (`portability/restore.go:1216`); ADR 0008 reads as if it never did. In
  `Restore`: `Undo`.

Accounts, mail, extensions and listings:

- An Administrator's login verifies the password and then opens the Session
  without comparing anything again (`adminauth/administrator.go:521`): a disabled
  Administrator, or one whose password was just changed, may get one. In
  `AdminAccounts`: `LoginCommit`.
- Recovery keeps 1,025 tokens where 1,024 are meant, and a deleted App User keeps the
  credential, so the address stays blocked. In `AppAccounts`: `KeptCodes`,
  `WriteProfile`, `EmailFree`.
- A token that has expired is mailed all the same. In `AppAccounts`: `Renderable`.
- A test mail can be tried up to twice its budget minus one, since the request counts
  from what it read before the worker tried (spec 0008 section 3.5, ADR 0006), and
  errors of `markSucceeded` and `reschedule` are ignored (`mail/worker.go:194`, `:219`).
  In `MailOutbox`: `Rescheduled`, `Unrecorded`.
- Deleting a Collection removes its bindings without cancelling its intents or the
  Hooks that run (`backendapi/deletion.go:194`, against spec 0005 section 5), and a
  late cancellation of an earlier request may cancel a newer invocation and leave its
  intent pending until a restart. In `Extensions`: `DeleteCollection`, `Stranded`,
  `CancelActive`.
- A redrive clears `completed_at` (`automation/deliveries.go:220`), and the fact of the
  Activity feed then has the time of the creation again
  (`automation/activity_facts.go:60`): one that was listed is listed once more on a
  later page. In `Listings`: `WriteFact`.
- The Activity feed takes the newest 500 rows of a source and filters them
  afterwards. In `Listings`: `Newest`, `Candidates`.

The second list was seen in the code and is **in no model**, so that nothing here
checks anything about it:

- A restore rolls event sequences back and identities are given out again
  (`recordevents/service.go:186`, against spec 0004).
- `ListChanges` (`backendmodel/apply.go:368`) sorts by parsed time but compares its
  cursor as RFC3339Nano text, so a timestamp on a whole second can be lost between
  two pages.
- A cursor of deliveries is not bound to its filters, as those of Records, Requests
  and Audit records are.
- `runRule` and `retryRun` do not look at `Enabled` and `RetryEnabled`.
- The staging mutex is held while the client's body is read; the background loop of
  the reconciliation drops its error.
- Every `/administrators` route asks for the Owner although spec 0008 maps some to
  `sessions.read` and `sessions.revoke`. Administrator Sessions are not pruned
  (spec: 1,024).
- The rate limit of a registration answers otherwise than the comment in `users.go`
  says; the limit of two attempts a minute (ADR 0006) is not there.
- Two saves of the mail settings, or two Configures of the file store, lose one.
- An import and an export read the hash of the model once, before the lines or
  pages they work through.

## 6. Not modelled

- Data: bodies, signatures, field types, rules, SQL text, mail texts, source text of
  hooks. A receiver's answer, a rule and an evaluation are choices among their
  outcomes.
- Transactions that fail for storage reasons, except where the code goes on
  afterwards (`ApplyFails`, `RevokeReadFails`, the failing steps of `Restore`). A
  transaction that rolled back is a step that did not happen; `SQLITE_BUSY` fails the
  request and changes nothing.
- AI proposals (`aicollab`): `apply` applies whatever ChangeSet is active and its
  version of that moment, and a second concurrent apply overwrites `applied` with
  `failed`. The code names no reviewed change, so a model would have no promise to
  check beyond those of `SchemaChanges`.
- What a version number identifies: `Apply` names a Collection and a version, and
  a new ChangeSet begins at version 1 again (`backendmodel/apply.go:57`).
- A wall clock that is set back: it delays every Job until it has caught up
  (`automation/dispatch.go:87`). `JobSchedule`'s clock moves on or sleeps.
- A restore while events were delivered: `Restore` has the files, `RecordStream`
  never goes back to an earlier sequence.
- A power loss that brings back the journal of an earlier restore.
- Import and export of Records, the check of a bundle, migration of system tables,
  drift, generated artifacts: one transaction, or pure.
- The JavaScript engine, the outgoing HTTP filter, the key ring, SMTP, object
  storage protocols, routing, the command line and the admin UI: I/O around the
  modelled operations.

## 7. What could follow

- Composition of `RecordWrites` with the log of `RecordStream`, and of
  `JobSchedule` with `Deliveries`, which share one transaction each.
- A restore in `RecordStream`, with cursors of clients from before it.
- Syncing what a recovery finds, in the code; `lost` could then go from `Restore`.
- An abstract swap of two projects that `Restore` implements; `OldOrNew` and
  `CommitPoint` state what it would say of a single state.

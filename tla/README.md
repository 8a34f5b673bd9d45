# A verification development for tern-scheduler

Tern runs jobs on a schedule, with any number of scheduler instances over one
data store. The instances share no memory: what keeps them apart is a *lease*
stored in the row of each scheduled job, and the state stored in the row of each
task. These modules model that protocol from the source, and beside it what each
instance does on its own: the polls and their stop, the search for the next date
of a cron schedule, the paged lists. TLC checks them on small instances; TLAPS
proves for every instance, among others, that a task's job is started at most
once, that a handler makes no more calls than are counted when it begins, and that
a date the cron search finds agrees with every field of its expression in the zone it works in.

Paths below are relative to `src/packages/core/src/lib` unless they begin with
`src/`.

## The system

### Components

| Component | State | Operations | Hard behaviours | What makes it correct |
|---|---|---|---|---|
| Data model (`model`) | the rows `ScheduledJobModel`, `TaskModel` | none | none | rows keep their types |
| Data store (`datastore/db-impl.ts`, `memory.ts`, `src/packages/datastore-sql`) | both tables | lease, release, mark for repair, take over; eight task updates; polls; listings | concurrent conditional updates; rejected calls and lost answers; date boundaries | the lease is a lock; only an expired lease is taken over |
| Lease controller (`controller/schedule.ts`) | none of its own; the lease in the row | `runUpdateInLease`, `createScheduledJobAlone` | retries with a wait; the lease expires inside; every step may fail | every lease ends; nothing changes without it |
| Task controller (`controller/combined.ts`) | none of its own; the task rows | `createScheduledJob`, `startTask`, `taskFinished`, `retryTask`, `disableSchedule` | two instances with one task; the finish overtakes the start; check, then add | started once; records what happened; one pending task; no overlap |
| Repair controller (`controller/repair.ts`) | `repairState` of the row | `repairExpiredSchedule` | racing repairs; the handler it replaces is still alive; a crash in the repair | every repair ends; the schedule goes on |
| Wiring (`wire`) | none | events to controllers; polls for ready tasks and expired leases | a poll's result is old when it is used; a notice is delivered twice | no effect is applied twice |
| Polling and stop (`strategies/poll.ts`, `basics.ts`: `PollingCallback`) | active flag, registered callbacks | register, stop, stop and wait | a callback in flight at the stop; a dropped registration | the loop goes on; a stop drains |
| Data store: conditionals and paging (`db-impl.ts`, `memory.ts`, `datastore-sql`) | a page key with the client | seven lists, four polls | rows come and go between pages; two evaluations of one condition | nothing that stays is skipped; both tables select the same rows |
| Task creation strategies (`strategies/task-creation`) | the schedule's definition | when the next task runs; queue, disable or invalid | asked late, or after the last date | see the next row |
| Cron (`strategies/task-creation/cron`) | the sets of a `CronModel` | `cronToModel`, `nextCronTime` | carries, short months, leap years, offsets from UTC, a search that must end | the date matches, is in the window, and no day is passed over |
| Other strategies (`strategies`) | none | duplicate, retry, lease time, ids, poll times, time | none | ids are fresh |
| Job executor (`executor`), messaging (`messaging`) | external | `startJob`; `jobExecutionFinished` | early, late and repeated notices | |
| Client facade (`basics.ts`: `TernClient`, `TernConfiguration`, `TernScheduler`) | none | forwards to the above | none | |

### How they interact

A poll reads the store and emits an event for each row; the wiring calls a
controller, with the row as it was read. The controller runs as a chain of
promises: it leases the schedule (`leaseScheduledJob`, conditional on no update
being in progress), reads the schedule, does its work, and releases the lease or
marks it for repair. Between any two awaited calls, any other handler of any
instance can run. The job executor is called inside the lease of `startTask` and
reports the end of a job by an event, to every instance that listens. Nothing but
the store is shared, and nothing but the expiry of the lease tells the other
instances that a handler died.

## The modules

| Module | What it models |
|---|---|
| `TernModel` | the names of `model`: update states of a lease, states of a task |
| `DataStore` | `db-impl.ts`: for each conditional update of a scheduled-job row, its condition and the row it writes |
| `Scheduler` | the controllers and the wiring: the state machine |
| `LeaseLock` | abstract: what the contracts in `datastore/api.ts` promise of a lease |
| `TaskLife` | abstract: what the states of a task promise, with no handler, lease or notice |
| `SchedulerProps` | type invariant, safety, and the refinements of `LeaseLock` and `TaskLife` |
| `SchedulerLiveness` | fairness and liveness |
| `SchedulerClaims` | statements of the documentation that the code does not keep |
| `MCScheduler` | values of the constants for TLC; every run uses it |
| `SchedulerProofs`, `JobProofs`, `LeaseProofs`, `OverlapProofs` | the theorems about them |
| `Draining` | abstract: what a stop promises, with no loop and no handler |
| `Polling` | `PollingCallback`, `pollLoop`, the lease retries, `stopAndWait`: the background work of one instance |
| `PollingProps`, `MCPolling`, `PollingProofs` | its properties, the values of its constants for TLC, its theorems |
| `Calendar` | JavaScript dates and the carries of their setters, for a calendar whose units have any size |
| `CronExpression` | `expression.ts`: from the fields of an expression to the values they allow |
| `Cron` | `next.ts` and `strategy.ts`: the search for the next date, step by step, and the life of one cron schedule |
| `CronProps`, `MCCron` | its properties, the values of its constants for TLC |
| `CalendarProofs`, `CronProofs` | lemmas about dates, the theorems about `Cron` |
| `Conditionals` | `datastore/db-api.ts`: the conditions on rows |
| `Matching` | what a table in memory and an SQL table make of them, for conditions that nest two deep |
| `Listing` | the paged lists of `TernClient` and `find`, over a table that others change |
| `ListingProps` | its properties |
| `MatchingProps` | which rows `Matching` selects, and that both tables select those that `DataStore` says |
| `MCListing` | the values of its constants for TLC |
| `ListingProofs` | the theorems about `Listing` |

`Scheduler` and `Polling` meet at the handlers: in `Scheduler` a poll can begin a
handler at any time and the handler's steps are detailed; in `Polling` the
handlers are reduced to what they ask of the timers, and the loops are detailed.
That a poll loop goes on (`PollsForever`) is what the fairness of the polls in
`SchedulerLiveness` rests on.

### State and actions of `Scheduler`

* `sched` is the row of one scheduled job, `tasks` its task rows. `creation =
  None` says that the row does not exist yet; a task in state `absent` has no row.
* `op[o]` is the handler in slot `o`. Its `pc` names the awaited call that is
  next; the other fields are what the closure of the promise chain holds: the
  task, the time at which the handler began (`now`), the lease attempt and its
  wait, the job's answer. A slot is also the lease id of its handler, because
  the code draws a new id for each lease (`strategies/lease-id/uuid.ts`); a slot
  is used again only when the row does not carry its id.
* `job` and `notices` belong to the job framework: what became of the job of a
  task and how many copies of its finish notice are under way. `starts` counts
  the calls of `startJob`; no step reads it.
* One action per awaited call. `runUpdateInLease` is `TakeLease`,
  `ReadSchedule`, then the work of the kind of handler, then `ReleaseLease` or
  `MarkNeedsRepair`. `startTask` is `MarkTaskQueued`, `ShouldSkip`, `StartJob`
  and one of the updates that follow the answer; `taskFinished` is `Lookup`
  (before the lease, as in the code) and `MarkTaskFinished`; both go on with
  `CheckPending` and `AddTask` when the strategy queues a follow-up.
  `repairExpiredSchedule` is `RepairRead`, `StealLease`, `RepairFind`,
  `RepairCheck`, and `RepairAbort` for its catch.
* A call of the store is *answered*, or *refused* (rejected without effect), or
  *unanswered* (applied, and the answer lost). A conditional update whose
  condition fails is rejected. In each case the handler goes on where the
  promise chain goes on: see `Outcomes`, `UpdateSchedule`, `UpdateTask`.
* `Crash` removes a handler; its lease stays in the row. Nothing else of a
  process outlives a crash, so the death of a process is the death of some of the
  handlers.

**Time.** A date is a number of seconds relative to now, so `Tick` lowers every
date by one and a run of any length has finitely many states. A date earlier than
any that a handler can hold is kept at `Past`. `MaxAge` bounds the life of a
handler. All instances have the same clock, as the code assumes.

**Relation between `MaxAge` and `LeaseTime`.** The code does not enforce that a
handler is done before its lease ends. With `MaxAge <= LeaseTime` every handler
is punctual; with `MaxAge > LeaseTime` a repair can take the lease over while
the old handler goes on. `LeaseExclusive`, `LeaseIsLock`,
`TasksChangeUnderLease`, `AtMostOnePending` and `NoOverlap` are promises about
punctual handlers: with `MaxAge = 2` and `LeaseTime = 1` TLC finds two running
jobs of an always-skip schedule. `StartedOnce` and `RecordIsTrue` need no such
assumption, and are checked with late handlers.

### State and actions of `Polling`

* `active`, `runningCallbacks` and `activeCount` are the fields of
  `PollingCallback`; an entry holds who registered it and the seconds left on its
  timer. Ids are fresh in the code; here the least free one is taken.
* `loop[p]` is one call of `pollLoop`: whether its poll is in flight, its index
  into the poll times, and the delay it took. `worker[w]` is a handler begun by
  the events of a poll: leasing, waiting to retry, working, or `unsettled` when
  its retry was dropped by a stop. `waiter` is the call of `stopAndWait`.
* An action is a turn of the event loop: a timer fires (`Fire`), the store settles a
  poll (`PollSettles`, one action for an answer and for a rejection that is caught,
  since the second is the first with no rows), a lease is refused or taken, a stop.
* A timer fires in the second in which it is due. `stopAndWait` compares
  milliseconds, so that in the second of its timeout both answers are possible.

### State and actions of `Cron`

* `model` is the `ScheduleCronModel`; `ret` is the date that `nextCronTime` moves
  forward, in the zone of the search (UTC shifted by the offset), `InvalidDate` once a field was set to the first
  of no values (a `Date` that holds `NaN`); `runAt` the date of the task queued.
* `CreateSchedule` reads an expression. One turn of a loop of `nextCronTime` is one
  step: `BeginSearch`, `ToZone`, the three `Find...` of the time of day, `FindMonth`
  (the outer loop), `MatchDay`, `SameMonth` and `IncMonth` (the inner loop),
  `Finish`. `TaskStarts` starts the task, at its date or late, and asks again.
* A field of an expression is its ranges, its star and its step; the characters are
  left out. The units of the calendar are constants, so that TLC can search years.

What the model shows of the code, beside the run `cron_stuck`:

* A later minute or hour keeps the lower fields: with minutes 0 and 30, hour 12 and
  the time 10:15, the next date is 12:30 and not 12:00. The day is the earliest,
  the second need not be (`DayIsEarliest` says exactly this); with an `endBy`
  between the two, the schedule ends with a match left.
* A step counts from 0, not from the start of its range, and holds for the whole
  field; a step of 0 leaves no values. `FieldsAsWritten` is stated for steps on
  which both readings agree (`Aligned`).
* An empty field gives an invalid date, which is queued and which no poll finds.
* The offset is added on the way from UTC, where `api.ts:44-51` and
  `internal/time-util/convert.ts:29-34` define it as leading *to* UTC: with -330 for
  India the search works five and a half hours *behind* UTC. `ResultMatches` is about
  the zone that the search works in, and so says nothing of the documented one.
* The check of the farthest year is made after the offset was taken off
  (`next.ts:165-169`): a search that found nothing, with a positive offset, gives the
  last day of the year before.

### State and actions of `Listing`

* `table` is the sequence of rows in the order of creation. A table in memory answers
  `find` in that order, and an update leaves a row in its place. No query of the SQL
  table has an `ORDER BY` (`src/packages/datastore-sql/src/lib/index.ts:99-105`), and
  PostgreSQL, for one, moves a row that is updated: with `StoreKind = "sql"` each
  answer of `find` is any choice of that many matching rows, in any order (`Answers`).
* `NextPage` is a call with the page key of the last answer (`find`, `pageResults`);
  `create`, `conditionalUpdate` and `remove` are what others do meanwhile. `steady`,
  `grown` and `left` record the past of the table for the properties.
* A page holds one row more than was asked for: `rows.slice(1)` in `pageResults`
  changes nothing. This extra row makes up for one row that leaves the list between
  two pages, and repeats a row at the edge of two pages. The lists are called with
  `since`, which the code ignores.
* Whether a conditional selects a row is a parameter of `Listing` (`Selects`), because
  the paging does not depend on it; the run gives it the value `SelectedInTable`.
* `ConditionsAgree` ties `Matching` to the conditions of `DataStore`, on which
  the lease rests: in a table of each kind they mean what `DataStore` says for that kind.
  The two differ there in the order of dates. The lists of jobs and of tasks, which
  compare no dates, select the same rows in both. `conditionalMatchesRecord` (`datastore/memory.ts:15-55`) and
  `conditionalLink` of the SQL table call themselves on the parts of an `and` or `or`.
  The data store builds comparisons and `and`s of comparisons, to which the SQL table
  adds the primary key, so `Matching` has an operator for each of two levels. Written
  without recursion, it can be proved about.

## What is checked

Passing runs:

| Run | Shows | Bounds, and why they are enough |
|---|---|---|
| `punctual` | `TypeOK`; the holder of a lease is alone and named in the row (`LeaseExclusive`; a repair in its catch is excepted, because the answer to its release may have been lost, and it releases once more); a task changes state only by a step of the holder (`TasksChangeUnderLease`); the rows implement `LeaseLock` (`LeaseIsLock`) | three slots, so that two repairs race while a third handler works; two tasks; one crash (a repair can die after a handler that asked for it, which needs no crash); one failed call of the store, refused or with its answer lost; one lease retry that waits; finish notices delivered twice; the strategy may queue, disable or be invalid; the user may disable |
| `overtaken` | no task is started twice (`StartedOnce`); a finished task records what its job did, and a running job has a queued or started task (`RecordIsTrue`); the rows implement `TaskLife` (`TasksKeepTheirLife`); each call brings its handler nearer its end (`HandlersAdvance`) | three slots, one task, handlers that live twice as long as a lease, one crash, one failed call of the store; the task may be deleted when finished and its name used again |
| `three_tasks` | never two pending tasks (`AtMostOnePending`); under always-skip never two running jobs (`NoOverlap`); the rows implement `TaskLife`, with skipped tasks and every answer of `startJob` (`TasksKeepTheirLife`) | two slots, three tasks, follow-ups after start and after finish, retries, each kind of answer of the job framework, two crashes, deletes |
| `progress` | every lease ends (`LeaseReleased`); every due task is taken up (`DueTaskTaken`) | two slots, two tasks, one crash |
| `polling` | a loop has exactly one continuation while the instance is active, and a handler a timer exactly while it waits (`LoopContinues`); nothing is registered once a stop resolved (`QuietAfterResolve`); a stop gives up only if some delay is as long as its timeout (`StopInTime`); a stop settles (`StopSettles`); a loop polls again until it is stopped (`PollsForever`); a handler ends unless the instance stops (`HandlersSettle`); the timers implement `Draining` (`StopDrains`) | two loops and two handlers, so that timers of both kinds meet a stop in any order; poll times of one and two seconds, a retry of one, a timeout of three, one more than the longest delay, where `StopInTime` is decided |
| `cron` | types of dates (`CronTypeOK`); the date of a queued task, shifted by the offset again, agrees with all fields (`ResultMatches`), lies after now and within the window (`RunInWindow`), and passes over no day (`DayIsEarliest`); fields are read as written (`FieldsAsWritten`); each turn of the search for a day goes forward (`SearchAdvances`); with every day of the week allowed, the search ends (`SearchEnds`) | minutes of two seconds, hours of three minutes, days of two hours, weeks of three days, years of two months of one to three days, a leap year every other year, so that every carry and a day that some months lack occur within the three years searched; stars, numbers, steps, ranges either way round, numbers out of range; months that lead into the next year; offsets of both signs, that move the day; a first date and one after a start on time or late |
| `listing` | primary keys and pages (`ListingTypeOK`); in memory, no row that stays is skipped (`NoneSkipped`) and a row is shown again only at the edge of two pages (`ShownAgainAtTheEdge`); a list has no more pages than one row for each primary key fills (`PagesAreBounded`); the conditions of the leases mean in a table of each kind what `DataStore` says for it, and the lists of jobs and tasks select alike in both (`ConditionsAgree`) | a table in memory of four rows and a fifth to come, four changes, pages of one and two rows: up to four pages, and two rows can leave between two of them. The SQL table, whose answers come in any order, is left to the theorems: with one change its states are too many for a run, and `NoneSkipped` and `ShownAgainAtTheEdge` do not hold of it |

Deadlock is checked in `polling`, `punctual`, `three_tasks` and `progress`; in `overtaken`
the only task name may be used up by a task that stays started, and the
system may stop. A search that gave its answer and a list that was read to its end
are over, so `cron` and `listing` stop.

Runs that end in a counterexample; each quotes a statement of the repository that
the code does not keep:

| Run | Statement | What happens |
|---|---|---|
| `pasture_final` | `model/schedule.ts:52-53`: out to pasture, "its only next state is deleted" | a release writes the flag of its own handler, and no lease looks at it: a task that is pending at the disable is started by its poll, and the release at the end of the start clears the flag. Every handler that ends with nothing to disable does the same, a finish too |
| `two_instances` | `src/README.md:25`: instances "can run together without causing missed job execution" | two instances poll one task; the second is refused by `markTaskQueued` and asks for a repair, which is not implemented for start-task, and the schedule goes out to pasture. The same with a finish heard twice |
| `early_notice` | `controller/combined.ts:301-304`: the lease makes the finish wait for the start | the task is looked up by execution id before the lease, when the id is not stored yet; the notice is dropped and the task stays started |
| `drain` | `src/README.md:75-81`: a stop makes the polling methods "drain out before quitting" | `stopAndWait` counts timers; the handler that a poll began is still at work when it resolves |
| `cron_stuck` | `strategies/task-creation/cron/next.ts:85-87`: the search goes on "until we go beyond a reasonable time in the future"; `api.ts:21-23` offers weekdays as an example | a day of the month that matches on a wrong day of the week is tried again and again: the loop does not end, and, being synchronous, it stops the process |

More disagreements, modelled as the code is, without a run of their own:

* A job that did not start: `executor/types.ts:29` says "the scheduled job is
  disabled"; `pasture: true` is dropped by a later link of the chain
  (`controller/combined.ts:224`; `MarkTaskStartFailed`, `AfterStart`).
* A job that *fails* at once: `controller/README.md:45` has the start "mark the task's
  state according to the returned value" and "optionally initiate a retry", and
  `model/task.ts:38-40` has a state for a failed job. The code leaves the task started
  and retries nothing: `markTaskFailed` expects a queued task, and `markTaskStarted` came
  before (`controller/combined.ts:192`; `MarkTaskFailed`). What would follow an accepted
  write is modelled all the same (`AfterFailedStart`).
* A job that fails later: `model/task.ts:38-40` calls the state of its task `failed`, "reported
  result - failed execution", and keeps `complete-error` for a server that "encountered
  an error trying to get the task status" (lines 31-36). `taskFinished` writes
  `complete-error` (`controller/combined.ts:320`); the one write of `failed` is that above.
  `RecordIsTrue` is about what the code writes; `TaskLife` allows both states.
* The offset of a cron schedule is added where it should be subtracted: see `Cron`
  above. A test for "UTC-600" (`strategies/__mocha__/cron.tests.ts:210-240`) expects
  the date that the code finds, and says that the match "SHOULD be" another.
* `datastore/api.ts:181` lets a lease be broken "if and only if its current state
  is expired"; the memory store compares dates the wrong way round
  (`datastore/memory.ts:43`; `Before` with `StoreKind = "memory"`). The lease runs are
  about the SQL store.
* `datastore/api.ts:93-96` and `basics.ts:246-249` promise that paging "does not skip
  entries". In memory it skips one when two rows leave the list between two pages, which
  is why `NoneSkipped` has a bound on them. In SQL it skips and repeats rows without
  any change, because no query asks for an order: `Listing` with `StoreKind = "sql"` and
  `MaxChanges = 0` shows four rows as the pages r1 r2 r3 and r1 r2, without r4.
* `controller/repair.ts:98-103` takes a repair without a state to resume for "an
  internal bug in the scheduler" or "in the datastore". The datastore reads the state
  before the conditional take-over (`datastore/db-impl.ts:258-268`; `RepairRead`,
  `StealLease`), and it can be stale, with punctual handlers too: a creation dies in its
  lease, two repairs begin, the first one ends, the second one reads a row that is
  free; a start that was waiting takes the lease, fails, and marks it for repair; the
  second repair takes it over with nothing to resume, and puts the schedule out to
  pasture. It needs four handlers, one more than the runs have.

One more behaviour that the model has because the code has it, and that no document
denies: a job that *completes* at once gets no follow-up under an after-finish
strategy (`controller/combined.ts:173`).

### Fairness

Safety needs none. `FairSpec` in `Cron`: `nextCronTime` is a synchronous call, which
goes on until it returns; nobody owes a start. `FairSpec` in `Polling`: time passes, timers fire, the store
settles each call; nobody owes a start or a stop. `FairSpec` in `SchedulerLiveness` assumes: time passes; the
promise chain of a live handler goes on (each pending call is answered or
refused); the poll for expired leases and the poll for ready tasks fire again and
again, because `pollLoop` registers itself after each poll; a finish notice is
delivered. The steps that begin a handler are *strongly* fair because slots
are a bound of the model: the code starts a handler whenever it wants one, and
in the model a slot may be free only from time to time. Steps that the code does
not owe to anybody (create, disable, crash, the end of a job, a delete) have no
fairness.

## What is proved

The theorems about `Scheduler` hold for every value of the constants that satisfies
`SchedulerAssumption` and `StoreAssumption`: any number of slots, tasks, crashes,
failed calls and notices, any lease time and age, either store.

* `TypeCorrect` (`SchedulerProofs`): `Spec => []TypeOK`. `TypeOK` is not
  inductive: which task and which status a handler holds depends on its `pc`.
  `TypeInv` adds that, and what each helper of the model returns is a lemma of
  its own.
* `StartsOnce` (`JobProofs`): `Spec => []StartedOnce`. The invariant is
  `StartInv`, with `TypeInv`. A task that is pending or absent was not started
  (`PendingNotStarted`); a handler about to call `startJob` has a queued task that
  was not started (`LaunchOwnsTask`); there is at most one such handler for a
  task (`OneLauncher`); once `startJob` answered, the task has left the queue of those
  that can be launched (`AnsweredLeftQueue`); and the first task of a schedule
  is fresh (`FirstTaskIsFresh`). The argument does not mention the lease: it is
  the expected state in `markTaskQueued`, not the lease, that keeps a late handler
  from starting a task again. This is why the theorem needs no bound on how long a
  handler takes.
* `RecordsAreTrue` (`JobProofs`): `Spec => []RecordIsTrue`. The invariant is
  `RecordInv`, with `TypeInv` and `StartInv`. It says that what a handler believes of its
  task's job (`LaunchBelief`, `FinishBelief`) is so: nobody else starts that job, an
  ended job does not change, and the name of a deleted task is not drawn again while
  a handler or a notice refers to it. Again the lease is not part of the argument.
* `TasksImplementLife` (`JobProofs`): `Spec => TasksKeepTheirLife`, the refinement of
  `TaskLife`. The state of each row, its job and its count of starts are mapped to
  themselves, and everything else is hidden. From `TypeInv`, `StartInv` and `RecordInv`,
  one lemma per action says which step of the abstract life it is. Where a handler
  writes what it believes (`Skip`, `FailToStart`, `Start`, `Complete`, `Fail`), the guard
  of the abstract step speaks of the job and of the count, which the handler does not
  read; `LaunchOwnsTask` and the beliefs supply it. `TaskLife` allows `failed` and `complete-error` for a job that failed, and `complete-error`
  also for one whose end is unknown; of these the code takes `complete-error` for a job
  that failed. `MarkFailedLife` shows that its one write of `failed` is refused always.
* `HandlersEnd` (`SchedulerProofs`): `Spec => HandlersAdvance`, from `TypeInv`.
  `CallsLeft` counts the calls that a handler still makes, all retries included; each
  answer, refusal or lost answer lowers it, and no step of another handler raises it. So
  the number of calls of a handler is known when it begins, with no fairness and no
  bound on time, and a handler that has ended owes nothing. That the calls are
  answered, and the next one is made, is fairness and stays with TLC
  (`LeaseReleased`).

For every value of the constants that satisfies `PollingAssumption`:

* `PollingTypeCorrect` and `StoppedIsQuiet` (`PollingProofs`), from one invariant
  `PInv`. It adds to the types that a call of `stopAndWait` leaves the instance
  inactive, which nothing undoes, and that the count was zero when it resolved. An
  inactive instance registers nothing (`RegistrationTyped`), so the count stays zero.
* `LoopsContinue` (`PollingProofs`): `Spec => []LoopContinues`. `Continuations` says what
  each place of a loop and of a handler has registered: between two polls of an active
  instance one callback, during a poll none.
* `StopsInTime` (`PollingProofs`): `Spec => []StopInTime`. `Patience` says that the seconds
  a callback has left and those that the stop has waited are together no more than the
  longest delay, because a stopping instance registers nothing new.
* `StopImplementsDrain` (`PollingProofs`): `Spec => StopDrains`, the refinement of
  `Draining`. `active` is mapped to `running`, the count to `timers` and the state of the
  waiting call to `answer`; loops, handlers, delays and the clock are hidden. A
  callback that fires and registers again at once would be no step of the abstract
  machine: the code registers again only when the poll has settled, a later turn.

For every value of the constants that satisfies `SchedulerAssumption` and
`StoreAssumption`, and with `Punctual` (`StoreKind = "sql" /\ MaxAge <= LeaseTime`) as a
hypothesis of each theorem, because without it they are false:

* `LeaseIsExclusive`, `LeaseGuardsTasks` and `LeaseImplementsLock` (`LeaseProofs`): the
  lease properties, and each step of `Scheduler` is a step of `LeaseLock` or leaves its
  variables alone. The invariant is `LeaseInv`, with `TypeInv`. A lease expires when its
  handler began plus the lease time (`LeaseHeld`), so never while that handler lives,
  and a repair finds only leases whose handler is gone. The rest is what surrounds this:
  the time before the row exists (`Unborn`, `OneCreator`, `CreatorFirst`), that dates
  of handlers are bounded (`Ages`), and that a handler which has not asked for the
  lease owns none (`OutsiderOwnsNothing`), so that a repair never takes over from itself.

* `OnePendingTask` and `JobsDoNotOverlap` (`OverlapProofs`): `AtMostOnePending` and
  `NoOverlap`. Both check the rows in one step and act on them in a later one, which is
  safe because inside the lease a handler works alone (`WorkAlone`). The invariant is
  `OverlapInv`, with all those above. `shouldSkipTask` sees started tasks only, so a job
  whose task is still queued (`Unseen`) escapes it; but the schedule has no pending
  task then, and nobody is left to add one.

For every value of the constants that satisfies `CalendarAssumption` and `CronAssumption`,
which is for calendars whose units have any size:

* `CronTypeCorrect` and `ResultsMatch` (`CronProofs`), from the invariant `CInv`. Its
  core is `SetSoFar`: at each place of the search the fields that were set already have
  a value that the expression allows. A carry out of a field moves larger fields only,
  and those are set after it, which is why the order of the search matters.
  `ResultsMatch` needs `WInv` too (below): the date is queued in UTC, and the shift that the
  search began with leads from there to the date it found (`ShiftBackIsSame`).
* `RunsInWindow` (`CronProofs`): `Spec => []RunInWindow`. The invariant is `WInv`, with
  `CInv`. No step of the search leads back (`NotLater`), so what it finds is not before
  its start in the zone of the search. A shift by at most a day keeps the order of dates
  (`ShiftKeepsOrder`) and can be taken back (`ShiftBack`), so the same holds in UTC. This
  needs dates of days that exist (`RealDates`), which is what a `Date` can hold.
* `DaysAreEarliest` (`CronProofs`): `Spec => []DayIsEarliest`. The invariant is `EInv`, with
  those above. A *candidate* is a day that the expression selects, at its latest
  matching second. No candidate lies between the start of the search and where it is:
  each step either stays within a day, or leaves a day or a month that it has found
  not to match, and a carry out of a field passes nothing over because the fields below
  have no later value left. What the search gives up beyond its last year is
  excluded by the definition of a candidate.
* `ReadAsWritten` (`CronProofs`): `Spec => []FieldsAsWritten`. The invariant is `DInv`: the
  fields of the model are those that `CreateSchedule` computed. The rest is arithmetic:
  steps counted from a multiple of the step are the steps counted from 0
  (`Aligned`). It needs that the expressions are well formed (`Expressions`), which
  `CronAssumption` says.
* `SearchGoesForward` (`CronProofs`): `Spec => SearchAdvances`, from `CInv`. Each turn of
  the two loops leads to a later month, or within its month to its days and from day
  to later day. The theorem is about turns that change something: the run
  `cron_stuck` is a turn that changes nothing, and the only way in which
  the search can fail to end.

For every value of the constants that satisfies `ListingAssumption`, for tables of any
length whose primary keys are unique at first, and for *any* meaning of the conditionals,
since nothing is assumed of `Selects`:

* `ListingTypeCorrect` (`ListingProofs`): `Spec => []ListingTypeOK`; no sequence of changes
  puts a primary key into the table twice.
* `NoRowSkipped` and `RepeatsAtTheEdge` (`ListingProofs`): `NoneSkipped` and
  `ShownAgainAtTheEdge`, with `StoreKind = "memory"` as a hypothesis, because without an
  order of the rows they are false. Both count the matching rows before a row, its *rank*. A change
  lowers a rank by no more than the rows that leave the list, and raises it
  only if a row comes in. `SkipInv` says that a row of the list all the time was shown, or
  has a rank from which the next page, or its extra row, still shows it. `EdgeInv`
  says where the rows shown so far can be, as long as no row came in. That `find` has a row of
  each rank is shown by a least counterexample, not by induction over the table.
* `ListsAreBounded` (`ListingProofs`): `Spec => []PagesAreBounded`, for finitely many
  primary keys, in a table of either kind. A page that has a next one was full, whatever
  rows it was full of (`PageOfRows`), so that its key is less than the number of matching
  rows that were there, and unique keys bound those (`MatchesBounded`).
* `TablesAgree` and `LeaseConditionsAgree` (`ListingProofs`): a table in memory and an SQL
  table select alike by every conditional of two levels that compares no date and looks
  for no null among values, for any row whatever; and `Spec => []ConditionsAgree`.
  Dates are left out of the first because there they differ (see above); the second has,
  for each kind of table, what `DataStore` says of the dates, and that the lists of jobs
  and of tasks select alike.

Each theorem states what a run checks on a small instance: those of `SchedulerProofs` and
`LeaseProofs` are checked by `punctual`, those of `JobProofs` by `overtaken` (and
`TasksImplementLife` by `three_tasks` too), those of `OverlapProofs` by `three_tasks`, the
others by `polling`, `cron` and `listing` (and `HandlersEnd` by `overtaken`). So every
invariant, every action property and every refinement of a passing run is proved.

Only model-checked: liveness (`LeaseReleased`, `DueTaskTaken`, `StopSettles`,
`PollsForever`, `HandlersSettle`, `SearchEnds`), because it is out of the
prover's reach, and the runs that end in a counterexample. What liveness rests on apart
from fairness is proved where it is a property of steps: a handler comes nearer its end
with each call (`HandlersEnd`), a loop has its continuation registered
(`LoopsContinue`), and the search goes forward (`SearchGoesForward`).

## What is not modelled, and why

* More than one scheduled job: leases and tasks of different schedules share
  nothing but the limit of ten rows per poll.
* Unknown strategy names, repeated execution ids, and `deleteScheduledJob`
  (which `TernClient` does not offer).
* `complete-queued` and `fail-restarted`, which no code writes; `retryIndex`,
  which is always 0; the polls for long queued and long executing tasks, whose
  events nothing in the repository handles.
* Clocks that differ between instances.
* When the task names of the model run out, the creation strategy disables: a bound
  of the model and not of the code.
* A poll callback that throws before it returns a promise, and more than one call
  of `stopAndWait`.
* Of the client facade, what only forwards: its lists are modelled in `Listing`, its
  stop in `Polling`, its create and disable as the beginning of a handler.
* The wording of logs and errors, the SQL schema, the stubs of the command line and
  REST packages, the example.

## Plan

Done: the scheduler, its store and its lease, the life of its tasks, the polling loop and
its stop, the cron search, the lists; a theorem for each safety property. Left:

1. A composition of several schedules over one store, for the limit of ten rows
   per poll, which the hazards name.
2. That an expired lease is always found by a poll that follows, as a lemma for
   `LeaseReleased`.

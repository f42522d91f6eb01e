# EPS in TLA+

A verification development for **eps-cloud**, a single-user productivity
application: a Flask web server (`src/app`), a worker process (`src/worker`), a
PostgreSQL database, and the scripts and manifests that run them. The modules
here model the part of the program whose correctness is hard to see by testing;
TLC checks them on small instances, and TLAPS proves some of the results for
every value of the constants.

## 1. The system

One PostgreSQL database holds all state. The web server runs as one gunicorn
process with four threads, in two to six replicas; every request is one
SQLAlchemy session and one transaction at READ COMMITTED, rolled back when the
request fails (`app/db.py`). The worker is a second process on the same
database. Nothing else is shared, except one variable per process: the cached
time zone.

| Component | State it keeps | Operations | Interacts with | Module |
|---|---|---|---|---|
| Streak replay (`app/recompute.py` 39-97) | `streak_state` | `recompute_streak_state` | reads `habit_log`, `daily_state`; called inside the journal's requests | `StreakRules`, `StreakReplay` |
| Journal: marks, bad days, grace (`routes/journal.py`, `routes/settings.py`) | `habit_log`, `daily_state`, `settings` | `mark_habit`, `toggle_bad_day`, `toggle_grace` | audit trail, clock, replay, row locks of the database | `Journal`, `JournalAtomic` |
| Audit trail (`app/audit.py`) | `edit_log` | `maybe_audit`; the worker drops rows after 180 days | called by every journal write | `JournalData`, `Journal`, `Trackers`, `Worker` |
| Clock (`app/clock.py`) | the cached zone, one per process | `zone_name`, `forget_zone`, `current_date` | settings row, every dated request | `Zone` |
| Trackers (`routes/dashboard.py`, `routes/journal.py` 220-261) | `trackers`, `tracker_events`, `tracker_state` | add, toggle, mark, edit, delete, `recompute_tracker_state` | agenda, journal, audit trail | `Trackers` |
| Tasks (`routes/dashboard.py` 290-417) | `tasks`, `task_events` | add, toggle, vital, reschedule, keep, archive, delete | agenda | `Agenda` |
| Agenda order (`routes/dashboard.py` 58-256, 485-550) | `sort_order` of tasks and trackers | `day_list`, `move_item`, `reset_order` | tasks, trackers, calendar cache | `DayList`, `Agenda` |
| Weather cache (`integrations/brightsky.py`) | `weather_cache` | `weather_summary` | page loads, the worker, an external API | `Worker` |
| Worker and scheduler (`worker/`) | metrics only | `cleanup_audit_log`, `refresh_weather`, startup runs, cron | every table it cleans or fills | `Worker` |
| Settings page | `settings` (one row) | location, zone, fetch times, grace | clock, weather, journal | `Journal`, `Zone`, `Worker` |
| Migration lock, web pods (`app/migration_lock.py`, `alembic/env.py`) | an advisory lock, the schema | acquire with a deadline, upgrade, release | pods of several images that start at once | `Deployment` |
| Database bootstrap (`bootstrap-db.sh`, `init-db.sh`) | the data directory and its marker file | initdb, rules, database, roles, marker | restarts of the database pod, the operator | `Deployment` |
| Release pipeline (`.github/workflows/ci.yml`, `scripts/prepare_release.py` and others) | run attempts, digest records, signatures, the snapshot | build, sign, snapshot, re-run, `verify_release` | GitHub, the operator | `Release` |
| Rehearsal and acceptance scripts (`scripts/rehearse_*.py`, `check_*.py`) | what they leave in the cluster | ten scripts of commands | the cluster, each other | `Rehearsal` |
| Metrics and notes, creation forms, calendar page, health, logs, DDL, manifests, static checks | see section 5 | | | none |

What is hard in it:

- **Concurrency without locks.** No route locks the row it decides on. Two
  clicks, two tabs, or a click and a retried request read the same rows and write
  different conclusions. The database adds waiting, key conflicts, vanished
  rows and foreign keys, each with its own effect on the request.
- **Derived data.** `streak_state` is rebuilt from a log by a loop with a memory
  of its own (grace, cooldown); what it should say is a statement about the whole
  history, and what the loop keeps is four variables. `tracker_state` is a
  maximum over rows that another request may be deleting. The order of the front
  page is a sort over integer keys with midpoints, bands and ties.
- **Time.** A request reads the clock several times; midnight can fall between
  two readings. A forecast fetched for one place arrives after the place changed.
- **Failure.** A request can die between any two statements; a pod, the
  database, an operator's script or a CI job can be killed between any two
  commands, and is started again.
- **Deadlines and retries.** A migration polls for a lock whose holder may hang;
  a CI run is repeated in part while somebody verifies what it produced.

What would make each part correct is listed, component by component, with the
code lines where it can go wrong, under `hazards` in `PROJECT.json`.

## 2. The modules

```
StreakRules          the rule of grace, stated without a loop
  StreakReplay       the loop of recompute_streak_state as a state machine
    MCStreakReplay   instances for TLC
    StreakReplayProofs   the loop obeys the rule, and what the rule gives: theorems
JournalData          rows, buttons, audit decision, the row a recompute writes
  Journal            the three requests, statement by statement, on threads
    MCJournal        instances for TLC; takes the replay's result from StreakRules
    JournalProofs    what survives races, and all promises on one thread: theorems
  JournalAtomic      the promise: a press takes effect in one step
Zone                 which time zone a request sees: one cache per process
  MCZone, ZoneProofs
Trackers             one tracker's three tables under every request on them
  MCTrackers, TrackersProofs
DayList              what the front page lists, and in which order: operators
  Agenda             the requests on tasks and on the order of the list
    MCAgenda, AgendaProofs
Worker               the weather cache, the clean-up job, and who works on them
  MCWorker, WorkerProofs
Deployment           the first start of the database, migrations of many pods
  MCDeployment
Release              the CI workflow with its attempts, and verify_release
  MCRelease, ReleaseProofs
Rehearsal            the operator's scripts, command by command
  MCRehearsal
  ClusterProofs      theorems about Deployment and about Rehearsal
```

### StreakRules and StreakReplay

`StreakRules` says what a summary *is*: the misses of a history are the days
that neither passed nor are excused; a set `G` of misses is lawful
(`LawfulGrace`) when every miss is in `G` exactly if grace is on, the run of
passes before it is long enough, and every earlier member of `G` is a cooldown
away; the count is the number of passes after the last miss outside `G`. A
history is what the code reads before its loop: the dict `logged`, the set
`bad_days`, `today` and `grace_enabled`. Dates are integers, as `toordinal`
gives them; the loop only adds days, compares dates and subtracts them.

`StreakReplay` is the code: `Start` is the fetch of the row and the first values
of the loop variables, then one action per branch of the loop body (`CountPass`,
`SkipExcused`, `ForgiveMiss`, `BreakRun`), then `WriteRow`. The variables have
the names of the code's locals; `forgiven` and `before` are history variables
that no action reads. The history does not change during the replay, because the
code has copied it out of the database; what happens to that copy is the subject
of `Journal`.

### JournalData, Journal and JournalAtomic

`Journal` models every statement of a request that touches the database or the
clock as one action:

| Action | Code |
|---|---|
| `Press` | the `get` of the row and the decision what it becomes |
| `Audit` | `maybe_audit` with its own reading of the clock |
| `ReadClock`, `ReadRules` | `current_date()`, `grace_enabled`, the list of active streaks |
| `InsertEvent` ... `DeleteVanished` | the first flush: INSERT, UPDATE or DELETE of the event row, and what the database answers when another transaction got there first |
| `ReadLog`, `ReadBadDays`, `ReadState` | the three SELECTs of the recompute |
| `InsertSummary`, `SummaryConflict`, `UpdateSummary` | the flush at its end |
| `Commit`, `Die` | `commit()`; the rollback of `remove_session` |
| `NextDay` | local midnight |

The program counter `step` of a thread goes through them in the order of the
code; a bad-day request goes round `ReadClock` ... `WriteState` once per active
streak. Uncommitted rows live in the thread (`dirty`, `rows`), committed ones in
`table`, `summary` and `edits`. A SELECT sees committed rows and the
transaction's own; a writer waits while another thread holds its row or its key.
An UPDATE of a summary sends only the columns that changed (`ChangedColumns`),
which is what the session's unit of work does.

What the model abstracts: a replay is one value, `Summarise(history, record)`,
because it touches nothing shared; `SummariseAssumption` names the facts the
journal needs of it: a record no smaller than the one before or the count, and a
count and a grace day that do not depend on the old record. The theorem
`PromiseSuitsTheJournal` proves them of the row the rule promises, and
`ReplayWritesThePromise` that the loop writes that row. `asOf` and `grace` in a summary row are history fields that say which day
and which rule the row was computed for (the code stores a timestamp). Streaks
are not created or archived during a behaviour. The zone cache is warm and
nobody saves a zone; what happens otherwise is the subject of `Zone`.
`MCJournal` gives `Summarise` the value `PromisedSummary` of `StreakRules`.

`JournalAtomic` has one action per press: event row, audit row and summaries
change together. Midnight may fall inside a real request, so the audit decision
and each summary may be dated by any day up to the current one.

### Zone

`app/clock.py` keeps the zone in a module variable (`cached`, one per process).
`zone_name` is `UseCached`, or `NothingCached` followed by the SELECT
(`ReadSaved`, `FallBack`, `ReadFails`) and the assignment (`Keep`); a thread may
be interrupted between them. Three kinds of requests call or disturb it: a
`mark` asks for today twice with an uncommitted row in its session, `settings`
creates the settings row on a first visit and shows the zone, `timezone` saves
a zone (`CommitZone`) and drops the cache of its own process (`ForgetZone`).
`ReadFails` is the `except` of `_saved_zone`: it removes the request's session,
so `CommitMark` commits an empty one (`lost`). `Fail` and `Restart` are a
request and a process that end. The order of the two calls is all a mark needs:
which day a zone gives is left out, two zones being enough to tell two answers
apart. `everSaved`, `current` and `alone` are history variables that no action's
guard reads. Zone names the Python does not know are left out: `save_timezone`
refuses them.

### Trackers

The requests of `dashboard.py` 420-482 and 563-580, and `mark_tracker` of the
journal, in the manner of `Journal`: the SELECTs are `ReadToday`, `ReadDay`,
`ReadMax`, `ReadState`, `ReadHistory`; the flushes `InsertEvent`, `DeleteEvent`,
`UpdateState`, `Drop`, `Edit`; what the database refuses `InsertRefused`,
`StateRefused`, `DropAgain`. `Blocking` says which transactions a statement
waits for: a holder of the same event row or summary, and through the foreign
keys a child row's INSERT for a DELETE of its tracker and the reverse.
`BreakDeadlock` is PostgreSQL's detector. Two requests differ where the code
does: `toggle_tracker` skips `Audit`, which `mark_tracker` does not. The rows of
a delete leave in any order, since the mapper is told of no relationship.

### DayList and Agenda

`DayList` translates the reading side of the front page into operators over a
`board`, the committed rows of tasks and trackers: the regions (`Overdue`,
`DayTasks`, `DayTrackers`, `Upcoming`, `Finished`), the bands and effective keys,
and `DayLists`, the *set* of orders a stable sort of an unordered SELECT can
give. `MovedKey` is the arithmetic of `move_item`. `Agenda` has a `Load`, a
`Flush` and a `CommitTask` for each request that edits a task, between which
others run. The flush waits for the row (`Locked`), sends what differs from the
one that was loaded (`Merged`), and only then draws the id of the `task_events`
row, whose action is that of the loaded row (`EventOf`). The committed `log` is a
set of such rows: nothing but the id orders them, since `occurred_at` is the start
of the transaction. That the UPDATE goes before the INSERT is an assumption about
SQLAlchemy, which the models give no relationship to order the two tables by; it
takes them by the names of their classes. `Tick` is a press of a
tracker in one step, for which module Trackers is the detail. A flush finds its
row deleted and fails, or a DELETE is refused for an event it had not read.

### Worker

A caller of `weather_summary` is a thread with the front page or the job
`refresh-weather`; `LookedUp`, `ToFetch`, `FetchFails`, `FetchAnswers`,
`Insert`, `InsertRefused` are the statements of lines 52-72, the network call
between two of them. `Store` commits the row before it is summarized, so a reply
of another shape (`odd`) stays in the cache and raises at once and at every later
look (`Raised`); nobody catches that, nor a refused INSERT. `PageFails` and
`JobFails` are a database that fails under a page or a job. The jobs are started
by `StartupRun` (main runs each once, by name) and `Fire` (the scheduler, which
leaves out a job that still runs). The clean-up takes its cutoff (`Begin`),
commits (`CommitCleanup`) and sets the gauge the staleness alert reads (`SetGauge`,
`Succeed`); midnight (`NextDay`) and a stop of the process fall anywhere between.
`SaveWeather` is the settings form, which leaves the cached days alone. Of a
forecast only its place and its shape are kept, and of an audit row only its day.
`raced`, `cut` and `changed` are history.

### Deployment

`disk` is what the bootstrap script has left on the volume; `Check` is its first
`if`, `BootStep` each further command, `BootDies` a kill, `Recover` the operator
who clears the volume as line 33 of the script tells him. A pod goes through
`Connect`, `Poll`, `ReadRevision`, `Upgrade` or `UpgradeFails`, `Unlock`; `Poll`
either takes the lock, waits for the next try or gives up when `left` is used up.
The upgrade is one transaction, so a pod that dies in it (`Die`) leaves the
schema as it was and its session's lock free. `applied` is the history of the
revisions that were run. The images carry prefixes of one chain of revisions.

### Release

A commit is its push, and a run of the workflow is identified by it; `attempt`
counts the re-runs. `Rerun` puts jobs back to `"waiting"`: all, the failed ones,
or one with the jobs that need it (`Dependents`); artifacts and results of the
others stay. `BuildImage`, `SignImage` and `PrepareSnapshot` read and write
`record`, `signed` and `snapshot` as the scripts do, failing before
their effect. The operator's `verify_release` is `Download`, `ReadRun`,
`ReadRecord`, `Compare`, `ReadBranch`: each reads what is there at its moment. A
snapshot the operator holds may be a copy in which one image was replaced by
another build (`CopiesOf`).

### Rehearsal

Ten scripts, each a sequence of blocks with the commands of a `try` body and
those of its `finally` (`Registry`, `KubernetesDb`, ..., `ArgocdImage`). The
machine below them is common: a command succeeds, or raises with or without its
effect (`Raise`); `EnterFinally`, `LeaveBlock` and `Exit` are Python's rules;
`Kill` skips every `finally`; `Retire` is the operator who deletes credentials by
hand. An object in `world` remembers the run that made it. `check_gitops` restores
a release in two commands: `Ask` posts the operation, which changes nothing yet,
and the release is back (`Drop`) when `wait_operation` has seen it succeed. `Renew`
replaces the Secret `eps` with one that differs in the signing key alone; `signed`
is the run that key is of. `ClusterProofs` extends this
module together with `Deployment`, hence the long names `RehearsalSpec` and
`RehearsalInit`, and `Launch` for the start of a script.

## 3. What the runs show

| Run | Instance | Result |
|---|---|---|
| `streak_replay` | every history of 5 days (marks, bad days, grace on or off), and every set of passes among 8 days; minimum 2, cooldown 2 | The loop writes exactly the promised row (`WritesThePromise`); the rule leaves no choice (`OneLawfulGrace`); its loop invariants `CountsTheRun`, `ForgivesByTheRule`. Turning a day into a pass or a bad day, or switching grace on, never lowers the count, although it can move grace to another day (`CorrectionNeverCosts`, `LeniencyNeverCosts`) |
| `journal_serial` | 1 thread, 1 streak, 3 days, every button, 3 requests, a midnight, kills | All promises hold, and `Journal` implements `JournalAtomic` (`TakesEffectAtomically`) |
| `journal_race` | 2 threads, 2 streaks, 3 days, 6 buttons, 3 requests, a midnight, kills | What survives races: no deadlock (`NoWaitCycle`), no logged streak without a summary (`LoggedStreakHasSummary`), and a recompute that overlaps no other request repairs earlier damage (`HealsWhenAlone`) |
| `journal_stale` | 2 threads, 1 streak, 2 days, 2 requests | **violation** of `SummaryMatchesLog` |
| `zone` | 2 processes, 3 threads, 2 zones, 4 requests, failing reads, restarts | A process keeps only zones the row has held (`FallbackNeverKept`); after a restart, or a drop with no other request under way, it keeps the saved zone or none (`SavedZoneApplies`); a request sees one zone when none of its process overlaps it, the settings row is there at its start and its reads succeed (`AloneSeesOneZone`) |
| `trackers` | 1 tracker, 2 days, 2 threads, 4 requests, fair | A tracker always has its state row (`TrackerHasState`); only a delete can be part of a deadlock, and it can (`DeadlockNeedsDelete`); a lone press repairs the summary (`HealsWhenAlone`); each request ends (`EveryRequestAnswered`) |
| `agenda` | 2 tasks, 1 tracker, 4 days, 1 calendar event, 4 starting boards, 2 threads; 2 requests of any kind, or 4 toggles, keeps and deletes of one task | By id, the log's last toggle says what the row says (`LogTellsTheState`); an open task is on some page (`NothingIsLost`); a lone reschedule leaves one date (`OneMeaningWhenAlone`); a lone move lands where its button says and moves nothing else (`MoveLands`) |
| `weather_race` | 1 page, 3 days, 1 day ahead, 1 start of the worker, 1 saved location | **violation** of `NoErrorFromARace` |
| `worker` | the worker's jobs and 2 pages; 1 day ahead, retention 1; 3 days with 2 saved locations, 2 days with 2 page loads, or 4 days with 2 starts and 2 days of changes | No audit row is older than the retention before the cutoff of the last success the gauge reports (`CleanSinceSuccess`); an old place's forecast disappears within the days warmed ahead (`OldPlaceFades`); while its database works a page fails on its weather only in a race for its day, or on a cached reply of another shape (`ErrorsExplained`) |
| `deployment` | 3 pods, 2 images, 1 further try for the lock, 4 starts, 3 boots, fair | The server runs only on a complete volume (`ServerNeedsBootstrap`); revisions run once and in order (`EachRevisionOnce`); pods serve what they need, where the migration is their init container (`ServesItsSchema`); the lock is held inside the section and nowhere else (`LockIsHeldInside`); waiting for it ends (`NobodyWaitsForever`) |
| `release` | 2 pushes, the first with 2 attempts | What passes was signed by the attempt it names (`AcceptedIsSigned`); a green run is one attempt (`GreenIsOneAttempt`); verified releases never go back (`NeverBackwards`) |
| `rehearsal` | any 2 scripts in a row | Leftovers come from a kill or from a command of the object's own: its making, the request of its removal, its removal (`LeftoversExplained`); credentials and volume fit (`VolumeKnowsItsPasswords`); no re-run replaces a credential, and only the maintenance rehearsal renews the signing key (`CredentialsKept`) |

**The bounds.** Five days with minimum and cooldown 2 is the shortest span in
which grace can be spent twice, be refused for the cooldown and be refused for a
short run, with an excused day in between. Eight days of passes and gaps let one
changed day move grace twice. `CorrectionNeverCosts` and `LeniencyNeverCosts` are
not true of all constants: with a minimum of 2 they hold up to a cooldown of 3, and
TLC refutes both with a cooldown of 4. A cooldown of at most the minimum plus one is
what they are proved from; the code's constants are 7 and 7. In the journal runs one pass is enough to earn grace and the
cooldown is one day, so the grace column is alive within two days. Three requests
are the least that lets a race happen and a third request meet its result; two
threads suffice for each race, because every wait and every overwrite is between
two transactions. The zone runs have one process
with two threads, the least for a drop under a running request, and a second
process for a save the first does not hear of; four requests let a zone be saved
twice around a reader that started before.

`trackers` has one tracker because no request touches two; four requests
are the addition, a race of two and a press that meets its result. In `agenda` the boards are chosen so
that a list of four items of all three kinds, two tasks a race has left with both
dates and an empty day are all there from the start; two requests are one race.
A log out of order takes three requests, a completion and two racing toggles that
take it back and renew it; the fourth meets the result. `MCBound` allows a third and
a fourth on the board of one task only.
Task ids 1 and 4 keep untouched neighbours apart, which `MoveLands` requires.
In `worker` three corners share an instance (`MCBound`), since none needs what the
others add. One day ahead and three days let the window pass after a move, and a
second move meet a fetch of the first. Two pages and the job are three callers of one
day, and a second day tells a race from a fetch beside it. Four days with a
retention of one let a clean-up cross a midnight and a row grow old after it, and two
starts are a restart. The proofs in section 4
lift these bounds, the number of restarts included. In `deployment` a third pod
is the least that can time out on a hanging holder while another waits, and three
boots are a kill, a refused volume and a recovery. In `release` a re-run of the
first push races the second push. Two scripts in `rehearsal` are the least for
one to meet what the other left.

Counters (`started`, `calls`, `boots`, ...), and the constraint `MCBound` of `agenda`
and of `worker` over them, are the only artificial bounds on behaviours. When they are used up nothing is left to do, which is why all
configurations but `MCZone.cfg`, where a process can always restart, switch TLC's
deadlock check off; the deadlocks that matter are
`NoWaitCycle` and `DeadlockNeedsDelete`.

**Fairness.** `Trackers` has weak fairness of each thread's next statement: the
operating system schedules threads, PostgreSQL serves a lock's queue first come
first served and its deadlock detector aborts a circle. Only finitely many
requests compete, so strong fairness is not needed. Kills and midnights are
never forced. `Deployment` has weak fairness of `Poll` alone, because a
waiting pod sleeps and tries again (`migration_lock.py` 19-31); the holder of the
lock may hang for ever, and nobody is assumed to start, recover or die.

**The violations** are disagreements of the code with its own documentation.

1. `journal_stale`: `src/README.md:135` says the summary "cannot disagree with
   the log". Two marks of one streak at once replay two different snapshots; the
   summary committed last lacks the other mark. It stays wrong until that streak
   is pressed again (`HealsWhenAlone`).
2. `weather_race`: `brightsky.py:5-6` says a failure is "never an error page".
   The INSERT of a fetched day stands outside the `try`; a second caller that
   cached the day in the meantime makes it fail, although every reply has the shape
   expected.

**Further disagreements**, listed under `findings` without a run of their own.
The modules define each refuted claim that TLC can check:

| Claim | Where TLC refutes it |
|---|---|
| `RecordNeverDecreases` (`recompute.py:91`) | `MCJournalStale.cfg` with `MaxRequests = 4`, `Presses <- MCAllButtons` |
| `EveryChangeAudited` (`README.md:137`): the old value logged is the one read before waiting | `MCJournalRace.cfg` |
| `OneZonePerRequest` (`clock.py:10-12`, `models.py:215-217`) | `MCZone.cfg` |
| `NeverAnErrorPage` (`brightsky.py:5-6`): a reply of another shape is committed before `summarize` raises on it, at that load and at every later one of the day | `MCWorkerRace.cfg` |
| `AnsweredIsSaved` (`journal.py:7-8`): a failing zone read drops the pending row | `MCZone.cfg` |
| `DueTrackerListed` (`README.md:46`): the day count is stored, not derived | `MCAgenda.cfg` |
| `PlannedTaskListed` (`README.md:48`): a past plan is not overdue | `MCAgenda.cfg` |
| `OneMeaningWhenAlone` without its last conjunct (`dashboard.py:354`) | `MCAgenda.cfg` |
| `MoveLands` without `NoTies` (`dashboard.py:530`) | a board of three untouched tasks with ids 1, 2, 3 |

The rest are seen from the text of the modules: tracker toggles and deletes
write no audit row (`audit.py:3-5`), "children first" is not an order of
statements (`dashboard.py:468`), the zone is in the settings row
(`preferences.py:7-9`), the probe pod and rule are made before their `try`
(`deploy/platform/README.md:162`), and an interrupted first issue of credentials
is refused from then on (`deploy/platform/README.md:160`).

## 4. What is proved

All proofs are checked by TLAPS for every value of the constants that satisfies
the named assumptions (`RulesAssumption`, `ReplayAssumption`, `DataAssumption`,
`SummariseAssumption`, `JournalAssumption`, `TrackersAssumption`,
`AgendaAssumption`, `ZoneAssumption`, `WorkerAssumption`, `DeploymentAssumption`,
`ReleaseAssumption`, `NoneAssumption`); TLC evaluates each assumption in the runs
above. A theorem that needs more says so in its own hypothesis.

**StreakReplayProofs.** For every minimum run, every cooldown of at least a day
and every set of histories: `TypeOK`, `CountsTheRun`, `ForgivesByTheRule`,
`RecordCoversCurrent`, `LawfulResult`, `OneLawfulGrace` and `WritesThePromise`. The
inductive invariant is `ReplayInv`: the types, where the loop stands (the day lies
between the first day and the day after today; forgiven days are misses already
passed), the loop invariants and the record. `CountsTheRun` alone is not inductive:
whether a branch keeps the count right depends on whether the miss before it was
forgiven, and whether it was forgiven lawfully depends on the count and on
`lastGrace` being the greatest forgiven day. The step from "the last forgiven
miss is a cooldown away" (the code) to "every forgiven miss is" (the rule) is the
lemma that uses it. `RecordInv` adds what the record stands for, the longest run so
far, without which the last column of the row would only be bounded.

What is said of the rule itself is proved without induction over data, by least
counterexamples. Two lawful sets of forgiven days agree (`LawIsUnique`): at the
first miss where they differ, the run and the earlier forgiven days are the same.
A lawful set exists for every history (`LawExists`), or some first day would have
none. `CorrectionNeverCosts` and `LeniencyNeverCosts` are both cases of
`KinderForgives`: when one history has the passes of another and no new miss, every
miss the harsher one forgives and the kinder one still has is forgiven there too,
provided the cooldown is at most the minimum plus one. At the
first exception the run is no shorter than in the harsher history, so only a day
forgiven too recently can stand in the way. If the harsher history forgave that day
as well, its own cooldown is over; if not, the run with which it earned grace fits
between the two days, and the cooldown is over because it is at most one day longer
than that run must be. Hence the hypothesis, and hence TLC's counterexample without
it. `PromiseSuitsTheJournal` proves what module `Journal` assumes of a replay,
for any finite range of consecutive days.

**JournalProofs.** For any number of threads, streaks, days and requests:
`TypeOK`, `NoWaitCycle`, `LoggedStreakHasSummary` and `HealsWhenAlone`.

- *No deadlock.* The usual argument for ordered locks: `LockInv` says that a
  request which waits for a summary row holds only rows of streaks before it in
  `ScanOrder`, so along a chain of waits the position strictly increases
  (`WaitsGoUp`), an event row being below all of them; a set of requests that wait
  only for each other would have no greatest member. It rests on `ScanOrder` being
  the same for all requests. The code's SELECT (`journal.py:351`) has no ORDER BY,
  so the assumption is about PostgreSQL returning an unchanged table in one order;
  the mutant `ReadRulesAnyOrder` shows that without it the deadlock is there.
- *What survives races.* `MarkInv`: a mark that reaches its commit carries the
  summary of its own streak. `AloneInv` follows a request nothing overlapped from
  statement to statement: the history it has read is the committed one with its own
  press in it, and each summary it holds is what the replay makes of that.
- *On one thread* (hypothesis `OneThread`: two threads are the same), for any number
  of streaks, days, requests, midnights and kills: `SummaryMatchesLog`,
  `RecordNeverDecreases`, `EveryChangeAudited`, `NoPhantomEdit`, and the refinement
  `TakesEffectAtomically`, each step of `Journal` being a step of `JournalAtomic` or a
  stutter. `SerialInv` is `AloneInv` with every request alone and
  `SummaryMatchesLog` itself. TLC refutes the first three on two threads, so the
  hypothesis cannot be dropped; they are what the code promises without it.

**ZoneProofs.** For any number of processes, threads, zones and requests:
`TypeOK` (no caller is handed the `None` of a missing row), `FallbackNeverKept`,
`SavedZoneApplies` and `AloneSeesOneZone`. The first needs `HoldsZone`, the next
two `SavedInv`: a thread that is about to fill the cache holds a zone the row has
held, and the current one if its process is up to date. Neither follows from
what the caches contain, because the old zone travels in a thread between the
SELECT and the assignment. `AloneSeesOneZone` is about a request that no other of
its process overlaps, that finds a settings row at its start and whose reads all
succeed: a first visit, and a failed read, see the environment's zone and then the
saved one. `AloneStands` carries it: while such a request is
alone, its process's other threads are idle, the row exists, and between its two
calls the cache holds what the first one saw.

**TrackersProofs.** For any number of trackers, days, threads and requests:
`TypeOK`, `TrackerHasState`, `HealsWhenAlone`, `DeadlockNeedsDelete`. In `TrackersInv`,
`RequestOK` says what a request has done so far by its step and its button, and
`AloneOK` that what a lone request has read is still so. A state row is
made with its tracker and leaves in the transaction that deletes it. A mark waits
first for an event row and then for a summary, an edit only for its tracker, so a
circle of waits needs a delete, which takes its rows in any order. The proof corrected the
model's type invariant: two racing edits each send the columns they changed, and the
plan they leave together need not be one that any form named (`PlanRows`).

**AgendaProofs.** For any number of tasks, trackers, days, threads and requests:
`TypeOK`, `LogTellsTheState`, `NothingIsLost`, `OneMeaningWhenAlone`, `MoveLands`.
`AgendaInv` holds the types, `LogOK` (a row is done exactly when its log says so),
for what has been sent and not committed `SentOK` (its id is above all in the log,
and its row says what its event says), `OneSender` (a row's lock has one owner) and
`IdsOK`, and
`RowsOK` (an open task has a date, and was not made in the future), and for each
edit in flight what it changes (`EditOK`) and what it relies on in the database
(`HoldsOn`: the tracker it moves exists, the row a lone edit loaded is unchanged).
Even the types are not obvious: a move writes a number only because the item it
moves is in the list it read, whichever of the possible lists that is
(`ListOfItems`).

`MoveLands` needs `MoveInv`: the list a lone move computed its key from is still a
list of the committed rows. The rest is about sorted lists. Without ties a day's
list is a bijection between positions and items that orders their keys (`Sorted`,
`ListIsSorted`), so an item's position is the number of items with smaller keys.
`PlaceAimedAt` says where among the others' keys the written one falls, for each
of the four buttons and at each end of the list; `LandsBetween` that an item whose
key falls there has that position in the new list.

**ClusterProofs, first part: Deployment.** For any number of pods, images, tries and restarts:
`TypeOK`, `ServerNeedsBootstrap`, `EachRevisionOnce`, `LockIsHeldInside`,
`ServesItsSchema`. `BootInv` says the marker is the last thing written and a
running bootstrap has done exactly the steps before its own (`LeftBefore`).
`SectionInv` is the exclusion itself together with what its owner may rely on:
the revision it read is still the schema's when it upgrades. Neither the order of
the revisions nor what a pod serves is inductive without that. `Batch` is the
lemma on sequences: revisions 1 to a followed by a+1 to b are 1 to b.
`ServesItsSchema` is about `migration.mode=init`; in the job mode of the GitOps
deployment the order rests on Argo's waves, which are not modelled.

**ClusterProofs, second part: Rehearsal.** For any number of scripts, started in
any order, any command of which raises with or without its effect, any of which is
killed, and any retirements in between: `RehearsalTypeOK`, `LeftoversExplained`,
`VolumeKnowsItsPasswords`, `CredentialsKept`. The discipline comes first: each
script is shown to be `Tidy` (what a command makes for the run is removed first thing in
the finally of its own block, after no more than the request for it, `Removes`; or,
made last before a try statement, in the finally of that one) and all but
`rehearse_observability` to spare the credentials and the
volume (`MildAll`); both pass to scripts put together from tidy parts (`TidyJoin`,
`MildJoin`, `GoodJoin`, `GuardedIsGood`, `SyncIsOwn`). Then the invariant. `LeftoversExplained` speaks of
scripts that are over, so it is not inductive: `LeftInv` says of a temporary object
of the *running* script that its removal is `Pending`, in this block's finally or, if
nothing has failed, in the next one's. `Matching` (credentials and volume are
of one run) is kept by `rehearse_observability` only because of what its listing
found: `IssueInv` says that while it issues there is no volume and every credential
is its own, and that when it comes to the chart the Secret the volume takes its
password from is there. `CredentialsKept` needs that no command that applies, creates
or drops names a retained Secret (`AllGentle`, `KeptStays`), and its second
half that no script but the maintenance rehearsal renews a key (`MaintenanceIsMild`,
`OnlyMaintenanceSigns`).

**WorkerProofs.** For any number of pages, days, lookahead, retention, starts
and saves: `TypeOK`, `CleanSinceSuccess`, `OldPlaceFades`, `ErrorsExplained`. The
second needs to know where a forecast of an old place can still come from:
`TimeInv` says that no row and no fetch is beyond the days warmed ahead, and
`PlaceInv` that a row or a fetch of another place is for a day that was within
reach when the place changed. `RaceInv` says that whoever nobody has raced since its
look finds its day free, and that an error has its reason. `CutInv` is what a
clean-up under way knows: once its DELETE is committed no row is older than its own
cutoff, whatever midnight passed; `GaugeInv` is that knowledge handed to the gauge.

**ReleaseProofs.** For any number of pushes and attempts: `TypeOK`,
`AcceptedIsSigned`, `GreenIsOneAttempt`, `NeverBackwards`. What a sign job or a
snapshot job vouches for is `SignInv` and `GreenInv`. They survive partial
re-runs because a job takes along the jobs that need it, and the snapshot job is
in every re-run. `Vouched` carries the first property across the operator's
reads: once a run was seen green at an attempt, records of that attempt are
written no more, so whatever is read of it later is signed, whatever attempt runs
meanwhile.

**Proved, and in no run:** the type invariants of the replay, the zones, the
trackers, the agenda, the deployment, the rehearsals, the worker and the release,
`RecordCoversCurrent`, `LawfulResult` and `PromiseSuitsTheJournal`.

**Only model-checked.** Liveness (`EveryRequestAnswered`, `NobodyWaitsForever`),
which needs fairness and is outside the prover, and the two violations, which are
counterexamples. Every other property of a run is a theorem.

## 5. Not modelled, and why

- `save_metric` and `save_note`: one INSERT or UPDATE of a row nothing is
  computed from, with the audit and the race `Journal` has for `mark_habit`. The
  forms that create streaks and metrics: one INSERT each, of a row nothing refers
  to yet. `save_fetch_times`: the worker reads it when it starts, and a cadence is
  once a day in `Worker` whatever its time.
- The Kubernetes CronJobs (`cronjobs.yaml`), the second way to run the two jobs: a
  pod each, with retries and a deadline, whose staleness alert reads Kubernetes'
  own record of success (`monitoring.yaml:42`) and not the gauge in `Worker`.
- The migration as a job of its own, before the web pods by Argo's waves.
- Habit, tracker and metric rows of the journal's day page, the calendar page,
  templates: reading and rendering.
- Logs, metrics, traces, health checks: nothing reads them back, except the
  success gauge, which is in `Worker`.
- Alembic's DDL, which is generated; `Deployment` counts revisions. Kubernetes,
  Helm, Terraform and Ansible manifests: their numbers of threads, replicas and
  tries are constants of the models.
- The test jobs of the workflow, and the images no snapshot contains; scripts
  that check files (`check_platform.py`, `check_deploy.py`, ...) and the
  comparisons inside the rehearsals, which change nothing.
- Within modelled parts: titles and payloads of events; `remind_after`, which no
  code sets, and archived trackers, which no route makes; streaks created or
  archived during a request; the connection pool.

## 6. Running it

```
tlc -workers 2 -config MCJournalRace.cfg MCJournal
tlapm JournalProofs.tla
```

Operators whose comment says *mutant of X* are not part of the specification:
each is the definition `X` with a plausible bug, and `PROJECT.json` names the
property that TLC finds violated when `X` is replaced by it.

# tokenwarden: TLA+ models and proofs

tokenwarden queues work for the `claude` command line tool and runs it
unattended, so that it uses up the capacity of a subscription's rate limit
windows and no more. `tokenwardend` keeps the queue in a SQLite database, runs a
scheduler loop, serves an HTTP API to the command line, the web UI and the
desktop shell, and starts one `claude -p` subprocess per dispatched job.

This directory models the part of it where jobs can be lost, run at the wrong
time, or cost too much: the queue, the dispatcher, the scheduler loop, the
spend of a job and what it is predicted to be, what the scheduler knows of the rate
limit windows, the run of one subprocess, the desktop shell that starts and stops it
all, and the page that follows a job. TLC checks the models on small instances, TLAPS
proves the main invariants for instances of any size.

## The system

| component | state | operations | how it interacts |
|---|---|---|---|
| `internal/store` | SQLite tables: jobs, usage_entries, ground_truth_readings, scheduler_config | single statements, one connection, no transaction | called by everything below |
| `internal/queue` | none but a log throttle | Enqueue, PromoteReady, Candidates, MarkRunning, Finish, Cancel, CapBudget, DeferOversized, PromoteSteps | reads, decides, writes: several statements each |
| `internal/dispatch` | `halted`, `running` (job id to cancel func), under a mutex | DispatchOne, RunJob, Halt, Resume | marks the job, runs the subprocess, records usage and outcome |
| `internal/scheduler` | none that survives a tick | Run, Tick, Decide, FitJob | sweep, admission, candidates, at most one dispatch, synchronously |
| `internal/api` | none | create, cancel, dispatch, halt, resume, reads, configuration, readings | one goroutine per request; a manual dispatch goes on as a goroutine |
| `internal/runner` | none | Run | the subprocess and its event stream |
| `internal/budget` | none | RecordResult, totals, calibration, predictions | sums over the ledger |
| `internal/backfill` | none | IndexProjects | adds interactive usage to the ledger at startup |
| `cmd/tokenwarden`, `internal/cliclient`, `ui` | none | one request per command; polling | clients of the API |
| `cmd/twprobe` | none | posts one reading, renders the status line | client of the API |
| `desktop` | the daemon process | start, health check, stop, tray | supervises the daemon |

What makes it hard:

- **No operation is atomic.** Every queue operation reads a row, decides, and
  writes unconditionally later. The scheduler loop, the request handlers and the
  goroutines of manual dispatches interleave in between.
- **A promotion is long.** `PromoteSteps` divides a job into a chain of steps,
  one insertion at a time, rewrites the dependencies of other jobs, and marks the
  parent, and any of it may fail or be cut short.
- **The process can die** at any statement. Nothing looks at `running` jobs when it
  starts again.
- **The kill switch** works through a map keyed by job id, and two runs of one job
  share a key.
- **Money** is counted by a ledger that is written after the fact and read before
  the next attempt, while the CLI enforces a cap per attempt only.
- **The windows are seen through others' eyes.** How full they are is known from
  readings that some session's status line happened to post, good for an hour, and
  otherwise estimated from a ledger that is filled from two sides, at a rate fitted
  from both. A tick decides on values it read one after the other.
- **A subprocess, a pipe and a reader** can each stop: the pipe is full, a line is too
  long, the process is killed in the middle of one, and what it started holds its output
  open.
- **What a job will cost is guessed** from jobs of its kind, and a guess decides whether
  it waits, is divided, or runs with a cap that later attempts inherit.
- **Clients poll.** Answers come late, cross each other, and cross a change of the page.
- **The shell and its daemon are two processes** that can each be started twice, hang
  or die. The shell knows the daemon by its address, whoever listens there, and shows a
  switch that anyone may flip.

## Modules

```
JobStore -> JobQueue -> Dispatcher -> Daemon -> DaemonInvariant -> DaemonOrder -> MCDaemon
                                         Precedence (INSTANCE) -> DaemonOrder
DaemonInvariant, DaemonOrder -> DaemonProofs -> ChainProofs
Usage, TimeBlock -> Pacing -> MCPacing
                         \-> PacingProofs
Spend -> MCSpend
     \-> SpendProofs
Fit -> MCFit
   \-> FitProofs
JobRow -> JobPage -> MCJobPage
                 \-> JobPageProofs
Runner -> RunnerProofs
Desktop -> DesktopProofs
```

`JobStore` is the jobs table and its statements. A row is its status,
dependencies, whether it has a session, and what never changes: its steps, the
Resumable flag, its parent. Two history variables are kept beside it: the jobs
that were ever `released` (dispatchable or running) and that ever `succeeded`,
because the statuses themselves are overwritten.

`JobQueue` is the queue. Each action is one statement: `pc[p]` is the statement
goroutine `p` is at, and `target`, `verdict`, `convo`, `wish`, `todo`, `listed`,
`kids` and `rewires` are the Go locals it carries from one statement to the next.
So `Cancel` is `CancelRead` and `CancelWrite`, a sweep is `SweepList` and, for each
row it listed, `SweepPass` or `SweepResolve`, `SweepSession` and `SweepStatus`, and
a promotion is a read, a list, two steps for each child, a list and a rewrite for
each dependent, and the parent's mark.

`Dispatcher` is `RunJob` with the kill switch. `running[j]` is the goroutine whose
cancel func is registered under job `j`. A cancelled context makes the subprocess
end without a result; a live one may end in any way, at any time.

`Daemon` puts the three together: the tick, the request handlers, failing
statements, and the crash and restart of the process. A statement that fails takes
the error path of its caller: a sweep goes on with the next job, a rewiring goes on
and ends the tick at its end, a run is left with its job `running`, anything else
ends the operation. `Decide`, `Candidates`' time conditions and `FitJob` depend on
usage and time, which are not kept, so each verdict they can reach for a job of its
kind is allowed.

`Precedence` is what the queue promises about the order of jobs, without statements,
goroutines or crashes: a job opens only when all it needs is done, is done only after
that, and once it is open nothing changes what it needed; a job may be divided into
parts, and what waits for the whole may then wait for a part. `DaemonOrder` reads the
daemon's jobs table, with its two histories, as that: an `INSTANCE` with `released` as
what is open and `succeeded` as what is done.

`Runner` is one call of `Run`: the subprocess with everything it means to write as a
sequence of chunks, the pipe between `written` and `read`, the scanner's unfinished line
(`held`), and the `Result` so far (`account`, which knows each event by its last chunk,
so that it also says which were counted). What the subprocess writes, when it ends, and
whether a tool it started keeps its output open are outside; a context is cancelled at
any time, and `CommandContext` kills the subprocess and nothing else.

`Fit` is the tick a third time, for how it chooses a job: candidates in priority order,
each held against what was left of the window when the tick began, by the mean cost of
finished jobs of its kind, then dispatched, capped, divided or deferred; and what the
run it starts does to the window, to the ledger and so to the next prediction. One unit
stands for a percent of the window, the tokens it is fitted to and their dollars.
`progress` is how much of its work a job's session holds, and resuming costs `Reread`
before any work is done. `surprise` and `strangers` are history: what runs cost beyond
their prediction in this window, and what others used.

`JobRow` is a job as its clients see it: its row, and what the queue may do to it.

`JobPage` is the web UI's page of one job. Its state (`id`, `shown`), what was rendered last
(`view`) and what the effects ran last for (`effect`) are kept apart: taking an answer
(`SetJob`) or a new address changes the state only, `Render` follows later, and only then
`RunEffects` cleans up the polling and sets it up anew, for what was rendered. Answers come
at any moment in between. An answer to a poll of the effect in force is taken, so that an
older one may still replace what a newer one has set; one that was sent before the last
clean-up is dropped. An answer to anything else is taken whenever it comes. `poll` counts
the answers that are under way, and `call` holds the page's other requests.

`Spend` takes one job and looks at what `Daemon` leaves open: the cap that
`CapBudget` rewrites, the user's cap that `RunJob` holds against the ledger, the
ledger's entries, and what the runs really cost. It repeats the job's lifecycle as
far as it reads or writes money, stale writes included.

`TimeBlock` is `TimeBlock.Contains` on a clock in minutes. `Begins` gives each day
its first minute, so that a day may be short or long by what the wall clock is set at
`Change`; `t.Add(-24 * time.Hour)` is `t - Day`. `Covers` is what a block stands for.

`Usage` keeps the clock, the plan's windows, the transcripts, what each session was
last told, and the tables of readings and usage entries. The plan, the sessions and
the transcripts are outside the repository: a message costs one token, opens a window
if none is open, leaves a line, and tells the session how full the windows are. On
them work the probe (`RecordGroundTruth`: a session's last report, posted at any later
time), the index (`IndexLine`, line by line, from the start of a daemon), the ledger's
sums, and the calibration, with fractions for floating point numbers.

`Pacing` is the tick once more, for what `Daemon` leaves open: it reads the
configuration (`TickConfig`), then the time and the latest reading (`TickReading`),
then, if that is stale, the ledger (`TickLedger`), and starts one run at most, whose
messages count like everyone's (`Turn`) and whose result is entered (`Finish`).
`late` is a history variable: how many runs were started since a fact held that
forbids them.

`Desktop` is the shell. `shell[s]` is where launch `s` of the application is in `main`,
`daemon[s]` where its child is in `run`, and the tray's handler is three steps: the
click, the read and the post. That the operating system gives the port to one daemon
and that `application.New` ends every process but the first are taken from outside.
A time-out may come as soon as what it waits for has not happened. `overlapped` is a
history variable: a shell was launched beside another one, or beside a daemon that one
had left.

`DaemonInvariant`, the last parts of `Spend`, `Desktop`, `Runner` and `Fit`, and the
proof modules of `Pacing`, `Desktop` and `JobPage` state the inductive invariants.
`DaemonProofs` holds the proofs about dependencies, their order, the refinement and the
kill switch; `ChainProofs` those about promotions; the other `...Proofs` those of the
module they are named for.
Operators named `X_Y` with a comment starting "Bug:" are deliberate mistakes in `X`;
each property is known to fail when one of them takes its original's place.

## Runs

| run | instance | shows |
|---|---|---|
| `chain` | a two-step job, a dependent with a step that will be refused; 2 cancellations, 1 fault | `DependencyInv`, `NoCircularWait`, `StepsCreatedOnce`, `ChainConversation`, `OneStepAtATime`, `KeepsOrder` |
| `api` | 1 job, another may be created that may depend on it; 2 users, 3 requests of any kind | `HaltInv`, `DependencySafety`, `HaltReaches`, `NoStartWhileHalted` with creations, cancellations, manual dispatches, halts |
| `progress` | a two-step job and its dependent, 1 cancellation, fair | `NoPromotedDependency`, `PromotionComplete`, `SettledJobsMove`, `RunningEnds` |
| `spend` | a cap of 2 units, caps of 1 to 3, excess 1, 1 user, 3 attempts, 1 fault | `SpendInv`, `NeverLoosened`, `SpendBounded`, `AttemptsBounded`, `LedgerComplete` |
| `pacing` | 1 session, 2 messages of which one may be older than the daemon, 2 readings, 4 minutes over a short and a long day of 3, windows of 2 and 3, a reading fresh for 1; 1 edit, 1 restart | `IndexedOnce`, `OneMoreAtMost`, `QuietIsOpen`, `BlocksCover` |
| `desktop` | 3 launches, 1 dying process, fair | `DesktopInv`, `QuitStops`, `OwnDaemon`, `OneDaemonLeft`, `ShellsMove`, `LabelSettles`, `ItemDoesWhatItSays` |
| `runner` | any 4 chunks, a pipe of 1, lines of 2 at most, fair | `RunnerInv`, `WholeStream`, `NeverBlocked`, `Ends` |
| `fit` | a ceiling of 3, windows of 3, 2 finished jobs that cost 1 or 4 each; a resumable job of 4 before one of 1 and one of 2 with two steps; 1 unit used by others, fair | `FitInv`, `LookedAtAgain`, `ContinuationEnds` |
| `page` | a page opened on a blocked job, a second job that has succeeded, 2 polls at once, 1 click, 1 change of address, fair | `ShowsUp`, `EndIsKept` |

Three runs end in a counterexample to something the repository says of itself:

| run | what is violated | how |
|---|---|---|
| `terminal` | a terminal job never transitions again (`store/job.go:48`) | `Cancel` and `Finish` overwrite each other's outcome |
| `stuck` | shutting down cancels a run as the kill switch does (`desktop/main.go:217-219`) | the job stays `running`; no one looks at it again |
| `holdoff` | a full window holds dispatch off until its reset (`policy.go:28-30`), no signal is not an empty window (`usage.go:42-45`) | the reading is dropped after an hour; without a rate the window counts as empty |

More of what the repository says of itself does not hold, or not without a condition,
and is met where a property makes an exception:

- `HaltReaches` excepts runs of one job that overlap. Two dispatches may pass
  `MarkRunning`; the second registration replaces the first's cancel func, and a halt
  leaves the first running (`dispatch.go:50-53` speaks of every run in flight).
- `PromotionComplete` is checked without faults. A promotion that was interrupted
  between two steps finds one child when it is retried, creates no other, and marks the
  parent (`queue.go:457-459`: "makes the retry pick up where this left off").
- `SpendBounded` says less than twice the user's cap. An attempt is granted its cap in
  full whatever earlier ones cost (`dispatch.go:124-125`: the cap "has to hold across
  every attempt").
- `ContinuationEnds` excepts caps that are no larger than what resuming costs. Such a
  job is resumed in window after window and never advances.
- `LookedAtAgain` does not say that a job ever runs. Steps are predicted to cost what
  their parent's kind costs, so the steps of an oversized job are as oversized as it was
  and are deferred in turn (`policy.go:125-127`: "so the ones that fit can run this
  window"); and a job of a kind whose mean exceeds the ceiling is retried at every tick
  for good, unless it is resumable or can be divided, which `docs/REQUIREMENTS.md:250`
  calls "the failure mode to avoid".
- `Ends` assumes that tools end. A tool that outlives a killed claude and holds its
  output keeps `Run`, and with it the scheduler loop, waiting. `NeverBlocked` excepts a
  line above `maxLineSize`: nobody reads what follows it, so the subprocess may block
  until somebody halts.
- A run that had given its result when its context was cancelled is reported without it
  (`runner.go:124`), so that what it cost does not reach the ledger.
- `QuietIsOpen` excepts the readings of the last hour. Such a reading holds the scheduler
  back even when the window it speaks of has been reset meanwhile (`policy.go:60-63`: the
  window's `resets_at`, "when dispatch may resume"). It excepts older ones as well while their
  window is still to be reset: those should hold it back, and that they do not is what
  `holdoff` shows.
- `EndIsKept` speaks of the time after the page's effects have run for the end. Between
  `setJob` and their clean-up, which React does after the page was rendered, the answer to
  an older poll still passes `!cancelled` and replaces the end. If its status is one that is
  polled, the end comes back (`ShowsUp`); an answer as old as `paused_budget` stays.
- `ShowsUp` names the statuses that are polled. The answer to an earlier load may come
  last and show another job under the page's title; with a status that is not polled it
  stays there.

Three promises hold in the runs above only because of what their users do not do, which
their theorems have as hypotheses. `OneStepAtATime` fails once users dispatch steps by
hand; so does `ChainConversation`, if the first step is dispatched and has finished while
the second is being enqueued, which is then queued at once without the session
(`queue.go:150-152` says that it never is): both are proved for
`"dispatch" \notin Requests`. `NoPromotedDependency` fails once a job is enqueued against
a parent that is being promoted, after its dependents were listed: that job is then
cancelled. It is proved where users enqueue no dependencies while the daemon runs
(`MaxDeps = 0` or `"create" \notin Requests`), and, like `PromotionComplete`, as long as
there was no fault (`faults = 0`). Both except a job with a step that is refused
(`Divisible`), whose promotion stops there every time. All were found with TLC; they go
back to the unconditional writes that `terminal` shows and to the unprotected promotion.

`Desktop` has two more such conditions. `OwnDaemon` is about a shell launched alone. The
comment on a second launch says that it "must not start a second daemon fighting over
the port and database" (`desktop/main.go:82-84`), but `startDaemon` comes first
(line 57): a second launch does start one, which opens the database and its scheduler
before it fails to get the port. `OneDaemonLeft` shows that it does not stay as long as
the first application does; if that one quits between the second's health check and
`application.New`, though, the second's daemon may keep the port with no shell to stop it,
or its window may open on no daemon at all. And `ItemDoesWhatItSays` needs the label to be
right: within five seconds of somebody else halting, a click on `Halt` resumes.

### Bounds

`MaxJobs`, `MaxDeps`, `MaxRequests`, `MaxFaults` and `MaxAttempts` bound the runs and
nothing else: every theorem holds whatever their values. Two steps are enough for a
chain to have a head, a successor and a place between them to be interrupted, and a
dependent that is itself divided makes one promotion rewrite what another created.
Two requests let one goroutine's decision be overtaken by another's write; the kill
switch needs three (a dispatch beside the scheduler's own, a halt, a resume). One fault reaches every error
path of a run, and every statement at which the daemon can die. `Room` keeps an
insertion from failing for want of ids, which the code cannot run out of. In `spend`,
caps below, at and above the user's are tried, and `MaxAttempts` exceeds the number
that is shown to be the limit.

In `pacing` the clock passes both the end of each window and the staleness of a
reading, and one qualifying pair of readings is enough for a rate (`MinSamples = 1`
where the code has 3), so that the calibrated branch of a tick is reached with two
readings. The configurations differ in all that `Decide` looks at. A day of three
minutes has a minute before, at and after the change, and the block wraps.

In `desktop`, three launches let one quit, one come up and one be a second instance at
once. A shell is not launched again once it is gone, so the system stops there without
being stuck.

In `runner`, four chunks give a retry, a result, a stray line and another result in any
order, or a line that is too long with something after it, and a pipe of one makes the
subprocess wait for the reader at every chunk. One run ends, so the system stops there.

In `fit`, the finished jobs' mean (1, 2 or 4) puts every job's prediction below, at and above
what is left; `Need` of 4 exceeds a whole window, so the resumable job takes several;
the cooldown is shorter than a window, so it may be resumed twice in one. `MaxSpent`, two
whole windows' worth, is where the ledger's sums stop, so that the instance is finite.
`Reread` is less than the
largest cap and not less than the smallest.

In `page`, two polls are enough for one to be overtaken and for one to come between a
change and the clean-up; a click and a change of address
put an answer of each kind under way beside them. The page may stop on a job that has
ended, or on a load that failed.

Users' ids are interchangeable where no user is named, and one of the runs, `api`, uses that
symmetry; no run with a liveness property does.

### Fairness

In `Runner`, that the reader and the goroutine that kills a cancelled subprocess go on,
that the subprocess writes when it can, and that tools end; that it ends by itself is
not assumed. In `Fit`, that the loop ticks, runs end and time passes; time passes only
after a tick, as windows and cooldowns are longer than the tick's interval. In `JobPage`,
that the interval fires, requests are answered or fail, answers are taken, and React renders a
page whose state has changed and runs its effects; polls may fail any
number of times but not for ever. Nothing makes the daemon go on with a job.

In `Desktop`, that programs run and timers fire: starting, stopping, binding and
polling go on. A daemon's drain need not end, nor a click be made.

In `Daemon`:

`Fairness` asks that the scheduler loop, each request handler and each run keep going
whenever they can, which Go's scheduler and SQLite provide (`Run` ticks until its
context ends), and that every subprocess ends: `RunError` and `RunResult` are always
possible, but the code puts no time limit on a run, so a subprocess that hangs for
ever keeps its job `running` and, if the scheduler started it, stops the loop. It asks
for no request, no fault and no restart, and gives no preference among the candidates
or verdicts of a tick.

## Proofs

All proofs are about the modules TLC checks, with the assumptions named there, which say
what a configuration or a database can be:
`MaxJobs` is a number, templates and initial jobs are well formed and initial
dependencies name earlier jobs, `Sched` is not a client, `None` is not a goroutine;
in `Spend`, caps are positive; in `Fit`, there are finitely many jobs, and costs and limits
are numbers. TLC finds the inductive invariants that no run lists true on the runs' instances as well:
`StepsInv` and `ChainInv` on `chain` and `progress`, `DivisionInv`, `PromotionInv` and
`RepointedInv` on `progress`, `LateInv` on `pacing`, `ItemInv` on `desktop`, `PollInv` on `page`.

The daemon (`DaemonProofs`):

- `TypeCorrect`: `Spec => []TypeOK`. It includes that a goroutine in the middle of an
  operation has a job.
- `DependenciesRespected`: `Spec => []DependencySafety`. A job is never dispatchable or
  running before all it depends on has succeeded. This is not inductive: statuses are
  overwritten and a verdict is written long after it was reached. `DependencyInv` adds
  what makes the verdict still right when it is written. Having succeeded is a fact
  of the past (`succeeded` only grows), so a verdict of `queued` cannot go stale as
  long as the dependencies it was computed from are still the job's. Only the
  scheduler loop rewrites dependencies, and only of jobs it listed as blocked, none of
  which is released (`SweepInv`, `TickInv`); and no statement ever makes a job blocked
  again (`HistoryInv`). Everything else that can make a job dispatchable found it
  released already (`PendingInv`).
- `NobodyWaitsInCircles`: `Spec => []NoCircularWait`. Rewiring could close a circle if a
  job's last step could come to wait for the job's own dependents. `OrderInv` keeps
  every dependency before its dependent in the order of (root, id), where a step's
  root is its parent; repointing stays within the parent's root. The proof takes
  the least job of a set in that order: it waits for none of the others.
- `DaemonKeepsOrder`: `Spec => KeepsOrder`, the refinement. With the invariant above
  every statement that writes is a step of `Precedence` and everything else none: a
  status written is an opening whose needs are done, or keeps what is open; an insertion
  accepts a job, a step only under an open parent; a rewiring puts a part in the place
  of its whole in a job that has not opened; an outcome finishes an open job.
- `HaltReachesRuns`, `NothingStartsHalted`, from `HaltInvariant`. A run reads the switch
  once, when it registers, and `Halt` looks once at who is registered. So `HaltInv` says
  that a run whose job no other run entered is, from its registration on, the one its
  job's id is registered for, and is the job's only run; hence nobody replaces or deletes
  its entry, and whoever sets the switch finds it there. While the switch is on nothing
  registers, so a registered run was cancelled when it was set. Two runs that overlap are
  in `shared` for good, because what the first deletes may be the second's entry.

Promotions (`ChainProofs`):

- `NoStepTwice`: `Spec => []StepsCreatedOnce`, with every fault and restart. `StepsInv` adds
  that `kids` are all the children the parent has, in the order of its steps
  (`KidsAreChildren`): `PromoteSteps` creates some only if it found none, and nobody else
  creates any. Each step but the first waits for the one before it alone (`ChainLink`),
  which repointing leaves alone as it replaces jobs with steps and a child has none.
- `StepsShareSession`, `StepsTakeTurns`, from `ChainInv`, if nobody dispatches by hand. Then
  the loop is the only one to run jobs, a job that has succeeded is not looked at again
  and recorded its session first (`SucceededInv`), and a step is released only when all
  before it have succeeded (`InTurn`). So a sweep that finds a step's dependency succeeded
  finds its session too, and a step that is dispatchable has no unfinished one beside it.
- `PromotedInFull`: unless something failed, a promoted job has all of its steps.
  `DivisionInv` counts: as many children as steps when the rewiring begins. Between two
  promotions a job without a refused step has all of its children or none (`PromotionInv`).
- `DependentsRepointed`: with the same condition, and nobody enqueueing dependencies
  meanwhile, no sweep looks at a job that waits for a promoted one. `RepointedInv`: the
  blocked dependents of a job that has children are those still in `rewires`.

One job's spend (`SpendProofs`):

- `SpendIsBounded`, `AttemptsAreBounded`, `LedgerIsComplete`: as long as no stale status
  was written and no ledger entry lost (`orderly`), attempts follow one another, each
  is in the ledger before the job is dispatchable again, so an attempt starts only
  when all earlier ones together cost less than the user's cap. Hence less than twice
  that cap in all, and no more attempts than the cap has units.
- `CapsNeverLoosened` holds unconditionally: no attempt is given more than the user's cap.

Admission (`PacingProofs`), on the type invariant of `PacingTypeCorrect`:

- `IndexedOnceAlways`: an entry is inserted under a line's uuid only if none is there,
  and runs enter theirs under none, so the ledger holds each line once whatever
  restarts cut the index short.
- `OneMore`: `LateInv` adds to the count where the tick under way stands. Once a run
  was started against a fact, no tick is past its decision, one that has read the
  configuration has read it disabled (or with the target the reading is at), and a
  reading that ceases to be fresh, or an edit, resets the count.
- `QuietIsLeftOpen`: `Spec => QuietIsOpen`. A tick that has no reading decides on an estimate,
  a sum over the ledger times a fitted rate. It is shown that the sums the model uses
  exist (for every finite ledger there is a fold, by a ledger of least size without one),
  that they are numbers and the rate is a fraction with a denominator that is not zero,
  and that over an empty ledger the estimate is zero, whatever the rate: below any
  target that allows anything at all (`cfg.target > 0`). One that has a reading has one of
  the last hour, so nothing older holds it back.
- `BlocksReserve`: `Spec => []BlocksCover`, for any calendar whose clock is never set back past
  midnight (`BeginsAssumption`). The lemma `ContainsCovers` under it is about every minute at which a
  day's length ago was yesterday. It is not so for the first minutes after a short day and
  the last of a long one, where `Contains` looks up the wrong weekday.

A tick's choices (`FitProofs`):

- `FitInvariant`: `Spec => []FitInv`. What a tick has read of the window is too little only
  by what runs cost beyond their prediction and what others used since (`TickInv`), and it
  goes on only below the ceiling; a run that was foreseen costs no more than what was
  left, be it by its mean or by its cap. So `WithinCeiling` survives the end of each run, and a
  reset sets both sides to zero. The sum under the mean is shown to be a number for any finite set of
  finished jobs.

The shell (`DesktopProofs`), a run (`RunnerProofs`) and the page (`JobPageProofs`):

- `QuittingStops`, `ServedByItsOwn`: `DesktopInv` adds that, until launches overlap, one
  shell is active at most and no daemon is alive beside its child; so the daemon that
  answered the health check is its own, and quitting waits until that is gone.
- `ItemKeepsItsWord`: `Spec => ItemDoesWhatItSays`. `ItemInv`: one daemon has the port at
  most, so the one that is read is the one that is posted to, and unless somebody touched
  the switch in between, the handler is about to do what the label said.
- `RunnerInvariant`, `WholeStreamReported`: `RunnerInv` says what the account holds of
  the chunks read, an unfinished line only once the stream has ended, and that nothing
  is written after that, because the reader sees the end only when nobody can write.
- `EndStaysShown`: `Spec => EndIsKept`. `PollInv`: an answer to a poll can be outstanding only
  while the effect in force polls, because running the effects drops those of the one before.
  It holds between `setJob` and the clean-up as well, where the old effect is still in force;
  once the effects have run for an end there is none, so no answer to a poll, however late,
  changes what is shown.

Facts about sums and least elements (`FoldExists`, `FoldType`, the sums of `Fit`, the least
job of a set) are proved by a counterexample of least size, from the library's theorems on
cardinality and well-founded relations that take no operator: those that take one, the
induction theorems, cannot be instantiated by the provers at hand.

Every invariant and every action property of the runs that pass is proved. Only
model-checked are the liveness properties, `SettledJobsMove`, `RunningEnds`, `OneDaemonLeft`,
`ShellsMove`, `LabelSettles`, `NeverBlocked`, `Ends`, `LookedAtAgain`, `ContinuationEnds`
and `ShowsUp`: they rest on fairness, whose `ENABLED` the provers cannot reason
about.

## What is left out

Prompts, models, attachments, permission profiles and result texts (only whether a
prompt is blank matters, as `validateNewJob` refuses it); a job's `earliest_at`, which
only holds candidates back; the rows `DeleteJob` could delete, since
nothing calls it; reads of the API; the log throttle. A step's prompt is blank or it
is not; a session is there or it is not; the status computed for a job with an
unknown or repeated dependency is an error that leaves no trace.

In `Pacing` and `Usage`: failing statements of a tick, which end it without effect as a
tick that dispatches nothing does; which of two readings of one second is the latest
(here the one inserted last); a rate in floating point; messages of unequal size;
several entries for the models of one run, which `Spend` has; the preferred windows and
the global cap, which no decision of the scheduler reads. A line that the index fails to
enter is not tried again before the next start.

In `Fit`: users, failing statements and the kill switch, which `Daemon` has beside the
same walk; rounding; several kinds at once, which only divides the finished jobs among
predictions; `earliest_at`. The cooldown is measured from `updated_at`, which a cut-off
sets last.

Not modelled: `queue dispatch --wait`, which keeps no state but that it waits, and returns
when it sees `succeeded`, `failed` or `cancelled`. It does not when the job was cut off and then
divided: `promoted`, which is terminal for the store (`store/job.go:59-66`), is not among
them, and the command asks for ever (`commands.go:193`: "until the job reaches a terminal
status"). Nor the settings page and `scheduler config set`, which put back the whole
configuration they read earlier; the lists and the dashboard, which poll as the job's
page does and have no button that depends on what they show but the switch; the text of
time blocks; `probe install`, which edits Claude's settings file; the daemon's own
configuration, read once, and its logs; schema migrations.

## Plan

1. Done: the job table, queue, dispatcher and daemon; their types, dependency safety
   and freedom from circular waits; the spend of one job.
2. Done: readings, the ledger beside backfill, calibration, reserved blocks, and the
   tick's admission checks on them.
3. Done: `FitJob`, the predictions and the runs they lead to; the event stream of a
   run; the page that follows a job.
4. Done: `Precedence`, the abstract order of jobs, and `Daemon` shown to implement it.
5. Done: the desktop shell beside the daemon's start and shutdown.
6. Done: the kill switch from an invariant on the registrations; promotions from one on
   the steps and the children there are; each with the hypotheses it needs.
7. Done: `QuietIsOpen` from lemmas about the sums over an empty ledger, `FitInv` from an
   invariant on what a tick has read, `ItemDoesWhatItSays` and `EndIsKept`.
8. The two clients that edit the configuration, once it is said who wins; a bound on the
   error of the fitted rate from the boundary that `tokensSpentBetween` counts twice.
9. The safety half of the liveness properties: that an oversized job is never passed over
   without being held against the window (`LookedAtAgain`), as an action property.

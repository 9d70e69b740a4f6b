# Models of mars_scaffold

TLA+ models of the multi-process MCTS scaffold under `src/`, checked with TLC on
small instances and, in part, proved with TLAPS for every instance. Paths below
are relative to the repository. `PROJECT.json` maps every definition to the lines
it models, lists the runs, the hazards of the code at their lines with the
properties that watch them, and the theorems.

## The system

One *run directory* is shared by independent processes: a controller, LLM workers,
exec workers and an optional monitor. They exchange jobs and results through files
(`spool/<queue>/{pending,running,done,failed}`) and share one SQLite database
(`state/mars.sqlite`: nodes, `best_state` key/value pairs, lessons, call log).
Shell scripts start, supervise, stop and resume them. Nothing is held in a
process that a restart could not rebuild, which is why most of what can go wrong
is a matter of order: of file operations, of commits, of crashes between them.

| component | state | operations | what is hard | correct when |
|---|---|---|---|---|
| file-spool queue (`fsqueue.py`) | files in four directories, claim files | `enqueue`, `claim`, `complete`, `wait_for_result` | workers race for files; each rename may fail; a process may die between two | a job is executed at most once, has one outcome, is never lost without a trace, and is served |
| workers (`llm_worker_main.py`, `exec_worker_main.py`) | the job in hand | claim, work, complete, complete as failed on an exception | exceptions in and after `complete` | the loop survives a job's failure |
| process scripts (`bin/`) | pid files, lists of processes | start, supervise, TERM and KILL, stop, `--clean`, resume | only the controller is waited for; processes are started one by one; signals, `stop.sh`, clean-ups and pid files of two sessions overlap | a session without workers ends; a `stop.sh` that meets the controller leaves no process of the session; a resumed run neither repeats nor revives a job and gets on |
| rate limiter (`store.py`, `llm/client.py`) | the end of the last interval | reserve in a transaction, sleep, call | the clock is read before the lock is held | slots are an interval apart, no call precedes its slot |
| profile failover (`controller.py`) | per-profile cooldowns, active index, cursor, mode, signature | select, save, send, wait, retry | separate commits, restarts, edited configuration, mode changed at run time | waits are respected, rotation is fair, requests are answered |
| search (`controller.py`, `mcts/`) | tree of nodes, visits, best node, metric range, guard flag, iteration records | select by UCT, create child, score, back up, record | a crash between any two commits; metrics that are not a number | the resumed search continues from a consistent state |
| iteration (`controller.py`) | the node's repository, last result, attempts, time left | idea, plan, patches, run, debug loop, review | results and budgets outlive the code and the time they belong to | the metric scored belongs to the final code; the iteration ends |
| patches (`repo/patch.py`) | the answer, the diff, the node's repository | extract, normalise hunk headers, `git apply` or `patch` | what counts as a line of a hunk, for the normaliser and for git | only counts, and blanks at the very end, are changed; a correct diff is applied whole, an incorrect one not at all |
| snapshots, reward, memory, notifier, task preparation, prompts, diffs, monitor | see `PROJECT.json` | | | |

How they interact: the controller is the only client of both queues and has one
job outstanding at a time. A job of the LLM queue passes through the worker's
limiter; its answer, or its failure, goes back to the failover loop, which retries
it until it succeeds. The controller also calls the LLM directly, for lessons,
through the same limiter. The database is the only channel between controllers of
successive sessions, with the record files under `tree/` and the directories
under `repos/`.

## Modules

* **JobLifecycle**: what a client of the queue may rely on. A job goes from new to
  queued to executing to done or failed, or is lost; no status is ever left
  backwards.
* **SpoolQueue**: the queue, its workers, its client and the scripts. One action per
  file operation: `Glob`, `Stat`, `Take`, `LoseRace`, `TakeDenied`,
  `MoveToRunning`, `MoveFails`, `CopyClaim` and `UnlinkClaim` are the steps of `claim()`;
  `Publish`, `Clear`, `ClearFails` those of `complete()`; `JobRaises` and `Rescue` the
  worker's exception handler; `Kill`, `Clean`, `Resume` the scripts. A file is a member
  of the set named after its directory. Jobs are numbered in the order of their
  mtimes, which is the order of enqueueing, because the controller is alone and
  waits for each result (clock resolution and clock steps are not modelled).
  Whether `spool/` spans two devices (`crossDevice`) is chosen once, in `Init`.
  It refines JobLifecycle under `JobStatus`.
* **RateLimiter**: `reserve_rate_limit_slot` and the sleep of `call_llm`, with the
  clock read (`Begin`, `Retry`), the transaction (`Reserve`), the sleep and the start as
  separate steps and a clock that moves between any two. The rounding of the
  stored value to microseconds and a clock that is set back are not modelled.
* **LLMFailover**: `_ensure_llm_profile_state_keys` commit by commit, then
  `_request_llm`. Cooldowns are kept as the time left. `Boot(c)` is a controller that
  finds the profiles in the order `c`. History variables know which profile a
  stored cooldown was meant for (`owner`), the waits given (`barred`, which a changed
  signature forgets, as the code means to) and who was passed over (`overtaken`).
* **SearchTree**: `init_run` and the loop of `run_controller`. Each commit is a step, so
  that `Crash` falls between any two. `kv` is the table `best_state`, `mem` the
  controller's variables. The work of an iteration is one step here. UCT is
  reduced to what the code's branches tell apart: unvisited children score
  infinity and the first of them wins; among visited ones any may win.
  The rewards are left out, except that the range they are normalised with must
  cover every metric, and except for `NaN`: a metric that is not a number compares
  false with every other, and a reward computed from one violates the NOT NULL of
  `value_sum`, which ends the controller (`BackupFails`). `NaN` is a constant that is no
  integer.
* **Iteration**: one iteration from the chosen action to the metric that is scored.
  The code under test is known by the number of patches applied. Budget and
  timeouts are counted in units. An answer of the LLM is a patch that applies,
  one that is rejected as a whole, or none. Where the code gives a run at least one
  second when less than that is left, the model works in whole units and leaves the
  difference out.
* **DiffText**: the kinds of lines that the readers of a diff tell apart, and what
  `git apply` makes of a diff; external, and without the tree the diff is for.
* **Patch**: `extract_unified_diff` (`TryBlock`, `TryWhole`), the two loops of
  `_normalize_hunk_headers` (`NormalizeHunk` is one round of the outer loop at a header,
  `CopyLine` at any other line) and `apply_unified_diff` with git or `patch`. An answer is a
  sequence of lines, a line its kind, for a hunk header its two counts, and whether it ends in
  blanks. The two calls of `strip()` are `Strip` between lines and `Trim` within them: the first line
  loses the blanks it begins with and the last one those it ends in. A line that starts with `@@`
  but is no header (`atat`) makes a text look like a diff and is otherwise no part of one.
* **Session**: the parts in time. The controller enqueues a request with a deadline
  of `timeout_sec + 60`; workers claim the oldest job, reserve a slot, sleep and call for at
  most `timeout_sec`; the call is a process of its own that may ignore TERM.
  `run_supervised.sh` finds no process of the run (`Start`), starts the workers one after the
  other and the controller last (`StartProc`), reads `controller.pid` and waits (`Attach`): a
  signal or a `stop.sh` may come between any two of these, and a `stop.sh` may still be at work when
  they begin. The supervisor waits for the controller and then cleans up in the steps of the
  script (list the commands, TERM them, TERM the processes it has noted, KILL); `stop.sh` does the
  same with a list of its own, found by pid files *and* by `pgrep`, which does not find the
  supervisor. `unstarted` are the processes a supervisor has not come to, `met` says
  that `stop.sh` has found a controller. A run may be resumed in haste, while the supervisor of the
  session before is still ending: it will remove pid files that are no longer its own (`ghost`).
  Faults are kills of workers, signals, uses of `stop.sh` beyond the one a refused start asks
  for, and hasty resumptions. A resumed controller finds the jobs of its predecessors in
  `pending/` (`backlog`). One `DirectCall` stands for the several a controller may make between two requests.
* **SpoolQueueProofs**, **SpoolOutcomeProofs**, **RateLimiterProofs**, **LLMFailoverProofs**,
  **SearchTreeProofs**, **IterationProofs**, **PatchProofs**, **SessionProofs**: theorems and their proofs.
* **MC...**: instances for TLC.

Operators whose comment begins with "Mutant" are altered versions of a definition
with a plausible bug, one for every property of every passing run; none is used
by a specification. Each shows that its property fails when the code is wrong.

## Runs

| run | instance | what it shows |
|---|---|---|
| `spool` | 2 workers, 2 jobs, one device or two, 1 resumption, 1 failing operation, fair workers | at most one execution, a survivor of the race, unique outcomes, the payload always on disk, oldest first, refinement of JobLifecycle, queued jobs are served |
| `spool_race` | 2 workers, 1 job | **violation**: the loser of a race dies of it |
| `limiter` | 3 callers, interval 2, clock to 4, 3 slots | spacing of slots, no early call, long-run rate |
| `failover` | 3 profiles and an edit to 2 in another order, two lengths of wait, 1 profile that answers | cooldowns, rotation, progress in round robin |
| `failover_reorder` | 2 profiles swapped | **violation**: cooldowns of the old order survive a crash during the reset |
| `search` | 3 iterations, 2 metrics and NaN, 1 draft, 1 improvement, threshold 2, 1 crash and those NaN causes, lower is better | what a resumed controller relies on; what NaN may not displace; termination |
| `search_improve` | 2 iterations, 1 crash | **violation**: a node without a result is improved |
| `iteration` | 2 modules, 2 debug attempts, 3 units of budget | metric and code belong together; no run without a new patch; termination |
| `iteration_budget` | 1 attempt, 2 units | **violation**: a debug run gets more time than is left |
| `patch` | every body of 1 to 3 lines after a header, 2 forms of file header, 5 wrappings, with and without git | only counts change, and to what git counts; a clean diff is applied whole whatever its counts and wrapping, but for blanks at its very end; all or nothing |
| `patch_accepted` | a change and 2 or 3 more lines, all counted | **violation**: a diff that git accepts is cut by the normaliser |
| `session` | 2 workers, timeout 2, slack 2, intervals 1 and 3, 2 faults | an unhindered request is answered before its deadline; a `stop.sh` that meets the controller leaves no process; a session without workers ends; the run gets on |

*Why the bounds are enough.* Two workers race in every pair of places of `claim()`; what
needs more of them (one survivor, at most one execution, the refinement, the
outcomes) is proved for every number. Two jobs give a list that is partly stale; one
resumption gives jobs left by a dead session; one fault gives each error path once.
Three callers let two slots be reserved during the sleep of a third. Three profiles
are the least for which round robin may starve one. Three iterations and a
crash give a tree with a finished, a buggy and an unfinished node and a streak
that crosses a restart; crashes by NaN come on top of the one that is counted. Three
lines hold every pair of neighbours that one of the readers treats as a unit (`---` and
`+++`, a line and the note on a missing newline, an empty line inside of a hunk), with a
line before or after it, and a second hunk. In the session the slack must be able
to be smaller and larger than a wait for a slot (intervals 1 and 3 against 2); two
faults let a clean-up be broken off, a `stop.sh` overlap a start, or a session be
resumed under the supervisor of the one before. A unit of the session's time is much longer than a poll of 0.2 s. Every action
and every disjunct is taken in the passing runs.

*Deadlock* is checked in the runs of the failover, of the session and of the patches.
The other systems may stop: processes exit, searches and iterations end, bounds are
used up.

*Fairness.* `SpoolQueue!FairSpec`: a live worker is scheduled and a job it runs ends,
because both the LLM's command line and the task's command run under a timeout.
`LLMFailover!FairSpec`: the controller runs, the worker answers, time passes; that one
profile answers (`Healthy`) and the mode settles on round robin are hypotheses
of `RequestAnswered`: in sticky mode a profile that keeps answering 401 is retried for
ever. `SearchTree!FairSpec` and `Iteration!FairSpec`: a controller that is up goes on, its
requests come back. `Session!FairSpec`: processes that are alive go on, time passes, the
scripts go on, the user resumes a run that has ended and runs `stop.sh` when a start is refused
because processes are left. Nobody owes a hasty resumption, and only so many are made: a chain of them
without end, each under the supervisor of the one before, need never get on, because each of
those supervisors may remove the next `controller.pid`. No fairness is assumed of crashes, kills and
signals anywhere, nor of restarts, the user, or time in the queue and the limiter. `RunGetsOn` holds for
intervals below `Timeout + Slack` only: with longer ones every request times out while its
worker sleeps (see below).

## Findings

1. `claim()` stats the listed files outside of its `try`; a worker that loses a race
   between glob and stat dies, and nothing replaces it (`fsqueue.py:50`). The proved
   theorem `LastWorkerSurvives` limits the damage: the last worker never dies so.
2. The signature of the profiles is committed before the cooldowns it invalidates
   (`controller.py:405`).
3. A node left unfinished by a crash is selected and improved (`controller.py:803`,
   `README.md:85`).
4. A debug run's timeout is computed from a budget read before the LLM request
   (`controller.py:2021`, `README.md:89`).
5. The normaliser stops counting a hunk at an empty line, which git counts as context:
   a diff that git accepts is rejected or cut (`repo/patch.py:77`, `repo/patch.py:51`).

Also seen, and stated as conditions of the properties: an error in `complete()` after
the result is published leaves a result in both `done/` and `failed/`
(`OutcomeUnique` is stated for runs without failing operations); a crash between
the two commits of the streak may let the guard fire early (`FlagMeansRepeated` is stated
for runs that never crashed); a crash after the guard's flag has been taken back
loses the DEBUG (`ForcedDebugNext` ends where an iteration begins).

Also seen, and promised by no line of the repository or by none that a run could refute
without taking sides:

* The limiter spaces reservations, not starts (`llm/client.py:129`; `README.md:44` speaks
  of a "Global LLM start-rate limit"): two callers that wake late start together. `NeverEarly` and
  `RateBounded` are what remains. With `min_call_interval_sec` at `timeout_sec + 60` or more each
  request times out while its worker sleeps, and reserves one more slot.
* `stop.sh` ends the processes it finds, not the supervisor, and not what is started later. Run
  between two `start_proc` calls it leaves the supervisor to start the rest; the session is then
  without the first workers, and ends when its first request times out (`SessionEnds`) unless a
  worker is left. Only when it meets the controller, which is started last, does nothing of the session
  remain (`StopEndsAll`). Even then a command that a process starts between the listing and the
  TERM of its parent outlives `stop.sh`: the property is about processes, not commands.
* `run_supervised.sh` lists the children of each process anew for its KILL pass, when the
  parents are gone: a command that ignores TERM, or was started between listing and TERM,
  outlives the session (`stop.sh` keeps its list, and kills the first kind). A second signal
  during the clean-up leaves processes behind.
* A supervisor that is ending removes the pid files of a session that was resumed meanwhile. If
  that happens before the new script has read `controller.pid`, `cat` fails and `set -e` ends the
  new session (`run_supervised.sh:186`).
* A signal between the start of a process and the line that notes its pid (`run_supervised.sh:118-120`)
  leaves the process to nobody; the model takes the two for one step.
* Two `run_supervised.sh` started at once both pass the `pgrep` check.
* Commands are TERMed before the processes that wait for them, so that the controller may
  read a failure and store a cooldown for it in its last moments.
* The first metric, if it is NaN (a custom pattern, the JSON of a review), becomes an end of the range for
  good, and from then on every valid metric ends the controller that scores it.
* A removed line that starts with `-- ` before an added one that starts with `++ ` looks like a
  file header and ends the hunk; a fence inside of an added line ends the fenced block.
  `CleanDiff` and `CleanAnswer` name what is left out.
* `strip()` takes blank lines of context from the end of the last hunk, which git does not miss once
  the counts are new, and blanks from the end of its last line (`repo/patch.py:19,23`), which it may:
  an added line is added without them, and a removed line or one of context is not found in the
  tree, so that git rejects the whole diff. `CleanRepaired` allows for exactly this; whether
  a hunk is found in the tree is not modelled.
* `splitlines()` and `"\n".join` (`repo/patch.py:53`, `110`) take form feeds, U+2028 and the like for ends
  of lines and write line feeds for them: a line that holds one is cut in two. The lines of
  the model are those of `splitlines()`, so that `OnlyCountsChange` does not see it.
* `cumulative_total` of the call log is written in a second transaction
  (`llm/client.py:70`) and may go backwards; a notification that fails late takes back the
  reservation of its key, which another may have taken since (`notify.py:93`). Nothing reads
  either.

## Proofs

`SpoolQueueProofs` proves, for every set of workers and all bounds, from
`SpoolAssumption` alone:

* `Typing`, `AtMostOnce`. `TypeOK /\ ExecutedAtMostOnce` is not inductive: a worker about
  to start must hold a job nobody has started. `IInv` adds `Ownership`: a worker holds a
  job exactly between claim and release (`Owned`), no two hold the same one and none
  that is pending (`Exclusive`), only enqueued jobs are around (`Known`), pending and
  claimed jobs have not been started (`Unstarted`), and a job has a result exactly from
  `Publish` on (`Reported`). There is one lemma per group of processes and one case
  per action.
* `LastWorkerSurvives`, by the invariant `Survival`: until a worker is killed, either
  no claim has succeeded yet and every worker's list is up to date, or the last
  worker that won a claim is alive and whatever it lists is still there, since nobody
  has taken a file after it.
* `LoneWorkerSurvives`: with one worker, the default of `run_supervised.sh`, the last worker is
  the only one, and `RaceIsHarmless`, which the run `spool_race` refutes for two, holds.
* `OldestFirst`, by `Sorted` and `Listed`: until an operation fails, a pending job is in a
  worker's list or newer than everything in it, and lists hold only jobs already enqueued.
  So the first of its list that a worker still finds there is the oldest of all.
* `Refinement`: each step moves `JobStatus` of at most one job along an edge of
  JobLifecycle. `DropLoses`, `SameStatus` and the other lemmas before it say how a change
  of files and program counters shows in the status.

`SpoolOutcomeProofs` adds `PayloadNeverLost` and `OneOutcome` on top of `IInv`: where the
payload of each job is at every point of `claim()` and `complete()`, on one device and on
two, and who may still publish a result for it.

`RateLimiterProofs` proves `Spacing`, `Patience` and `LimiterTyping` from an invariant that relates each
caller's stamp, slot and waking time to the clock and to the table: a caller asleep
wakes no earlier than its slot, and `nextAllowed` is past every slot by the interval.
`RateSafety` counts: the slots given out are ranked by the interval, every call that was started
has had a slot of its own, so (a pigeonhole argument, `SomeIndexIsLarge`) n calls have had a
slot at (n - 1) * Interval or later, and no call starts before its slot.

`LLMFailoverProofs` proves `FailoverTyping`, `CooldownSafety` and `RotationSafety` for any
profiles. Types alone are not inductive: `IInv` adds that a controller that is up has
recorded its profiles (`Settled`), that its indices at work are in range (`InRange`), and that
the profile it uses is ready (`Sending`). `Cool` bounds the wait a profile was given by the
key under its index, in the table and in the controller's copy; it needs that no profile
is listed twice, which `CooldownSafety` takes as its hypothesis `Distinct`: one entry's failure
says nothing of a second entry for the same profile. `Turns` says that whoever was used
while j was ready comes after j, counted from the cursor; the lemmas before it are about
the ring of profiles (`NearestIs`, `Passing`). `ResetOwnsCooldowns` says when the claim
holds that the run `failover_reorder` refutes: as long as no controller dies between recording a new
order and clearing the cooldowns (`ResetCompletes`). Its invariant `Owned` says that the key
under an index belongs to the profile that the recorded order has there, but for the keys
still to be cleared.

`SearchTreeProofs` proves, for any metrics, limits, iterations and crashes, `SearchTyping` and
the eight properties below. Seven look at one table each, and none is inductive by
itself, because what a resumed controller does depends on all of them; `IInv` is the conjunction of

* `Rooted`: from its creation on the root is done and has no metric, and a controller that
  is up has its number;
* `Numbered`: nodes are counted by records, crashes and the one being made, so that
  node numbers and directories stay within their bounds, and the iteration in memory is one
  past the last record (`RecordSafety`);
* `Chosen`: until it is backed up, the node in hand is the newest and nobody's parent, which
  is why making it buggy takes no child with it (`BuggyLeaves`);
* `Housed`: directories and nodes are created together, one for one (`SnapshotSafety`);
* `Ranged`: what covers the metric of a node that is done at each of the commits `SaveLow`
  and `SaveHigh`, the range in memory and the one on disk (`RangeSafety`);
* `Best`: the best node is compared and stored before the iteration is recorded, and a
  crash in between leaves no record to be beaten (`BestSafety`).

`RangeKept` follows from the two commits of the range. `DebugIsPaid` and `FlagSafety` have an
invariant each on top: `Owing` (a DEBUG that is due is still in the table when the next
controller loads it) and `Streaked` (without a crash, the streak in memory counts equal
records).
`VisitsSafety` adds `Leads` (the path in memory leads from the root, which has no parent,
to the parent of the node in hand) and `Room` (a node that `_backup_path` has counted has a visit more
than its children need, so that a crash leaves a surplus at most). The sum over the
children is a recursive function of the community modules; that it exists, that the order
of the members does not matter and what one changed visit does to it is proved from a
smallest counterexample (`SmallestSet`), which needs no induction theorem.
`FewAbandoned` counts what crashes leave behind: the nodes without a result, the one in hand
excepted, are as many as the controllers that have ended, at most. With no crash there
are none, which is why `OnlyValidImproved`, refuted by `search_improve`, holds in a run that is not
interrupted (`UninterruptedImproves`). `DescentEnds` is the safety part of "the selection
returns": a child is newer than its parent, so each round goes to a newer node. There is one lemma per conjunct, one case per action or group of actions.

`IterationProofs` proves `Typing`, `MetricOfFinalCode` and `RunsAreNew` from
`IterationAssumption`. `TypeOK` alone is not inductive: that the number of versions
stays in its range needs `Counted` (an attempt at debugging adds one version at most)
and, before the first run, `Unrun` (patches asked for and patches left fit together, and
nothing has a result). `Measured` carries the claim about the metric: a version that
runs is the present one, and so is the one behind any metric that is still held. The
steps up to the first run and those after it have a lemma each, with one case per action.
`IterationIsBounded` is the safety part of `IterationEnds`: `StepsLeft` weighs each program
counter by the work that is still allowed, and `StepsLeft + budget` falls with every step, so
that an iteration that goes on for ever cannot exist for any settings; fairness is
needed only for the steps to be made.

`PatchProofs` proves `ContentPreserved` and `CountsFit` for every answer: the invariant is
that what has been put out is what has been read but for counts, and that each header
put out fits the lines up to where the inner loop stopped. `NoHalfPatch` proves `AllOrNothing`:
with git the dry run and patch(1) are never reached, and the repository is as it was
until git has taken the whole diff. `CleanIsUnderstood` follows a clean diff through its whole
way, in three parts:

* *Extraction.* `Extracted`: when the search is over, the lines found are a part of the
  answer that holds the whole diff but for blank lines at its end (`Cut`), with the blanks at the end of its
  last line gone (`TrimKeeps`, `CutKinds`). A fenced block
  holds all of the diff or only prose (`BlockIsAllOrProse`), the removal of fences and
  blanks keeps such a part (`StripFenceCut`), such a part looks like a diff (`CutLooks`) and prose
  does not.
* *Normaliser.* Whether a text is `Tidy` depends on the kinds of its lines only, so what is put
  out is tidy too, and by `CountsFit` every header fits up to the end of the loop, which in
  a tidy text is the end of the hunk (`TidyBody`).
* *git.* `GitReads` is a recursive function, from the end of the diff to its start. That it
  exists (`ReadingExists`) and what it yields for a tidy text (`TidyIsRead`) is proved from a
  smallest and a largest counterexample. git stops one line early where a hunk ends in a note on a
  missing newline, and skips that note (`TidyHunk`).

`NormalizerSettles` says that normalising is idempotent, and that a diff whose headers
have the counts the normaliser finds is left as it was. The accepted diffs that it spoils
(`AcceptedStays`, run `patch_accepted`) are therefore among those where the model's
counts are git's and not the normaliser's.
`PatchTyping` adds the types, with the fact that git takes nothing but lines of the diff.

`SessionProofs` proves `SessionTyping`, `AnsweredInTime`, `NothingLeft` and
`SupervisorLeavesNothing`. For `AnsweredInTime`, `OnItsWay` says
how much time an unhindered request has left at each stage: more than the worker's
sleep and the whole timeout while it is asleep, more than what is left of the call
while it is called, and that one worker has it or is free for it. For `NothingLeft`,
`StopKnowsAll` says that a session whose controller has been met has nothing left to start, and that
from then on `stop.sh` has every process that is alive among its targets. For
`SupervisorLeavesNothing` (past its TERM signals, a supervisor has left none of the processes
whose pids it has noted, wherever a signal broke off the start), `SupervisorKnowsAll` says that what is alive
is among the supervisor's targets while it starts, watches and cleans up.

All of this holds for every value of the constants that satisfies the named
assumptions, and covers every invariant, every action property and the refinement
that a passing run checks. *Only model-checked* are the liveness properties (`JobServed`,
`RequestAnswered`, `SearchEnds`, `IterationEnds`, `SessionEnds`, `RunGetsOn`): liveness under
fairness and ENABLED are out of the prover's reach. So are the library's induction
theorems, which take an operator as a parameter. Where a proof needs an induction, on
the sum over the children of a node, on the order of slots or on git's reading, it
argues from a smallest counterexample, and the recursion is written as a function.

## Not modelled

Contents of prompts, diffs and logs; the estimate an idle exec worker logs; whether the
context of a hunk is found in the tree (files, not the form of the diff); task
preparation, which runs once and caches a text; the monitor; the metric parser (its
results are the metrics, NaN among them); configuration parsing (its values are
constants). The reflective memory feeds only prompts, and the notifier only the
user. Rewards are products of floats: only their range and NaN are modelled. Time in
Session is counted in units in which what does not sleep takes no time; two
controllers at once, and a run directory spelt in two ways, which `pgrep` would tell apart, are not
modelled.

## Plan

The number of runs stays within a dozen by merging instances where two questions
share one.

1. Done: SpoolQueue with JobLifecycle and proofs; RateLimiter with proofs; LLMFailover
   with proofs; SearchTree with proofs; Iteration with proofs; Patch with proofs; Session, the composition of
   queue, workers, limiter, controller and scripts in time, with proofs.
2. Done: under what conditions the violated claims hold. `RunFitsBudget` has no such theorem:
   the timeout is bounded by the budget once, before the first run, and handed on to the debug
   runs, for which it is a matter of luck whether as much is left.
3. Compositions: Iteration as an implementation of the single step `Work` of SearchTree.
4. New components: lesson deduplication, `Notify`.

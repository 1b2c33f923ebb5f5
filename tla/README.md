# Aquila in TLA+

TLA+ models of Aquila: its job queue with the workers and their result cache, the
experiment command from the captured change to the stored evidence, the telemetry the
analysis rests on, and the checkout of its example shop; with the TLC runs that check
them and proofs that TLAPS checks. The source is the reference: every definition says
what the Go code does, and `PROJECT.json` gives the lines each one stands for.

## The system

Aquila replays a workload against a baseline and a patched deployment of a service
and decides what the evidence supports.

| part | source | modelled by |
|---|---|---|
| job rules: readiness, status, cancel, deadline, leases, quotas, occupancy | `internal/jobs/{enqueue,earned,quota,occupancy}.go` | `JobRules` |
| durable job store and reaper | `internal/jobs/{postgres,reaper,store}.go` | `PgJobs` |
| memory job store (tests, no database) | `internal/jobs/memory.go` | `MemJobs` |
| workers and gRPC | `internal/worker`, `internal/cli/worker.go` | `Fabric`; their calls in any order in `PgJobs` |
| action cache, object store | `internal/action`, `internal/cas` | `ActionCache` |
| jobs API | `internal/api/jobs.go` | its requests in `PgJobs` |
| revisions | `internal/gitrev` | `GitRev` |
| pair environments | `internal/pair` | `Pair` |
| experiment, run and env commands | `internal/cli` | `Experiment` (capture, pair, stop), `Pipeline` (plan to upload) |
| replay, comparison | `internal/replay` | `Replay` |
| plan and its evaluation | `internal/plan` | `Plan` |
| validation policy | `internal/validate` | `Validate`; what hosted jobs need also in `JobRules` |
| evidence, runs | `internal/evidence`, `internal/runs` | `Evidence`, `RunStore` |
| span ingest, trace windows | `internal/ingest`, `internal/api/ingest.go` | `Spans`, `Ingest`, `Telemetry` |
| entry spans, binding, impact | `internal/graph`, `internal/locate`, `internal/impact` | `TraceGraph`, `Changes`, `Impact` |
| shop example: checkout, inventory, payment, processor | `examples/shop` | `ShopCheckout`, `ShopInventory`, `ShopPayment` |
| shop example: gateway, users, notification | `examples/shop` | not modelled: proxying, reads, an ignored answer |
| everything else | | see Not modelled |

Clients post jobs (a plan of steps that depend on one another) and cancel them.
Workers lease ready tasks, renew the lease with heartbeats, run the step against
both gateways and commit the result. The server's reaper requeues expired leases
and fails jobs past their deadline. All of it meets in the rows of one table.

A developer's `experiment` captures HEAD and the worktree as two trees, finds the
routes the change affects from the spans the services exported, builds both trees and
runs them side by side, replays a workload against each, and decides what that shows.
The decision is sealed with its evidence and uploaded to the store of runs.

## Modules

* `JobRules`: operators on a job record and on a set of jobs, named as the Go
  functions. `settle` is given in closed form. Records keep what the rules read;
  error texts, blockers, workloads and revisions' names are left out. A URL is a
  record of scheme, host, port and path, so that `occupancyKey` is a projection.
* `PgJobs`: the Postgres store. State: the rows (`jobs`), the clock (`now`), and
  how many attempt ids were issued (`ids`, standing for random ids that never
  repeat). Each transaction holds the locks of the rows it read, so it is one
  action; a failed or refused one is a stutter, as it rolls back. The clock is read
  before the locks are waited for, so the time a transaction uses is any of
  `clockReads`, at most `MaxLag` old. Heartbeats and commits come from anyone with
  any attempt ever issued: this covers lost, late, repeated and reordered calls
  and workers that crashed.
* `Ledger`: what a store promises about the tasks it hands out, with no plans, clocks,
  workers or quotas: a task is open, held under one attempt, or done; an attempt id is
  granted once; only the holder reports; what is done stays. `PgJobs` implements it
  under the mapping `entry` (`L == INSTANCE Ledger WITH ...`).
* `ShopPayment`: `authorize` for any callers, each SQL statement a step. The processor's
  approval (`Charge`) and the return of the call (`chargeProcessor`) are steps of their
  own: the caller may give up first, after five seconds or for a broken connection, and
  the processor may approve the charge later (`LateCharge`). State: the payment row of
  each checkout, the requests being handled, and ghost counts of the charges the
  processor approved and of those it still has whose caller is gone.
* `ShopInventory`: `mutate` under the Redis lock, which expires at any time and which
  a returning handler deletes whoever set it. The lock is only whether the key
  exists, as no code reads its value; the events table is only written, so its INSERT
  is part of the handler's return.
* `ShopCheckout`: `create` composed with both. A call that fails for its caller leaves
  its handler running, now or later. A statement that answers an error took effect or
  did not; one that takes effect after its caller was told is a handler that runs on.
* `MemJobs`: the memory store, an action per call under its mutex, with the rules of
  `JobRules`. Unlike `PgJobs` it looks at finished jobs too. It implements `Ledger`
  too, mapping a task by its state alone, as a finished job's tasks can still change.
* `ActionCache`: the index and the objects as files; a Put is two renames. A power
  failure tears what was not synced. It is assumed to keep the renames that were made,
  as a file system does that journals its directories.
* `Fabric`: worker processes over `MemJobs` and `ActionCache`. A worker has a program
  counter and what it believes of its task; it crashes and starts again at any step.
  A commit on its way to the server is a message that may arrive late, or be answered
  to nobody.
* `GitRev`: HEAD, the worktree, commits, refs that pin trees, amends, garbage
  collection. A tree is a model value; a commit is its history of trees and authors, so
  that a snapshot (which carries aquila's name) is never the developer's commit.
* `Pair`: the directories of pairs and the compose projects that run, which outlive
  the command that started them. `composeUpFails` gives every way a side may fail half
  way, `downSides` every side that may fail to stop.
* `Experiment`: one process at a time running `experiment`, `run` or `env`, its steps
  in the order of the code, a timeout, and a kill that skips the deferred calls. It
  begins when the diff has been read.
* `Spans`: what ingest keeps of a batch (by position), the upsert, and the windows of both
  stores. A sort is `orderBy`: each element stands where the number of those before it
  puts it. The loop of `SelectWindow` keeps a trace as long as the traces and spans
  `ahead` of it are below the limits. The SQL window is a set of possible answers, one
  per order of equal timestamps.
* `TraceGraph`: `traceEntries` as the code computes it, given the order in which Go
  ranges over its map: the walk up (`climb`), the way back (`descend`), and the table of
  `resolved` spans that the walks share, as recursive functions. `Changes` and `Impact`:
  from a diff to functions, callers, spans and routes, with the caps in their places but
  for the 500 direct findings; a cap keeps what has few enough before it. A function
  without an end line (an interface method, which the loader adds when it is called)
  spans what follows it up to the next function, as in `overlappingFuncs`.
* `Ingest`: exporters that retry, the handler, a transaction that fails, a commit that
  fails unseen (`CommitFails`), and a server that restarts. `Telemetry`: what windows,
  entries and routes make of the spans stored so far.
* `Replay`, `Plan`, `Validate`, `Evidence`: operators for the comparison, the plan and
  its verdicts, the policy and the artifact. A decision is its set of blockers.
  An observation is a transport error, or a status, a body and a duration.
* `RunStore`: `POST /v1/runs`, the INSERT and the read after a conflict as two steps,
  failures and lost answers between them. `Pipeline`: the experiment from its impact
  report on, with a context that may end at any time and answers that may be any, and
  other commands that import artifacts.
* `MCPgJobs`, `MCShop`, `MCFabric`, `MCTelemetry`, `MCPipeline` and the `.cfg` files:
  the instances TLC checks.
* `JobRulesProofs`, `PgJobsProofs`, `LedgerProofs`, `FabricProofs`, `ExperimentProofs`,
  `TelemetryProofs`, `PipelineProofs`, `ShopProofs`: theorems.

Definitions marked "Mutant" are plausible bugs. No specification uses them; each one
is there to show that a property would notice.

## Runs

| run | shows |
|---|---|
| `pg_life` | two successive jobs on one gateway, with a regular plan and one with a repeated id, an operator step and a dangling dependency: dependencies, wake-ups, status, leases, fencing, frozen finished jobs, no hosted job validated |
| `pg_admission` | two services, three spellings of two gateways: exclusive gateways, quotas, lease caps and slots |
| `pg_live` | with the clock and the reaper fair, every job ends by its deadline and no lease stays expired |
| `pg_ledger` | jobs of two independent tasks held by two workers at once: the store implements `Ledger`, and no attempt id is in two tasks |
| `shop_stock` | two checkouts want the last piece of an item: with the lock lost or expired, failing calls and abandoned handlers, no stock is sold twice or invented |
| `shop_pay` | one checkout with three tries, several of them handled at once, and a processor that may approve late: one try owns the payment at a time, none sends a charge after success, a recorded checkout is paid, every checkout ends |
| `fabric` | two workers that crash, restart and lose calls, with a cache that can be torn, over the memory store: a task's result is its own execution's, an acknowledged commit stays, the cache index never dangles, the store implements `Ledger` |
| `experiment` | two commands, with failures of every step, timeouts, kills and a developer who edits, commits and amends: no containers are left unannounced, what is measured is what is recorded, what is analysed is what is built, the patch stays in the repository, every command ends unless docker hangs in the one call without a timeout |
| `telemetry` | batches of five traces in any order, with retries, failing commits and restarts: no span is lost silently but by a commit that fails unseen, both stores answer a window with the newest whole traces, no span gets a wrong entry, no change a wrong route |
| `pipeline` | experiments from ten scenarios, with up to two answers, test results or interruptions out of the ordinary anywhere, and uploads that collide, repeat or are lost: validated is earned by the raw observations, coverage agrees with them, verdicts are symmetric, what is told stored is stored |
| `doc_hosts` | violated: `docs/EXECUTION_MODEL.md:13` says ports on one host do not create independent occupancy; `occupancyKey` keeps the port |
| `doc_cap` | violated: `README.md:161` says the cap limits what a service can run at once; the leased task of a canceled job is no longer counted while its worker runs it |

Bounds: two jobs, two workers, two or three attempts and three to six instants are enough
for a lease to expire, its task to be granted again and the first worker to come
back, for a job to end and another to take its gateway, and for a deadline to fall
before, at and after each of these. A lag of one instant (none in
`pg_admission` and `pg_live`) lets two transactions use their clock readings in the
wrong order. Workers (and services) are symmetric.
`LastCreate`, `MaxTime` and `MaxAttempts` only cut behaviours short; the liveness
properties speak of deadlines and leases that fall before the clock stops.

In the shop, two checkouts with one try each (payments of different checkouts share
nothing) and one checkout with three tries (the code has five; three let a first try
linger while a second ends and a third begins).

In `fabric`, two jobs of one cached and one uncached step, two attempts and one power
failure: a worker can lose its lease to the other, come back with its result, and meet
what the other left in the cache. Its jobs have no deadline before the clock stops;
deadlines are the subject of the `pg` runs.

In `experiment`, three trees, two commits, one edit and two commands: the second
command meets what the first left, of the same trees or others. Two commands at the
same time are not modelled.

In `telemetry`, a batch limit of two, a window of at most four spans, two bindings and
three findings make every cap bite. `WindowNewest` holds where the lists of probe routes in SQL and
in Go agree, no two traces are equally new and the rows fit the span limit, and says
so: past the limit the query keeps the oldest spans of its traces. Windows are read in
states without requests and answers (`AtRest`): they depend on the stored spans only, and
whatever is stored could be so with every answer lost and the server restarted. The
source has interface methods between functions, at the end of a file, and two on one line.

In `pipeline`, `MaxDeviations` bounds what is not normal in one experiment to two
(anywhere: two differences can cancel out, one on each side), two repeats and two
parallel replays stand for twenty and eight, and `MinLatencyN` is two, so that one lost
sample is one too few. `maxRepeats` and `maxBurst` are two, so that a plan can ask for
more. The ten scenarios differ in what the policy asks about: reached, missed and absent
routes, unbound lines, lines after an interface method, declared or equal revisions,
equal targets, too few repeats and too many, an empty workload.

Fairness: weak fairness of the clock, and of the reaper, which `Loop` runs at start
and every second as long as the server lives. Clients and workers owe nothing.
In the shop, weak fairness of each checkout's own steps, of which the client's
five-second timeout is one; the services' handlers owe nothing.
In `experiment`, weak fairness of the process's own steps (`Works`) and of the timeout that
every command puts on its context (`Timeout`). The steps of `Works` call git and docker
with that context, or in `Down` with a timeout of its own; a program that is killed is
taken to return. One call has neither: when the patch does not come up, `Up`'s `fail`
stops the baseline under `context.WithoutCancel` (`pair/compose.go:46-49`). So `fail` is
not among the fair steps, and `Ends` says that a command ends unless it stays there for
good. Nor is it assumed that a gateway ever answers. A diff on standard input is read
without any timeout before the first step of the model.

Deadlock is checked in the runs of the store, where the reaper is always enabled. The
shop's runs end when their checkouts have, `fabric` when its clock and attempts are
used up, `experiment` and `pipeline` when their commands and uploads are. Telemetry
never stops.

What the models also reach, and the code does not promise to prevent:

* a charge whose answer was lost or late is undone by deleting the row, and the next try
  is approved too, before the first or after it: the checkout is charged twice.
  `AuthorizedFinal` says that all such charges were sent before success;
* stock whose release failed stays reserved; a checkout whose row cannot be written keeps
  its payment;
* `UpsertSpans` ignores what `br.Close()` returns, so an exporter is told that its spans
  are stored when the commit failed after the last result. `ExportKept` excepts those
  exports;
* a changed line after an interface method, up to the next function, counts as a line of
  that method, whatever stands there, and so is not reported as unanalysed and does not
  block. `analyze_test.go:213-220` asserts this for a function without an end line;
  `docs/components/impact.md:3` says that policy "cannot silently call a file-level
  change complete". `ValidatedEarned` and `RoutesExact` say what the code does.

## Proofs

Every invariant and action property that a passing run checks is proved for every value
of the constants. What is left to the runs is liveness.

For every set of jobs, plans, workers and services and every bound (`PgJobsProofs`):

* each invariant of `pg_life`, `pg_ledger` and `pg_admission`, and the action properties
  `FinishedFrozen` and `Fencing`;
* that the store implements `Ledger` (`LedgerImplemented`), and from this and a
  theorem about `Ledger` alone (`LedgerUnique`) that no attempt id is ever in two
  tasks.

The inductive invariant, `RowsSound`, speaks of one row at a time: it is a job of
its plan, settled, its status agrees with its tasks, its leases are whole, its
dependencies are ordered, its attempts were issued and its source is declared. None
of these is inductive alone: dependency order needs settledness and the status
(a canceled job's pending tasks are skipped), the frozen finished jobs need the
status to agree, and fencing needs whole leases (a task that can be leased carries
no attempt). `JobRulesProofs` shows that each rule preserves it and takes a task
only where the fence allows; `PgJobsProofs` lifts this to rows and actions
(`RowStep`, then one lemma per action). Admission is over sets of rows: only
`Create` adds an unfinished job, only `Lease` adds a leased task, and each checks
the bound after the expiry; `Capped` carries the finiteness of the sets counted.

The refinement needs, of each action, which task (if any) it grants or reports and
that every other one changes quietly (`QuietBut`); a quiet change of a whole task is
a release or nothing (`QuietReleased`). Whole leases are what makes this true: they
rule out an open task that keeps its attempt. `LedgerUnique` rests on the attempts
and fences in the ledger being at most `issued`.

`FabricProofs`, for the memory store with its workers and their cache, any number of
them, and any crashes, restarts, lost or late calls and power failures: the four
properties of the run `fabric`. `FabInv` says of the stored jobs what `RowsSound` says of
rows (the rules are the same, so `JobRulesProofs` is used again), and adds what holds
between the parts: the result a worker is about to cache, or found in the cache, was
reported for its own action, and so was the result of a commit on its way, however late;
an index entry that is not torn names such a result and an object that was written; an
acknowledged commit is the state of its task. That the last one stays needs that a task in a final state is never
moved again (`QuietTask`). `MemLedgerImplemented` maps a task by its state alone, since
the memory store still expires the leases of finished jobs.

`ExperimentProofs`, for any trees, any number of commands, edits, commits, amends and
collections, any failure of a step, timeout or kill: the four invariants of the run
`experiment`. `ExpInv` follows the command: the commits it read are in the object
store, from `DiffTrees` on the diff is the one between them, from `PinPatch` on a ref
holds the patch tree, from `Materialize` on the pair's directory holds the two trees, and
from each `composeUp` on the one project that has the gateway's port serves that tree.
`PatchKept` needs that HEAD is a developer's commit and a snapshot is not: `Pin` skips the
commit that HEAD names, and an amend would otherwise take the last ref to the patch away.

`TelemetryProofs`, for any batches, exporters, windows, services, diffs and limits:

* what an exporter is told (`AnswersAreTrue`). `IngestInv` says that a request whose
  transaction committed, and every answer but those to a commit that failed unseen, has
  all that `normalizeBatch` kept of its batch in the table, and that the table holds finitely many spans, all of them produced (`Sound`). An
  upsert could replace a span by another with its key: that a key stands for one span is
  assumed (`IngestAssumption`). The other three follow from `Sound` alone;
* both stores answer with the newest whole traces (`WindowsAreNewest`). `orderBy` lists a
  finite set in a strict order (`OrderedBy`, from counting the elements before each one),
  and the comparisons of `groupTraces` and `sortTraceSpans` are strict orders
  (`NewerOrders`, `OlderOrders`). `KeptAre` shows that the loop's two limits keep just the
  traces wanted, `RecentNewest` that the first LIMIT of the statement picks the same ones,
  and `PostgresNewest` that the second takes none of their spans away, so that
  `SelectWindow` over the rows returns them all (`RowsNewest`);
* every span gets the entry it has by its ancestry, and a span whose parents are missing
  or form a cycle none, whatever the order of the map (`EntriesAreRight`). The invariant of
  the loop over the map is that each resolved span's ancestry is true (`Truly`): complete
  when a line leads to it from a root, with the first routed server of that line as its
  entry. One walk keeps it (`ResolveIs`): the walk ends (`Stops`); where it ends at a
  resolved span, a root or a missing parent, what it has learnt there is true; where it
  meets its own chain no line reaches it (`CycleUnreached`, by a shortest line); and each
  step down extends a line by one span (`TrulyInherited`);
* the routes reported for a change are those by which an affected function was reached
  (`RoutesAreRight`). `AffectedIs` equates the watched ids with the functions changed or
  calling a changed one, for functions with or without end lines, overlapping or not;
  `RouteIs` takes the entry from the theorem before, `RoutesReal`
  shows that no other route is reported, and `RoutesFound` and `RoutesKept` that none is
  missed: of the findings that `seenBind` takes for one the earliest is kept
  (`Earliest`), and below the cap all of them are.

No induction principle can be applied here, so a recursive function is shown to exist and
to step as defined by a smallest counterexample (`LeastOf`, `RecursionTo`, `Recursion`),
and facts about every step of a loop or line are shown the same way.

`ShopProofs`, for any number of checkouts, items, requests and tries:

* the payment service charges exclusively and an authorized payment was approved
  (`PaymentSafe`) and stays, with no further charge sent (`PaymentFinal`), whoever calls
  it. The inductive invariant adds that a request whose charge was approved is counted. The shop implements the service's own
  specification (`ShopImplementsPayment`): it posts each try once because `create`
  counts them (`ChkInv`). `ChargeExclusive` and `AuthorizedFinal` of the shop follow;
* no stock is sold twice (`HeldStockBacked`) and a recorded checkout is paid
  (`RecordedIsPaid`). `ShopInv` says where each checkout is (`Placed`), that every
  request of the inventory is the reservation or release of one line that its checkout
  has posted (`MutOK`), that every request of the payment service carries its checkout's
  total (`AuthOK`), and that stock and claims together are at most what there was
  (`StockOK`). What a checkout holds is not enough: a reservation claims its pieces from
  the `UPDATE` on, before the checkout hears of it, and a release keeps them claimed
  until its own. A line is claimed by one request at most, so each `UPDATE` moves one
  line in or out of the sum. The sums are the library's `MapThenSumSet`; that adding or
  removing a line changes them by its quantity is proved from the fold's definition by a
  smallest counterexample (`SmallestSet`), as no induction principle can be applied.

`PipelineProofs`, for every impact report, workload, number of repeats and parallel
replays, every answer of the two sides and every moment of cancellation:

* a validated experiment has earned it (`ValidatedIsEarned`). `Policy` takes the
  absence of blockers apart into what each requirement says of the raw observations;
  it needs that these are whole replays of one workload, and that a burst that was
  begun is complete. `CommandInv` says so at every stage of the command, and what was
  built was built from them;
* what a client was told is stored stays stored (`AnsweredStaysStored`). `StoreInv`
  adds that every stored artifact passed `Check`, that an answer under way is true, and
  that a call that met a conflict still has something in its way. Its one assumption
  about data, `DigestAssumption`, is that a verified digest stands for its artifact;
* the verdict does not depend on which side is called the baseline (`SidesAreSymmetric`):
  each comparison is symmetric, and `overall` reads kinds and verdicts only. It needs
  from `CommandInv` that both sides replayed one workload;
* the coverage in the artifact is what was observed, and agrees with the blockers
  (`CoverageIsObserved`): `coverageOf` reads the compared steps and `coverageBlockers` the
  policy's input, and both come down to the same answers of the first replays.

Assumptions: those of the `ASSUME`s, which TLC evaluates in the runs. Plans are
sequences of steps, workloads and batches are sequences, the limits are positive, the
empty worker id is no worker's, the marks for a missing or torn object are no digests,
the first commit and the first worktree hold trees, checkouts and their lines are
finitely many with quantities in the naturals and each item is in stock with some number,
the source's functions are finitely many and have ids of their own (the loader keeps one
node per id) with an order, line numbers are naturals, digests tell verified artifacts
apart, spans with one key are one span, their ids and times are naturals and no span has
the empty id.

Only model-checked: `JobEnds`, `LeaseReaped`, `CheckoutEnds` and `Ends`, as liveness under
fairness is out of the prover's reach.

## Not modelled

* Diff and Go source parsing (`internal/diff`, `internal/source`): functions of text
  in one process; the models start from what they return. What is only displayed of a
  graph (services, edges, paths) has no property.
* `internal/investigate`, `internal/rewrite`: text put together from the results of
  other parts.
* The native executor and the OCI sandbox (`executor`, `internal/nexec`,
  `internal/sandbox`): one process starts one child, waits and reports. Limits, signals
  and namespaces are the operating system's, and nothing is shared with another part.
* The fault proxy: one stateless handler; its effect on a replay is an answer.
* Server wiring, configuration, connection pools, logging, HTTP routing and flags.
* The shop's gateway, users and notification: proxying, reads, an ignored answer.
* Two experiments at once on one machine: they would share directories, project names
  and ports, and nothing in the code keeps them apart.
* Which bytes the tests and the source index read: both use the directory as it is,
  not the captured tree.

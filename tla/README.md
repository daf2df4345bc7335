# Emithran: TLA+ models and proofs

Emithran is a manufacturing-cost platform: a NestJS backend (`backend/`), a Next.js
client (`app/`, `components/`, `lib/`), a Rust "assembly core" (`core/`), Python and C++
geometry engines (`cad-engine/`, `ecad-engine/`), and a Supabase database whose SQL
functions (`backend/migrations/`) are part of the program. Most of it is formulas and
forms. What is hard to test is the work that goes on behind the requests: uploads that
several programs take turns at through one table, with retries, crashes and time windows,
and budgets and slots that several requests share. That is what is modelled here.

* [Inventory](#inventory): the system's parts, and what makes each correct
* [Modules](#modules): which module models what, and how state and actions correspond
* [Faults](#faults), [Bounds](#bounds), [Fairness](#fairness)
* [Runs](#runs): what each configuration shows
* [Proofs](#proofs): what holds for every value of the constants, and why
* [Where the code and its documentation part](#where-the-code-and-its-documentation-part)
* [What is not modelled](#what-is-not-modelled), [Plan](#plan)

To check: `tlc -config <X>.cfg <M>`, with `M` one of `MCCadPipeline`, `MCCasting`,
`MCElectronics`, `MCSignedIn` and `MCInProcess` as [Runs](#runs) says, and `tlapm <X>.tla` for
`CadPipelineTypes`, `CadPipelineSafety`, `CastingProofs`, `ElectronicsProofs`,
`AiBudgetProofs`, `InProcessProofs`, `SessionsProofs` and `ScenarioApplyProofs`.

## Inventory

### 1. CAD uploads (modelled)

A user uploads a ZIP or STEP file to a BOM; minutes later the BOM holds one item per line
of the assembly. Four parties take part, and meet only in the database and the store:

| part | code | state of its own | operations |
|---|---|---|---|
| the table | migrations 917, 918, 923, 951, 954 | `cad_uploads` (status, attempts, materialize_attempts, started_at, source_deleted_at, created_item_ids), `bom_items` | the two claims, `cad_runner_mark_analysed`, `cad_runner_mark_failed`, updates by id, pruning |
| object store | Supabase storage | originals by (organization, sha256); part files by upload | put, get, remove |
| Rust runner | `core/crates/runner/src/job.rs` | the attempt under way | claim, download, analyse, store parts, mark analysed, clean up, mark failed |
| backend runner | `cad-upload-runner.ts` | the attempt under way | claim, remove the items of an earlier attempt, create items, mark done, fail, remove parts and original, hourly maintenance |
| upload requests | `cad-uploads.service.ts` | what the request has read | find, check for a repeat, store the original, insert, requeue |
| users | `bom-items` | - | delete imported items |

Status moves `queued -> running -> analysed -> materializing -> done`, with `failed` from
any step; without the Rust core (`CAD_CORE`), the backend does it all and the two middle
statuses do not occur. A claim is `SELECT ... FOR UPDATE SKIP LOCKED`; it takes queued rows
and rows whose attempt began more than 15 minutes ago, and fails those among the latter
that have no attempt left.

*Hard*: any process may die between any two calls; a call may take effect and its answer be
lost; an attempt may outlive its window; two requests may come together; housekeeping and
requests may meet an attempt; one of several removals may fail.

*Correct when*: one attempt at a time; attempts are bounded in each half; an upload waiting
to be materialized has its parts; the original is there as long as someone may need it;
`done` means that each line is in the BOM exactly once and no leftover is; a repeated
request never disturbs an upload in progress; every accepted upload ends; the life of a row
follows the migration's diagram.

### 2. AI budget and sessions (modelled)

`AiBudgetService` is the one way to the language model. State: daily token totals in
`ai_usage_daily` (per user, organization and for the deployment), a count of running
requests per user in the process, and an `AiSession` per request. Operations: `open`
(slot, then budget check), a check before every call but the first, `record` after it,
`close`. *Hard*: check and spending are apart in time and shared by concurrent requests;
three limits at once; every way out must free the slot exactly once; midnight; restarts.
*Correct when*: recorded totals exceed their limits by at most a call per running request;
a user never has more than the permitted number of requests running; slots do not leak.

### 3. Casting analyses (modelled)

`sand-casting/`: a user asks for the casting analysis of a BOM item; a second queue,
`casting_analyses` (migration 955), keeps one row per item, file and configuration. State:
the table, `bom_items.file_3d_path`, the meshes in the store under the `output_prefix` of a
row, and in each backend the loop (`busy`, `wakeRequested`) and the attempt under way.
Operations: `start()` finds the row of an item, moves it to a new path of the same bytes,
queues a failed one again, adopts the finished row of a twin, or inserts; the runner claims,
reads the file, adopts or analyses, stores and records; the retention deletes old rows and
the files none of the remaining rows point at. *Hard*: superseded attempts, two retries at
once, adoption against retention, a wake at the end of a drain. *Correct when*: a finished
row has its files; a result is neither rewritten nor worked out again; attempts are bounded;
a queued row is worked on at once, or behind an older one's retry; every analysis ends.

### 4. Electronics uploads and the job queue (modelled, parse jobs)

`electronics-costing/`: designs with revisions, each a set of input files in the store;
`job_queue` (migration 920), whose adapter runs a loop per process that claims, runs the
handler, records, sleeps, and stops in order. Operations: send files (a new revision, or
the one that exists), read them again, delete a design; the handler sets `parsing`, reads,
stores the feature graph, and sets `review` or `failed`. *Hard*: two requests for the same
files, a delete meanwhile, calls that fail in between, a wake lost between an empty claim and
the sleep, a stop in the middle of a job, a job that runs twice. *Correct when*: attempts are
bounded, an end is final, jobs end; an upload keeps its files and nothing else is left in
the store; its status says how its jobs ended, and what is said to be read is.

### 5. Tick loop of the runners (modelled)

`tick` and `wake` of the casting runner are part of `CastingRunner`. Those of the CAD runner
(`cad-upload-runner.ts:119-143`) differ: the loop goes on after a retry, looks at
`wakeRequested` again before it ends, and is followed by `maintain()`. State: `busy`,
`wakeRequested`, and the claim under way, per process. *Hard*: a wake while the last claim
comes back empty, a row taken by another process, a claim that throws, a crash. *Correct
when*: a drain never ends over an upload its process was woken for.

### 6. Circuit breaker (modelled)

`common/resilience/circuit-breaker.ts`: closed, open, half-open with a single trial, for
calls to the Python engines. State: `state`, `failures`, `openedAt`, `trialInFlight`. *Hard*:
calls that straddle a change of state. *Correct when*: it is open exactly after a threshold
of failures in a row; one trial at a time; it does not stay open over an engine that is up.

### 7. Scenario application (modelled)

`scenario-application.service.ts`: an engineer stages a scenario (grade, volume, location,
route) and applies it to a BOM item. It is a saga: `begin_scenario_application` takes the
item (migration 969), then come the item's fields, its overrides, the material cost record,
the route (one transaction), the mold, the machines, and the state `applied` with the next
revision; `fail()` otherwise. *Hard*: failure at any step, crash, a lost answer, an apply
that runs on past its window, two engineers. *Correct when*: applies do not interleave; what
is applied is whole and from one scenario; no cost record is duplicated.

### 8. Session inactivity (modelled)

Two halves that reckon apart: `common/session/` stores the last activity and the last
heartbeat of a protected job, caches them per instance, and rejects a session past its
deadline; `lib/auth/session-idle/` counts down in every tab over one `localStorage`, sends
heartbeats, warns and signs out. `assertActive()`, in the guard of every request, and
`recordActivity()`, for heartbeats, each take their own time, and awaits separate the time, the
reading of the row, the unconditional upsert and the caching of what came back. *Hard*: calls
that straddle the deadline, upserts of several instances out of order, caches, several tabs,
lost heartbeats, a tab that sleeps. *Correct when*: what is past its deadline, with no earlier
call under way, stays rejected; no call passes at a time that nothing recorded pays for; input
that was reported has arrived or will be sent again; the server does not end what the browser
still counts down.

### 9. Heavy-work slots and workers (modelled)

`common/heavy-work/heavy-work.ts`: workbooks and archives are read in worker threads, each
with its own heap and a deadline. A request takes a slot of the process and of its tenant
first, or is refused; the CAD runner's unpacking takes none. State: `running`, `perTenant`,
and per parse whether its promise is settled and its thread alive. *Hard*: a worker ends by
result, error, exit or deadline, whichever comes first; its thread ends later. *Correct
when*: the counts are those of who holds a slot, within the limits; slots come back.

`core/crates/runner/src/host.rs` has state too and is not modelled: it serves one connection
at a time, with no timeout on reading a request (line 52), so a client that stays connected
without sending holds up every job.

### 10. Everything else (not modelled)

Costing, calculators, materials, should-cost, planning, quality, suppliers, RFQ:
formulas over floating-point numbers and reference tables, or create/read/update/delete
under row-level security, one request at a time. Engines, archive and nesting crates: pure
computation. Guards and authorization: evaluated per request, no state. Client: views.
`PROJECT.json` lists them with the reasons.

## Modules

```
UploadStore ----+-- CadRunner -------+
                +-- BackendRunner ---+-- CadPipeline -- MCCadPipeline
                +-- UploadApi -------+       |  \
                                             |   CadPipelineTypes -- CadPipelineSafety
                              UploadLifecycle (INSTANCE, refinement)

CastingTable -- CastingRunner -- CastingRequests -- CastingRetention -- Casting -- MCCasting
                                                                            \-- CastingProofs

JobQueue -- Designs -- ParseJob -- Electronics -- MCElectronics --+
                                   |    \------- ElectronicsProofs +-- MCSignedIn
                             JobLifecycle (INSTANCE, refinement)   |
Sessions ----------------------------------------------------------+
        \-- SessionsProofs

AiBudget ------+                        AiBudget -- AiBudgetProofs --+
Breaker -------+                        Breaker, HeavyWork, CadTicks +-- InProcessProofs
ScenarioApply -+-- MCInProcess          ScenarioApply -- ScenarioApplyProofs
HeavyWork -----+
CadTicks ------+
```

**UploadStore** - the shared state. `row[u]` is the row of `cad_uploads` for upload `u`,
where an upload is a pair (bom_id, sha256) and the row may not exist (`none`). `attempts`
and `tries` are `attempts` and `materialize_attempts`; `stale` says that `started_at` has
fallen out of the claim's window; `gone` is `source_deleted_at IS NOT NULL`; `created` is
`created_item_ids`; `after` keeps `ORDER BY created_at`. `bom` holds the items that came
from uploads, `parts[u]` the part files stored, `source` the originals stored, which
uploads may share (`SourceOf`), as the path has no BOM in it. Each SQL function is one
transaction on one row and is one operator: `ClaimNextCadUpload`, with its sweep of
exhausted rows (`RunExhausted`, `SweepCadUploads`), `ClaimNextAnalysedUpload`,
`MarkAnalysed`, `MarkFailed`; the backend's unconditional updates are `SetStatus`,
`SaveCreated`, `StampSource`. A row-locked row is skipped by a claim; as a claim is one
transaction that is what `ClaimNext...` being atomic says.

**CadRunner** - `run_once` and `process` of `job.rs`. `run[w]` is the attempt of runner
`w`: its place, the attempt number and `source_deleted_at` as claimed, the parts stored,
and the retry decision. One action per awaited call: `RunnerClaims`, `Download`, `Analyse`
(unzip, worker, parse, `domain::verify`: one outcome, permanent or not), `StorePart`,
`PartNotReturned`, `FinishAnalysed`, `CleanPart`, `EndCleanup`, `FinishFailed`.

**BackendRunner** - `CadUploadRunner`. `job[b]` likewise, with the item ids in hand and the
lines still to create. `JobClaims` claims from the first or the second queue as `RustCore`
says; `RemoveItem` and `ForgetItems` undo an earlier attempt (`deleteItemsForUpload`, then
`created_item_ids = {}`) or, as `undoing`, the items of this one; `Load`, `CreateItem`,
`RecordItem` (the list is saved after each item), `FinishDone`, `Fail`, then after `done`
`RemoveParts`, `RemoveSource`, `RecordRemoval`; `Maintain` starts the hourly removal of the
originals of failed uploads.

**UploadApi** - `storeAndQueue`: `Find`, `Judge` (= `isRepeat`), `CheckItems` (=
`anyItemLeft`), `Put`, `Insert` (the unique index lets one through), `FindRaced`,
`Requeue`. What a request has read is kept in `req[r]` and stays as it was read.

**CadPipeline** - composes these, says who takes which step, adds housekeeping, users,
passing time and crashes, and states the properties.

**UploadLifecycle** - the abstract specification: what someone who polls a row's status may
rely on. `CadPipeline` implements it (`KeepsLifecycle`) with the phase read off the status
and the used attempts read off the two counters. The refinement is of safety only, the end of
an upload is `Settles`.

**CadTicks** - the loop around `JobClaims`. `tick[b]` is where a process is (`asleep`, about
to `claim`, at `work`, its claim come back `empty`, in `maintain`) and its `wakeRequested`;
`arrival[u]` is a request that queues an upload, how far it is and what has become of its row.
That `empty` is a state of its own, as in `CastingRunner`, is what a row can be queued in.
`Woken` is `wake()`; `PollTick` the poll; `ClaimThrows` a claim that fails, with or without
effect, which ends the tick past `maintain()`; `LeaveDrain` the condition of the outer loop;
`RowStale` the window. It is the deployment without the Rust core: with it the claims are of
analysed uploads, and nothing wakes the backend for these.

**AiBudget** - `req[r]` is a request with its `AiSession`: `fresh` is `budgetChecked`,
`closed` is `closed`; `running` is the service's map (absent is 0); `used[s]` is the total
that `ai_usage_today` returns for a user, an organization or the deployment. `Open` is
`open()` to its await, `Opened` and `NotOpened` what follows; `BeforeCall`, `CallAllowed`,
`CallRefused`, `CallEnds` a model call with its check and its record; `Finish`, `Close`,
`Leave` the ways out, with the two `close()` of the copilot. `NewDay` is midnight UTC,
`Restart` a restart of the one backend process.

**CastingTable** - `analysis[a]` is a row: its item, `path`, `status`, `attempts`, the row
whose files it points at (`prefix`), `stale` and `old` for the two windows that matter, and
`after` for the order of creation. `file[i]` is the item's file; two paths may hold the same
bytes (`ContentsOf`). `ClaimNext` is `claim_next_casting_analysis` with its sweep. Statuses
`partial` and `succeeded` are one here: nothing tells them apart but the page.

**CastingRunner** - `runner[b]`: `idle`, `drain` (about to claim), `empty` (the claim found
nothing, and the loop has not yet read `wakeRequested`) or at one of the awaits of `process`;
`wake` is `wakeRequested`. That `FindEmpty` is a step after `Claim` is what gives a request
the time to queue a row in between. `LookForTwin` is `finishedTwin` with the row as read;
`Save` is both endings, `adopt` and the update where `status = 'running'`; `Fail` likewise
writes only a running row. `Woken`, `EndDrain` and `Poll` are `wake`, the `do ... while`
and the timer of `tick`.

**CastingRequests** - `start()` and `queueOrReuse()` call by call: `Find`, `Move`, `Requeue`,
`FindTwin`, `Insert` (against the unique key), `FindRaced`. A request that queued a row goes on
to `Wake` its process's runner in a later step: what happens between the two is that the row
waits and the runner has not been told.

**CastingRetention** - `run()`: `Select`, `ReadItems`, `Prunable`, `DeleteRows`, `Count` per
prefix, `RemoveTree`. **Casting** composes the four and states the properties.

**JobQueue** - `job[j]` is a row of `job_queue`; `loop[b]` a loop of the adapter: `head`
(about to claim or to leave), the handler's places, `write`, `asleep`, and whether it is
stopping. `Claim` is `claim_next_job` with its sweep, `Recorded` is `complete_job` and
`fail_job`, `Enqueued` is `enqueue()` with its wake.

**Designs** - one design, its revisions by input hash, `upload[u]` a row of `ecad_uploads`
with its status, the `files` in the store, `known` the uploads with a row in
`electronics_jobs`. A request is named by the upload it would make. Its steps are those of
`StartUpload`, `ReparseUpload` and `DeleteDesign`, one per call: a delete reads the revisions
(`Revisions`, `ReadRevisions`) and then the uploads of those it has read (`ListUploads`).

**ParseJob** - the handler: `Get`, `SetParsing`, `ReadFiles`, `InsertGraph`, `SetReview`,
`SetFailed`. **Electronics** composes and states the properties.

**JobLifecycle** - the abstract specification of a job: begun at most `MaxAttempts` times, given
up only then, and final when it has ended. `Electronics` implements it (`KeepsJobLife`), with
the rows read off `job`.

**Breaker** - the fields of `CircuitBreaker`; `waited` says that `openMs` has gone by, so that
`CurrentState` is `currentState()`. `work[c]` is a call: the `state` it read before its await,
and whether the engine was down at some time since.

**Sessions** - one session on a clock of ticks. Server: `stored` is the row, `cache[i]` what
an instance remembers, `calls[x]` a request of a tab at one of its awaits, with the time `at`
that `assertActive` or `recordActivity` took when it began and the `row` that the table
answered. A request arrives (`Arrive`), is let through by the cache or reads the row
(`ReadTimes`, which makes the first one with `FirstWrite`), and is judged by what it read and
by its time (`Decide`). A heartbeat that passed takes its own time (`Stamp`), upserts its
column whatever is there (`RecordActivity`) and caches what came back (`Remember`). Calls of
the scene's `slow` ones may take any number of ticks between any of these steps. `earned` is
no variable of the code: the latest times the row ever had, for the properties to speak of.
Browser: `shown` and `beats` are the fields of `localStorage`, `tab[t]` a controller.

**ScenarioApply** - one item. `applied` is `appliedScenario`; `fields`, `costs.material`,
`costs.route`, `costs.tools` are what the saga writes, each tagged with the scenario it was
computed from (`Basis`); `apply[a]` is an apply at one of its awaits, with what it has read.

**HeavyWork** - `parse[p]` is a parse of a request or an unpacking of the CAD runner: `reading`
while the promise of `runInWorker` is pending, `using` what was read, and its `thread`, which
runs on after it was `told` to end. `inFlight` and `share` are the two counts. `Answer`,
`Deadline` and `ThreadEnds` are the ways a worker ends, `GiveBack` the `finally` block of
`withHeavyWorkSlot`. A refused request changes nothing and is no step.

**MCInProcess** - five parts that share nothing but the backend process. `active` says
which of them moves in a behaviour; the others rest in one of their initial states, so one
configuration checks all five without the product of their states. **MCSignedIn** does the
same for a session and the uploads of electronics.

**CadPipelineTypes, CadPipelineSafety, CastingProofs, ElectronicsProofs, AiBudgetProofs,
InProcessProofs, SessionsProofs, ScenarioApplyProofs** - the theorems.

## Faults

A run of the pipeline says in `Faults` what may go wrong. The set separates what the code
handles from what it does not, so that a property that needs a fault to be absent says so
and a run shows what the fault does.

| fault | meaning |
|---|---|
| `error` | a call fails without effect |
| `short` | the worker's answer leaves out a part |
| `crash` | a process dies between two steps and starts again |
| `unsaved` | the update to `done` fails |
| `unrecorded` | a process dies with an item its row does not list |
| `undeleted` | the delete of an item fails, which is only logged |
| `unstamped` | an original is removed but `source_deleted_at` is not set |
| `abandoned` | a failed row is pruned while items of it are in the BOM |
| `early` | a user deletes an item of an upload that is not done |
| `lost` | a call takes effect but its answer is lost |
| `outlive` | an attempt is still at work when its window is over |
| `overlap` | requests, housekeeping and the removals after `done` do not take turns |

Castings and electronics run several *scenarios* in one configuration: each names its
faults and has the processes and requests those need, and one is chosen at the start.

| part | scenario | may go wrong |
|---|---|---|
| castings | Faulty | calls fail, a backend dies (`error`, `crash`) |
| | TwoBackends | nothing: two loops, two requests |
| | Replaced | an item's file is replaced, or the item deleted |
| | Outliving | an attempt outlives its window; crashes (`outlive`) |
| | Doubled | three requests for one item are handled at once, one loop (`double`) |
| | Overlapping | the retention of one item's rows runs meanwhile (`overlap`) |
| electronics | Faulty | `error`, `crash` |
| | Lossy | a call takes effect and its answer is lost (`lost`) |
| | Outliving | `outlive`, with two processes |
| | Stopping | processes are stopped in order and replaced (`stop`) |
| | Rereading | nothing: an upload is read again, twice |
| | Deleting | nothing: the design is deleted and sent again |
| | Overlapping | requests are handled during a delete (`overlap`) |
| sessions | Working, TwoTabs | nothing: protected flows in one tab; two tabs |
| | Offline, Asleep | a heartbeat or its answer is lost; a tab is not ticked |
| | LatePage | a request of a page outlasts ticks, between two instances |
| | LateBeat | a heartbeat of input outlasts ticks, or is lost |
| scenarios | `crash`, `lost` | the backend restarts; a write takes effect and its caller gets an error |
| | `unconfirmed`, `outlive` | the last write does; an apply runs past 900 s. Nothing is claimed of these two (see below) |

In every scenario of an apply any step may fail.

## Bounds

* `Uploads`, `Runners`, `Backends`, `Requests`, `Parts`, `Lines`: one or two of each
  (three requests in `import_once`, whose interchangeable runners and backends are taken
  up to symmetry). Races are between two parties; two parts and two
  lines make a half-done attempt differ from both ends.
* `MaxAttempts` is 2 where the code has 3: a first attempt, and a last one. The proofs are
  for every value. Castings have the code's 3, since a retry that is followed by another one
  matters there (see `FreshStarts` below).
* `Requests` are made once each, which bounds how often an upload is restarted.
* `Items` is a pool of ids reused when free (`NewId`), large enough never to run out:
  the database never repeats one, and reuse is only of ids nobody holds.
* Users delete items of finished uploads, and with `early` of any (`UserDeletes`): the theorems
  on items exclude it, since a user may take out what an import has just put in.
* `Casting`: two rows, two items with the same bytes at first, three paths. Each scenario says
  which items its requests may be for, which items' files may change and whether rows grow old
  (`asks`, `changing`, `aging`).
  `Electronics`: three requests, each of which would make an upload, and three jobs; two
  different contents.
* `AiBudget`: two calls per request (`MAX_TOOL_ITERATIONS` is 5), a call costs at most
  `MaxTokens` = 1, budgets of 1 and 2, two slots, three requests of one user and one of
  another. Requests are reused. `MaxTokens` exists in the code as `max_tokens` and the
  model's context.
* `Sessions`: an idle timeout of 3 ticks, a warning 1 before it, an extension of 1 for a
  job, heartbeats every tick, up to tick `LastTime` = 5, the extended deadline of a
  session without input after its first tick. A call that is not `slow`
  ends in the tick it began in. `slow` calls are of one kind to a scene, which keeps the run
  small; the theorems have no such limit. The clock is one: the times of two instances differ
  by less than the minutes that are compared.
* `HeavyWork`: three parses, two of one tenant, with two slots and a share of one; two
  unpackings, as a thread of the first may still be there when the second begins. `CadTicks`:
  two processes, each with a request.
* `Breaker`: a threshold of 2, three calls. `ScenarioApply`: two engineers, up to revision 2,
  one scenario that needs a mold and one that does not.

`MaxJobs`, `LastTime` and `MaxRevision` are guards of the model. The next-state relations
have no other bound; the counters are bounded by the guards of
the code itself, which is part of what is checked.

## Fairness

* `WF(CadRunnerStep(w))`, `WF(BackendStep(b))`: both runners poll for ever, and every call
  they await ends, by its answer or by a timeout.
* `SF(BackendClaims(b))`: a tick claims first and maintains afterwards (`tick`, at most
  hourly), so maintenance, which makes the runner busy again and again, cannot keep it from
  claiming. Weak fairness would allow that, as the claim is disabled in between.
* `WF(RequestRuns(r))`: a request that came is answered or fails.
* `WF(TimePasses(u))`: time passes. It is what makes an abandoned attempt stale.
* No fairness for crashes, failures, new requests, users or housekeeping. A fault that may
  happen at every try, such as `error`, need not stop happening: `Settles` holds because
  the attempts run out.
* `AiBudget`: `WF(Step(r))`, since model calls have a 60 s timeout and database calls end.
  Nothing makes midnight come or a request arrive.

* `Casting`: `WF` for each step of a runner and of a retention pass that has begun, and for
  the passing of time; `SF` for a claim, since not every claim fails and passes of the
  retention are six hours apart. `Electronics`: `WF` for loops, requests, and the time that
  makes a retry due; `SF` for some process's claim, since not every process is stopped
  before it claims.
* `Breaker`: calls end and keep coming (`WF`), and time goes by. The engine need not stay
  up; `BreakerRecovers` speaks of the behaviours in which it does.
* `HeavyWork`: a deadline comes (`setTimeout`), and the caller of a parse that has settled goes
  on to its `finally` block (`WF`). A worker need not answer, nor its thread end.

Deadlock is not checked, as the systems may really rest: requests are made once each, a
session's clock stops at its last tick, a scenario has a last revision. The liveness
properties cover what a deadlock would mean.

## Runs

| run | module | shows |
|---|---|---|
| `import_once` | MCCadPipeline | through two Rust runners, two backends and three requests, with `error`, `short`, `unsaved` and `crash`, an upload is imported whole and once (`DoneTreeWhole`), no item escapes its row (`ItemsAccounted`), the original stays while it is needed (`SourceKept`), one attempt runs at a time and attempts are bounded (`OneAttempt`, `AttemptsBounded`), an analysed upload has its parts, a request does not interrupt work (`NeverInterrupted`), the lifecycle is kept |
| `python_core` | | without the Rust core, all faults: an upload ends, and attempts beyond the limit are one for each further process (`OverrunBounded`) |
| `every_fault` | | all faults: whatever goes wrong, an upload ends (`Settles`) |
| `lost_answer` | | `lost`: violates `AnalysedHasParts` |
| `outlived_done` | | `error`, `outlive`: violates `DoneIsFinal` |
| `shared_original` | | no fault: violates `SourceKept` with two uploads of one original |
| `casting` | MCCasting | a finished analysis keeps its files (`ResultKeptByPass`) and its result (`ResultFinal`), attempts are bounded, a request leaves a runner at work or its row waits behind an older one's retry (`FreshStarts`), every analysis ends (`AnalysisEnds`) |
| `signed_in` | MCSignedIn | electronics: a job's attempts are bounded and its end final (`KeepsJobLife`), jobs end, a stop leaves no job behind (`CleanStop`), uploads and files match (`UploadFilesKept`, `NoStrayFiles`), the status tells the truth (`StatusTruthful`, `ReadingHasJob`). Sessions: what has ended stays ended (`EndsForGood`), no call passes later than what was recorded allows (`PassesInTime`), input is reported (`InputReported`), the server outlasts the countdown (`ServerOutlasts`) |
| `late_heartbeat` | | a heartbeat that straddles the deadline: violates `NeverRevived` |
| `stuck_reading` | MCElectronics | `error`, `crash`: violates `NeverStuck` |
| `in_process` | MCInProcess | AI budget: bounded overspend, slots held and freed. Breaker: `OpenAfterFailures`, `OneTrial`, `BreakerRecovers`. Scenario: `AppliesAlone`, `AppliedIsWhole`, `NoDuplicates`. Parses: `ParsesBounded`, `SlotsComeBack`. CAD loop: `DrainsHeard` |
| `spare_workers` | | violates `WorkersInBudget` |

`every_fault` and the violations of the pipeline use one part and one line. `signed_in` has
six hundred thousand states and takes three minutes, `casting` nearly four hundred thousand and
as long; the others take a minute or so at most. The eight properties of `import_once` are
theorems for every set of faults that `Orderly` and their other hypotheses permit, `unrecorded`,
`undeleted`, `unstamped`, `abandoned` and `early` among them where they may be; the run has the
faults with which all eight hold, and `every_fault` fires the others. A property that holds only without some fault names the fault
in its antecedent; the same run has scenarios with and without it.

## Proofs

The theorems hold for any number of uploads, processes, requests, parts, lines and
attempts.

**`CadPipelineTypes`**: with any faults, `TypeCorrect` and `OverrunIsBounded`. The types are
inductive. The bound is not: a claim takes a row that waits whatever its attempts, so what
must be bounded is how often a row can still be put back to wait. `OverrunInv` counts, once an
upload has been begun `MaxAttempts` times, the attempts begun, the attempts under way that were
claimed below the limit and may yet ask for another (`YoungRuns`, `YoungImports`), and the row
itself if it waits: together they stay below `MaxAttempts` plus the processes of that half. A
claim at the limit takes the row that waited and makes no young attempt; a retry uses up the
young attempt that makes it; the claim that reaches the limit is made by a process that is not
young. The sum is over the runners of the half (`Analysers`: without the Rust core the
backends do it too), and TLC finds states that meet it with equality, so no less can be said.

**`CadPipelineSafety`**: under `Orderly` - no answer is lost, no attempt outlives its
window, nothing overlaps; crashes and every failing call are allowed - `SafetyInv` is
invariant, and from it `OneAttemptAtATime`, `AttemptsAreBounded` and `AnalysedIsStored`.
Neither of the three is inductive: that a runner is alone on its upload is kept by a claim
only if the row of every attempt under way is neither waiting nor stale (`RunsOwn`,
`JobsOwn`); that in turn is kept by requests and by the removals after `done` only if they
meet rows at rest (`RequestsAlone`, `TidiedAtRest`). The number of attempts is bounded
because only an attempt below the limit puts its row back, and each attempt knows the
number its row has (`RunsOwn` again, `CountsBelow`, `RetriesBelow`). The parts of an
analysed upload are kept because no cleanup of an earlier attempt is still under way
(`PartsKept`, with `OneAttempt`).

`SafetyInv` speaks of pairs of processes; the proof regroups it by upload (`SettledAt(u)`)
and splits each step in two: the upload the step is about, and the others, whose row and
people are the same as before. A step either leaves an upload's row and people (`GoesOn`,
`SameRow`), or leaves it with nobody at work (`Free`), or is a claim or a find that meets
it free.

From the same invariant follow an action property and the refinement, by way of what a step
does to a row (`Follows`): it is claimed (`Claimed`), an attempt on it ends (`Ended`), it is
asked for or pruned (`Renewed`), or its status and its counts stay. `WorkIsNotInterrupted`
reads off that no upload in work goes back to the start of the queue with fewer attempts.
`PipelineKeepsLifecycle` shows that each of the four is a step of `UploadLifecycle` of that
upload, or leaves it alone. It has one hypothesis more, `OneAnalyser`: without the Rust core no
Rust runner runs ("Exactly one analyser may run for a deployment", `docs/ASSEMBLY_CORE.md:18`).
With both, a Rust runner hands over an upload to backends that never look for one.

On top of `SafetyInv`, two more invariants, for what an import leaves in the BOM and for the
originals:

* `ItemsInv` gives `ItemsAreAccounted` and the action property `DoneTreesAreWhole`, under
  `ItemsTracked` (no `unrecorded`, `undeleted`, `abandoned`, `early`) as well. That the row or the
  attempt knows of each item is not inductive: a retry forgets the row's list, and may do so
  only because it has removed all that was on it. `InHand` says at each step of an attempt
  what there is: nothing beyond the ids still to remove, then nothing, then exactly the
  items made, one for each line that is no longer to do. An attempt is alone on its upload
  (`SafetyInv`), so nobody makes others; and since items are removed by id, an id must never
  belong to two uploads, which `IdsApart` keeps through deletes, new ids and pruned rows. An
  upload becomes `done` in one step only (`BecomesDone`), with no line left to do.
* `SourceInv` gives `SourceIsKept`, under `SourcesApart` (each upload has its own original)
  and without `unstamped`. What must be added is who counts on an original: a request that
  will insert or queue again without storing it has put it, or has read from a row
  that it is there, and no removal has come in between; and an original that is gone while its
  row does not say so is one whose removal a backend is about to record (`Stamping`). Both
  hypotheses are needed: `shared_original` violates the property without the first, and
  `unstamped` is the step that removes an original and dies before it says so.

Each hypothesis of `Orderly` is needed. When any one of `lost`, `outlive` and `overlap` joins
the faults it allows, TLC violates `OneAttempt`, `AttemptsBounded`, `AnalysedHasParts`,
`ItemsAccounted`, `SourceKept`, `DoneTreeWhole`, `NeverInterrupted` and `KeepsLifecycle`
(`overlap` takes three requests for most of them); what holds with them is `OverrunBounded`, and
`Settles`.

TLC checked both invariants on the instance of `import_once`, and on one without the Rust core,
before they were proved. They say more than the properties the runs check, so no run repeats them.

**`AiBudgetProofs`**: `BudgetInv`, and from it `SlotsAreHeld` and `OverspendIsBounded`.
The bound on a total is not inductive, since a call adds to it after the check that
permitted it. `Headroom` pays in advance: a total plus the highest price of every call whose
check has passed stays below the limit plus that price for every request that may be
running. A check passes only below the limit, and at that moment all the others that have
passed are at most one fewer than may be running. For a user the number that may be running
is the number of slots, which is why slots (`SlotsHeld`) come first.

**`InProcessProofs`**, for three parts of a process:

* The breaker, for any number of calls and any threshold: `BreakerTypeCorrect`,
  `OneTrialAtATime` and `OpensAfterFailures`, from their conjunction `BreakerInv`. None is
  inductive alone: that a second trial cannot start rests on the flag being up exactly while
  a trial is under way, and that a call which is no trial leaves the flag alone rests on
  `Settled`, the `finally` block that clears it only for the call that set it.
* The heavy parses, for any limits, tenants and numbers of parses: `HeavyTypeCorrect` and
  `ParsesAreBounded`, from `HeavyInv`. The counts equal the numbers of those who hold a slot
  (`SlotsCounted`), each step adding or removing one of them, by the lemma on cardinalities
  of `AiBudgetProofs`; so no count falls below zero, which the types need. That the threads
  that read are few follows from whose they are (`ThreadsOwned`): one that nobody has told to
  end belongs to a parse that holds a slot, or to the one unpacking under way. Threads that
  were told to end are not counted: of these there is no bound (`spare_workers`).
* The loop of the CAD runner, for any processes and uploads: `TicksTypeCorrect` and the action
  property `DrainsAreHeard`, from `TicksInvariant`. What must be added is `WakesRemembered`:
  once a claim came back empty, an unclaimed row the loop was woken for came after it, and
  its wake is remembered. A row is queued before its wake, so a row whose wake came before
  the empty claim was there to be found - or was taken, by whichever process.

**`ElectronicsProofs`**: for any number of processes, jobs, uploads and requests and with any
faults, `ElectronicsTypeCorrect`, `AttemptsOfJobsBounded` and `EndOfJobIsFinal`. The types
are not inductive: a handler writes the upload its job names, so they need that whoever
handles has a job, and whoever queues has an upload (`Typed`). The bound on attempts then
rests on rows alone: the claim takes a row below the limit, or one that waits, and only a row
below the limit goes back to waiting - whichever attempt reports it, late or not. No step but
a claim, a record or the passing of time touches a row (`OneRow`), and none of these touches
one that has ended. `RowMoves` says what each of them makes of a row, and so
`JobsLiveAsPromised`: the whole system, with any faults, implements `JobLifecycle`
(`KeepsJobLife`); a claim is several of its steps at once, as its sweep gives up other jobs.

`ElectronicsInv` adds five parts, each under the faults it stands, and from it come
`StopsAreClean`, `UploadsHaveFiles`, `FilesHaveUploads`, `ReadingHasReader` and
`StatusTellsTheTruth`:

* `QueueInv`: a loop holds a job only while it handles or records one; without `outlive` the
  job is running, not stale and nobody else's, because a claim takes no other. With stops
  only, every running job is held (`Held`), since a stop ends no loop that holds one.
* `ReadInv`: an upload that is said to be read has a request about to queue, a job that
  waits, or a handler that has not yet set its status. `ReadingHasJob` counts running jobs
  and attempts that only have their end to record as well, and is not inductive: such a
  record ends the job and reads nothing. Only handlers set a status last.
* `StatusInv`: `review` or `failed` is what some job of the upload came to, or what the
  attempt under way is about to record. It needs `QueueInv`: were the job someone else's
  too, another record could contradict it.
* `FilesInv`: a request inserts its upload once, after its files. What a delete has listed
  was inserted already (`Spent`), so that after erasing it cannot come back; this is why
  overlapping deletes do no harm to the uploads that are there.
* `TidyInv` (no failures, no `overlap`): a file without an upload is one that a refused insert
  or a delete will still remove. A delete that gives up would leave its list's files behind:
  it does not, as alone it has listed all there is of what it deletes (`DeletesAlone`).

To prove them, each step is first put into one of a few kinds (`Turns` of a loop, `HandledAs`,
`Acts` of a request), and each invariant is shown kept by the kinds.

**`CastingProofs`**: for any number of items, rows, backends and requests, `CastingTypes`,
`ResultsKeptByPass`, `AttemptsOfCastingsBounded`, `FreshRowsStart` and the action property
`ResultsAreFinal`, from `CastingInv`. Its parts, each under the faults it holds with:

* `KeptInv` (no overlapping pass): whoever is about to save a prefix - a runner, a request
  that adopts a twin - holds one whose files are there, and a pass that is about to remove
  files is alone and has counted no row that points at them. Rows keep their prefix when
  they are queued again, so that the property must be said of every row, not of finished
  ones.
* `AskedInv`: a request about to queue a row again found it failed, and without `double`
  it still is. That is why a result is final.
* `HeldInv` (no `outlive`, no `double`): the row of a runner at work is as it was claimed,
  and its only one; so an attempt below the limit is the one that puts it back.
* `Overtaken`: with these faults a row may be put back by an attempt that is not its last.
  What is kept is a sum: attempts, the processes that may still put the row back, and the
  row itself if it waits, are together at most `MaxAttempts` + processes - 1 once the limit
  is reached. A claim takes one that waits, and a process that claims at the limit can no
  longer put the row back; a retry uses up the process that makes it.
* `InOrder`, `Attended`: of two rows one came first; while a row waits that was never tried, a
  request is about to wake a runner, a runner looks for rows, or works on an older one, or an
  older one was tried and waits.

**`SessionsProofs`**: for any number of tabs and instances, any timeouts that
`SessionAssumption` permits and any scene, calls that outlast ticks included: `CachesAreSafe`,
`EndedStaysEnded`, `InputIsReported` and `ServerOutlastsCountdown`, from `SessionInv`.

The row does not only move forward: two upserts, or an upsert and a first write, take effect in
either order, and a cache may hold a row that is older or newer than the table's. What is kept
(`InOrder`) is that the row, every cache and every row on its way is no later, column by column,
than the latest times recorded (`earned`); as a deadline only grows with the times
(`DeadlineMonotone`), a call that passes comes before the deadline of these (`PassesInTime`).
That a session does not come back is an invariant of its own, `Ended`: the row is past its
deadline, no cache is in the future, and no call from before is under way with a time or a row
that says otherwise (`Overdue`); each step keeps it and leaves the row. It says nothing of a
call that is still under way when the deadline passes, and cannot: `late_heartbeat`.
`InputIsReported` needs that a heartbeat's own time is no earlier than the input it
reports (`ServedInv`) and which claim is whose (`ClaimInv`: a claim not yet recorded is the one
of a heartbeat under way); calls may be slow or lost. `ServerOutlasts` has the hypothesis that
nothing is lost, slow or asleep; then the row is the latest of what was recorded (`PromptInv`),
and what is shown and not yet recorded is recent (`CalmInv`).

**`ScenarioApplyProofs`**: for any number of engineers, scenarios and revisions,
`ApplyIsAlone`, `AppliedItemIsWhole` and `NoCostTwice`, from `ApplyInv`, with failing steps,
restarts and answers lost in between. `Progress` says what the apply under way has made of
the item at each of its steps - whatever an earlier one left half-way, a record is retired
or a mold removed before the next is made - and `Alone` that the lock and the revision are
its own; so the last step meets an item that is whole.

The theorems rest on the assumptions of the constants, which say no more than the code:
limits are positive, a policy's intervals are in the order the policy file has them
(`SessionAssumption`, of which `UserBeat <= LastTime` and "there is an instance" only say
that something can happen), there is an item, and processes are finitely many.

Four properties were restated on the way, because the proof of the old form failed and TLC
then found a counterexample beyond the instance that had been checked:

* `CastingAttemptsBounded` said twice `MaxAttempts`; with three processes and two attempts
  each may add one, and with two processes the bound is lower.
* `FreshStarts` said that no row waits for its first attempt while all runners sleep. With
  the code's three attempts it may: `runNext` returns false after a retry, so the retry of
  an older row ends the drain, twice, and the new row waits for the poll. The instance
  had two attempts.
* `InputReported` said that whatever was claimed is recorded. With two tabs whose
  heartbeats are both lost, the later claim is taken back to the earlier one, which is
  claimed and will not be sent again; but it is not the last input then.
* `AttemptsTwiceBounded` said that attempts of an upload stay below twice `MaxAttempts`. With
  `MaxAttempts` = 2 and three runners whose attempts outlive their windows they reach four.
  `OverrunBounded` says what the code does bound, by the number of processes.

*Only model-checked*: liveness (`Settles`, `SlotsFreed`, `AnalysisEnds`, `JobsEnd`,
`BreakerRecovers`, `SlotsComeBack`), which like ENABLED is out of the prover's reach. Every
other property of a passing run is stated by a theorem.

## Where the code and its documentation part

Shown by runs:

* **lost_answer** - `job.rs:298` takes every error of `mark_analysed` for a failure and
  removes the parts it stored. If the function took effect, the row is `analysed` without
  parts, against `cad-upload-runner.ts:221`.
* **outlived_done** - `cad-upload-runner.ts:472` fails an upload by id alone. An attempt
  that has been superseded takes an upload from `done` back to `analysed`, against the
  diagram of migration 923, line 8.
* **shared_original** - `cad-upload-runner.ts:167` removes the original of a finished
  upload, at a path it shares with the same file in another BOM of the organization,
  against migration 918, line 37.
* **stuck_reading** - `reparse-upload.use-case.ts:20` answers "These files are already being
  read." while an upload is `uploaded` or `parsing`. A job that dies with its process as its
  last attempt is failed by the sweep, which knows nothing of uploads; a status that cannot be
  set back, or a failure between resetting it (line 22) and queueing a job, does the same.
  Nothing reads the upload then, and nothing takes it out of that status.
* **late_heartbeat** - `session-activity.service.ts:67` says that an expired session can never
  be revived, line 26 that the stored deadline of a rejected one does not move, and line 29 that
  every stored time only moves forward. `recordActivity()` upserts its own time whatever the row
  holds (line 98), an await or more after the guard let the heartbeat through. One that passed
  just before the deadline and writes after it, while another request that read the old row is
  rejected, moves the deadline of the rejected session into the future. Likewise, of two upserts
  the one with the earlier time may be the later to take effect.
* **spare_workers** - `resource-limits.ts:7` reckons with at most `HEAVY_WORK_MAX_CONCURRENT`
  workers and their heaps. Slots count requests: the CAD runner's worker has none
  (`cad-upload-runner.ts:309`), and `settle` does not await `terminate()`
  (`heavy-work.ts:96`), so that the next parse may have the slot before the thread is gone.

Seen while modelling; each is a fault of its own, so that the properties say what holds
without it:

* `unrecorded`: an item is inserted before its id is saved (`cad-upload-runner.ts:414`),
  against the comment at line 417 and migration 917, line 29.
* `unstamped`: the original is removed before that is recorded (line 168), after which a
  request does not send it again (`cad-uploads.service.ts:68`).
* `abandoned`: a row that failed while its items are in the BOM (line 245) is deleted with
  the list of them (migration 954, line 48).
* `undeleted`: a delete that fails is logged and its id then forgotten
  (`bom-items.service.ts:519`).
* `early`: a user deletes an item between its creation and `done` (`bom-items.service.ts:767`);
  the upload is done without that line, and its row lists an item that is gone.
* `short`: the early return at `job.rs:283` skips the cleanup line 305 speaks of.
* `overlap`: `requeue` is by id (`cad-uploads.service.ts:138`); a request that judged an
  upload failed resets it even if another request has set it to work since, against the
  test "does not import a file again while its upload is still being processed"
  (`cad-uploads.service.spec.ts:128`).
* `outlive`: the claim takes a queued row whatever its attempts are (migration 917, line
  63), so an attempt that outlived the last one's window adds to the limit line 45 states.

* Castings, `outlive`: the runner finishes a row where `status = 'running'`
  (`casting-analysis-runner.ts:241`), which does not tell an attempt from its successor,
  against line 229. Both work on the same bytes; what holds is `ResultFinal` and the
  bound of `CastingAttemptsBounded`, one more attempt for each further process.
* Castings, `double`: `requeue` is by id (`sand-casting.service.ts:441`), so the second of two
  retries resets a row that is being worked on or finished.
* Castings, `overlap`: the retention deletes by id what it has read
  (`casting-retention.ts:106`), and counts the rows of a prefix before it removes its files
  (line 115) while a twin is being adopted, so that a finished row can lose its files,
  against line 14.
* Electronics, `lost`: files are removed when inserting the row seems to have failed
  (`start-upload.use-case.ts:230`), though the row may be there.
* Electronics, `overlap`: an upload inserted while its design is deleted can leave files
  without a row.
* Scenarios, `unconfirmed`: when the write of `applied` (`scenario-application.service.ts:137`)
  takes effect and its answer is lost, `fail()` (line 209) takes the revision back, and may
  free the lock of the apply that came next. `outlive`: after 900 seconds a second apply takes
  over from one still at work (migration 969, line 40), and two active material records can
  result (`material-cost-snapshot.service.ts:57`). Both against the comment at line 39.

* A wake during `maintain()` or before a claim that throws (`EndTick`, `ClaimThrows`) finds the
  loop past its check of `wakeRequested`; the upload waits for the poll, against
  `cad-upload-runner.ts:22`. `DrainsHeard` is about the drains, where line 136 holds.

Seen in the code and not modelled: part files left behind when an upload fails for good in its
second half (line 246); rows left `analysed` when `CAD_CORE` is switched back (line 200); the
stop signal that is awaited only while the Rust loop sleeps (`main.rs:145`); tokens spent but
not recorded when a stream breaks before its first message (`ai-budget.service.ts:226`); a
default revision label that exists already, after a revision in the middle was deleted (`start-
upload.use-case.ts:180`).

## What is not modelled

* Contents: files, reports, names, costs. A report that does not verify is one
  nondeterministic outcome of `Analyse`; a part or a line is an element of a set.
* The host of the geometry worker. In the pipeline an idle backend may claim at any time; the
  loop that decides when is `CadTicks`, with uploads reduced to what a claim sees.
* Castings: draw directions kept on the item, a new worker version. Electronics: the queue in
  memory, quote jobs, previews, costs; labels of revisions. Sessions: a policy that changes,
  a storage that fails, a connection that breaks in the middle of a call (a lost one is lost
  before it arrives or after it was served). Scenarios: applies that name no grade, other writers of the item.
* Everything that is formulas, forms, views and row-level security: the bulk of the
  repository by lines, with no state of its own that several parties share.
* Row-level security and the service role; the functions are modelled as their callers
  with the right role see them.
* The worker, the engines and the model provider: a call that ends one way or another.
* Retries inside clients (`maxRetries` of the model client, HTTP retries of the store).
* A record of usage still on its way to the database while the backend restarts.
* `AI_DISABLED` and a missing key: refused at `open`, nothing changes.

## Plan

Done: the CAD upload pipeline with its abstract lifecycle, and the loop around it; castings;
the electronics uploads, with the abstract lifecycle of a job; the AI budget, the heavy parses,
the circuit breaker, session inactivity and scenario application: checked, and all their
safety proved, both refinements included.

What would come next: the host of the geometry worker, whose protocol is sequential;
`domain::verify` as an operator against a reference definition; quote jobs, which share the
queue and its theorems.

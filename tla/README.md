# Formal models of runpod-launcher

runpod-launcher rents GPUs at RunPod on demand: a desktop application configures
*templates* (a model, its engine and its arguments), a small service starts a pod for
a template when a person, the schedule or a client request asks for it, forwards the
requests, and stops the pod when it is idle, out of its hours or too expensive.
The service is one Node process with an SQLite file. What is hard about it is not any
one function but what happens between the awaits: a start takes minutes, and during
them people, the schedule, the reaper and RunPod itself go on acting on the same rows.

This directory holds TLA+ models of that system, the TLC runs that check them on small
instances, and theorems about them, for every size of the instance, that TLAPS checks.

    tlc -workers 2 -config pods_room.cfg MCPodLifecycle.tla      one run
    tlapm PodLifecycle_proofs.tla                                one module's proofs

Paths below are relative to `src/`; `S/` stands for `apps/service/src/`, `D/` for
`apps/desktop/src/`.


## 1. Inventory

### Components

| Component | State it keeps | Operations | What makes it correct |
|---|---|---|---|
| **Pod manager** `S/pods/manager.ts` | rows of `pods`; in memory `startInFlight` (one promise for all templates), `startedBy` (one field for all starts), `readyCache` | `start`, `stop`, `resume`, `act`, `record`, `waitUntilRunning`, `waitUntilServing`, `engineAnswers`, `running*`, `resumable` | the limit on pods at once; one pod per template; a billed pod is known; a pod written off is gone; a start settles and answers for its own template |
| **Reaper** `S/pods/reaper.ts` | none between passes; in a pass, RunPod's list and the set of running pods | `reapSupersededPods` | never terminates a live pod; gets rid of every leftover in the end |
| **RunPod client** `S/runpod/client.ts` | none | `createPod`, `getPod`, `listPods`, `podAction`, catalog and billing calls | tells the refusals apart that the manager decides by (404, 409, host GPU unavailable, no GPU) |
| **Scheduler** `S/scheduler/scheduler.ts` | the timer, `running` (no tick overlaps another), the last notification | `start`, `stop`, `preview`, `tick`, `runOnce`, `applyTo` | a decision is applied to the pod it was taken for; a failure does not starve the others; what must come down does |
| **Decision** `S/scheduler/decide.ts` | none (pure) | `decide`, `isInsideWindow`, `stoppedIdleInThisWindow`, `windowOpenedAt`, ... | the order of its rules; windows over midnight; nothing is stopped while it serves |
| **Spend** `S/scheduler/spend.ts`, `spend-report.ts` | a cache of the billing answer, the promise of a refresh, the folds made of it | `snapshot`, `report`, `refreshBilled`, `rollUp`, day slices | the limits fire neither early nor late; a failure neither hides cost nor hammers the API; the breakdowns add up |
| **Gateway** `S/gateway/*.ts` | the count of requests in flight | `resolvePod`, `proxy`, `track`, `reassemble` | a request reaches its own template's pod and nobody else's, and is answered; it wakes nothing out of hours |
| **Tokens and pairing** `S/auth/*.ts` | tokens; the pairing code with its attempts and expiry | `issue`, `assign`, `verify`, `revoke`, `delete`; `issueNewCode`, `redeem` | a code works once, in time, and for few guesses; an access ends by hand only |
| **Tables** `S/store/db.ts`, `migrate-templates.ts` | `pods`, `templates`, `tokens`, `settings`, ... | schema, data migration and repair | what old versions wrote starts a working pod |
| **Settings** `S/store/settings.ts`, `crypto.ts` | one row, secrets encrypted | `read`, `readPublic`, `update`, `secret` | an update without a secret keeps it; one that clears it clears it |
| **Admin routes** `S/admin/routes.ts` | none | the handlers of the desktop's calls | they check what they read at the time they act |
| **Pod plan** `S/pods/plan.ts` | none (pure) | `planVramSplit`, `buildPodEnv`, `renderArgs`, `argsFingerprint` | the shares of the GPU's memory fit in it; the command line is whole |
| **Model catalog** `S/models/huggingface.ts`, `packages/shared/src/{engine,vram,variants,parsers}.ts` | caches of the hub's answers | `inspect`, `evaluate`, `search`; formats, memory, builds | the size is that of the build that will be loaded |
| **Pod entry point** `pod/start-vllm.sh` | the engines' processes | start, watch, end | a server for each model, with its share of the card |
| **Desktop** `D/screens/Templates.tsx`, `D/components/ModelPicker.tsx`, `D/lib/cached.ts` | the form and its two pickers; cached views | edit, ask, save; refresh, forget | what is saved is what is shown and it runs on the card; the view comes to show what the service knows |

### How they interact

- The **admin routes**, the **scheduler** and the **gateway** all call
  `PodManager.start`; the first two call `stop`, and an administrator `act` and
  `resume`. All of them run in one process and share `startInFlight`, `startedBy` and
  the tables; none takes a lock.
- Every call of the manager to RunPod is an `await`. What ran before it was decided on
  rows that may be different after it.
- The **reaper** runs at start-up and in every tick of the scheduler, beside
  everything else.
- The **gateway**'s counter and the time of the last request are what the scheduler
  decides idleness by; the **spend** figures are what it decides limits by, and they
  are read by the desktop too.
- The **desktop** asks the service for verdicts while somebody types. What it saves is
  what the **plan** turns into a pod, perhaps months later and after the hub changed.
- The database is all that outlives a restart.

### What is hard

1. *Interleaving across awaits*: the limit is looked at once, before a start that takes
   minutes; the reaper takes a set before its loop and uses it during the loop; a poll
   writes a status that was true when RunPod answered; a tick decides on what it read
   before it asked the engine.
2. *One slot, one field*: `startInFlight` and `startedBy` serve every template.
3. *Partial failure*: RunPod carries out a call and the answer is lost; a termination
   that matters is refused and the code goes on; a stop that fails ends a tick.
4. *Crash*: the pod exists at RunPod and not in the table, or the other way round.
5. *Time*: windows, idleness, ceilings, buckets that midnight cuts, and clocks that keep
   counting over a pause.
6. *Answers out of order*: verdicts and lists that overtake each other on their way to
   a screen.
7. *Liveness*: every start waits on one promise; a leftover pod costs money until a
   pass gets to it; a request must be answered whatever becomes of its pod.

`PROJECT.json` lists each hazard at the line where it bites, with the properties that
would catch it going wrong.


## 2. The modules

| Module | What it is |
|---|---|
| `PodTable` | the pods and templates tables, and the manager's queries and updates as operators on a table value |
| `RunPod` | RunPod as the client sees it: what a call may do to a pod and answer (external to the repository) |
| `PodLifecycle` | starts, resumes, actions, polls, reaper, template routes, crash |
| `PodProperties` | its invariants, action properties and liveness properties, and the inductive invariants |
| `PodAllotment` | the abstract specification: pods are allotted to templates within a limit |
| `PodLifecycle_proofs` | theorems about it: the limit, the rows, what RunPod bills |
| `Calendar` | local time over a zone whose offset may change from one instant to the next |
| `Decide` | `decide()` and its helpers, as pure operators |
| `Scheduler`, `SchedulerProperties` | the tick and its awaits against requests, people, RunPod and the clock |
| `Scheduler_proofs` | theorems about it |
| `SpendReport` | the pure functions that fold billing records into days and pods |
| `Spend`, `SpendProperties` | the billing cache, its shared refresh, the estimate, the report |
| `Spend_proofs` | theorems about the billing cache and about the figures |
| `Access` | client tokens and the templates they are assigned to |
| `Pairing` | pairing codes, beside the management of accesses |
| `Pairing_proofs` | theorems about both |
| `Gateway` | a request from its token to its answer, waking and waiting included |
| `Gateway_proofs` | theorems about it |
| `Catalog` | what a repository offers and whether it runs on a card |
| `Plan` | from a template to the arguments and environment of a pod |
| `Editor`, `EditorProperties` | the template form, its pickers and the service behind them |
| `Sum_proofs` | lemmas about sums over finite sets, as the folds of the community modules define them |
| `Editor_proofs` | theorems about the form and about the pod its template starts |
| `CachedView` | what the desktop's screens show of one thing the service knows |
| `CachedView_proofs` | theorems about it |
| `MC...` | small instances for TLC; `access`, `gateway` and `view` need no definitions and run on `Pairing`, `Gateway` and `CachedView` |

Who uses whom:

    PodTable, RunPod ---- PodLifecycle ---- PodProperties (PodAllotment)
    Calendar ---- Decide ---- Scheduler
             \--- SpendReport ---- Spend
    Access ---- Pairing
           \--- Gateway
    Catalog ---- Plan ---- Editor
    CachedView

`Pairing` and `Gateway` compose with `Access` by extending it: the same actions on
tokens run beside pairing in the one and beside requests in the other. `PodProperties`
instantiates `PodAllotment` with a refinement mapping. The modules with theorems extend
the ones TLC checks, so that both speak of the same definitions.

### PodLifecycle

| Variable | Code |
|---|---|
| `templates` | the templates table: a template's arguments and its mode (`stopResume` or `recreate`) |
| `pods` | the pods table; a column with a time in it is modelled by whether it is set |
| `startedBy`, `starting` | the fields `startedBy` and `startInFlight` of `PodManager`; `starting.phase` is the await at which `doStart` stands |
| `callers` | those who await the start in flight, with the template each asked for |
| `waking` | a `resume()` that an administrator's request runs |
| `acts` | the calls of `act()` and the slow polls in flight |
| `reaping` | the reaper's pass: its list, its set of running pods, what is left of its loop |
| `cloud` | RunPod's pods: `none`, `running`, `hollow` (running with no GPU), `exited`, `gone` |
| `built` | the arguments a pod was created with, which only RunPod and the engine know |

What runs between two awaits is one action. An await on RunPod is two: an action whose
name ends in `AtRunpod`, which may change `cloud` and leaves an answer, and the one
that goes on with that answer. So RunPod may have acted long before the service knows,
and anything may happen in between.

| Actions | Code |
|---|---|
| `JoinStart`, `NoStartNeeded`, `BeginStart` | `start` and `doStart` up to the first await: someone else's start is in flight; the pod is up or there is no room; a start begins, by waking, discarding or creating |
| `StartAtRunpod`, `StartLookAtRunpod`, `CreateAtRunpod` | RunPod's part of `tryResume`, of the termination before a rebuild and of `createWithFallback` |
| `StartWoken`, `StartLooked`, `StartDroppedHollow`, `StartDiscarded`, `StartCreated` | what `doStart` does with the answers; each writes its row and moves on or settles |
| `BeginWake`, `WakeAtRunpod`, ... | the same for `resume`, which shares `tryResume` |
| `ActOn`, `StopTemplate`, `ActAtRunpod`, `ActAnswered` | the routes that pause and delete a pod, `stop`, and `act` |
| `Poll` | one turn of `waitUntilRunning` whose answer is used before anything else happens |
| `PollAtRunpod`, `PollAnswered` | the same turn, with an answer that may be overtaken |
| `ReapListAtRunpod`, `ReapScan`, `ReapAtRunpod`, `ReapAnswered` | the reaper's list, its loop up to a termination, the termination, and the loop from there |
| `EditTemplate`, `DeleteTemplate` | the template routes |
| `LoseAtRunpod` | RunPod stops or loses a pod of its own accord |
| `Crash` | the process ends; the tables and RunPod stay |

Abstractions: PROVISIONING, STARTING and RUNNING are `"RUNNING"`; EXITED, ERROR and
TERMINATED are `"EXITED"`: `running()` and its relatives tell no more apart (what does
is in `Scheduler` and `Gateway`). The choice among fallback GPUs inside
`createWithFallback` is one step with the outcomes it can have: a pod, no pod, or a pod
whose answer was lost. Keys, costs, names and timestamps are left out. Arguments are
model values. Readiness of the engine is in `Gateway`.

### Scheduler

`tick.phase` is where the one tick that may run stands: `each` before `podStateAsync`
of the next template, `ask` while the engine is asked, `stop` and `start` while
`pods.stop` and `pods.start` are awaited. `tick` holds what was read before those
awaits: the instant, the limit reached, the row, the last request, whether anything was
in flight. `row` is the live row of each template's pod and `paused` the `started_at` of
the one a resume would wake; a pod's `run` tells it from the one that replaces it.
`requests` are the requests counted by `gateway/inflight.ts`, from authenticated to
answered, each with the run it was sent to; `lastRequestAt` is the newest row of the usage
table, written when an answer begins: anyone's answer, RunPod's proxy giving one for an
engine that fell over and for a pod that is gone (`S/gateway/routes.ts:257`), and under
the template and the moment at which it comes, whatever run the request was sent to.
A request that gets no answer ends without a row. `spent` is the limit the figures have reached: how they come about is in
`Spend`, and here they move as they like.

Clocks show minutes: `Minute` is the number of units in one, and `windowOpenedAt` keeps
what is left of `now` within its minute, as the code keeps its seconds. A zone is a
function from instants, so that clocks may go back inside a window. `NoFlapping` is
about windows that had been open for a minute when the pod was stopped, and about stops
at which no request was unanswered; `ManualUntilUsed` about runs that began when none to
an earlier run was. What becomes of them otherwise is told in section 3.

What happens inside a start or a stop is not repeated: a start succeeds within the
limit or fails, as `PodLifecycle` shows it to. `preview`, the record of decisions and
the notification change nothing a decision reads and are left out. `rested` and the
fields `since`, `clean` and `served` of a row are history, for the properties only.

### Spend

Billing records are not kept one by one: a pod costs `Rate` for every unit it is up and
`DiskRate` for every unit it is paused, in buckets that RunPod publishes some time after
they close, so that the records of an answer follow from how far RunPod had
published and from `used`. `cache`, `inFlight` and `folded` are the tracker's fields.
`reading` holds the instant each waiting reader took before its await, which its answer
is made with. `figure` is the snapshot the last step gave.

`owned` says that a row has its `template_id` still. A template may be deleted while its
paused pod is being woken, as `currentFor` finds none then; the pod is up afterwards with
a row that has lost its template, and cannot be resumed again once it stops.

The unit of time is half a bucket, so that a zone's midnight can cut through one. Sums
are whole numbers that lengths divide, where the code has fractions.

### Gateway

A request's `phase` is the await it stands at: `probing` (is the engine there, as
nobody has asked lately), `starting` (waiting on `startInFlight`), `running`
(`waitUntilRunning`), `checking` (`waitUntilServing` and the look at the log for a
crash loop), `forwarded`. `left` counts the polls until the deadline, `checks` those
between looks at the log. `pod` is the pod it waits for and `base` the one whose
address was taken: they are looked up at different times, and may differ. Others start
and stop pods, tokens and assignments change, hours open and close between any two
steps. How a start goes about it is in `PodLifecycle`; here it fails, finds a pod or
creates one.

### Access and Pairing

A token is its row: not there, active or revoked, and its target. Secrets and their
hashes are left out. A code is the number of its issue when it was generated, and `Preset`
when it is the one of `PAIRING_CODE` (`configured`), which every start of the service
issues (`S/index.ts:57`), whatever became of it before; a renewal from the app always
generates one. `issues` is the history of them all, and a device keeps the issue it was
enrolled with.

### Catalog, Plan, Editor

A command line is a sequence of words: flags, values and holes to be filled. Sizes are
whole GiB and contexts are in units of 1024 tokens, with the factors and the rounding of
`vram.ts`. A file's name is what the code reads out of it: model, qualifier, level.
An environment is a function from names; `f ++ g` is what the spread of two objects
makes, the left coming over the right, and a model that is there has a share in it even
when the share is nothing or less, as in `buildPodEnv`.

There is one template, of which one form is open at a time. `calls[s].now` is the call of
a picker whose answer counts, `calls[s].late` one that was cancelled and whose answer is
dropped when it comes. What React's effects work out after a change, before the next
event, belongs to the change (`Changed`). `hub` may change under a form and between two
forms. `Stored` are templates that older versions wrote, which `ServiceStarts` repairs.

### CachedView

`out` are the requests on their way, in the order they were made; `entry` marks the one
in the `inFlight` map, `young` one that is not older than `SHARE_WINDOW_MS`, `awaited`
one the open screen still waits for. `Read` is the service's turn and may come in any
order; so may the answers.

### Operators introduced as mutants

An operator whose comment starts with *Mutant:* is a plausible bug in the operator that
follows it: a dropped guard, a reset that is missing, an error taken for an answer. No
specification uses one. Putting it in place of its neighbour must make TLC report the
property named with it in `PROJECT.json`, which shows that the property can fail and
that the run reaches the states where it would.


## 3. The runs

### Runs that pass

| Run | Properties | What it shows |
|---|---|---|
| `pods_room` | `TypeOK`, `LimitRespected`, `StartKeepsItsRoom`, `GoneInv`, `RoomInv`, `ImplementsAllotment` | two templates compete for one slot while pods are paused, deleted, polled and lost, calls fail and the service restarts: the limit holds, a start still has the room it saw minutes before, and every step is a grant, a release or a stutter of the allotment |
| `pods_rows` | `OnePerTemplate`, `GpusWithinLimit`, `BilledIsRecorded` | rows and RunPod agree as long as no call fails: every billed pod has a row, and the GPUs really rented, as opposed to the rows, are within the limit |
| `pods_wake` | `TerminatedIsGone` | a start, a resume and a stop of the same pod with failures, lost answers and late polls: only a pod that is gone is written off |
| `pods_reaper` | `StartSettles`, `LeftoversGo` | under fairness, every start gives its slot back and every leftover pod is got rid of, though calls fail now and then; a template deleted in the middle of it leaves a pod that serves nobody and still counts |
| `scheduler` | `TypeOK`, `NoFlapping`, `ManualUntilUsed` | a pod stopped for being idle is not started again by the schedule while its window lasts, computed here by looking at every instant since and not by the code's arithmetic; the end of the hours leaves a pod alone that a person started and nobody could use yet; both unless the answer to an earlier request was still to come, which the proxy gives for a pod that is gone |
| `scheduler_live` | `LimitStops`, `HoursEnd` | under fairness, a limit that stays reached brings every pod down, one coming up included, and a pod nobody is served by does not outlast its hours unless a person started it |
| `spend` | `TypeOK`, `NeverInflated`, `CoversWhatIsUp`, `BreakdownsAddUp`, `RequestsAreSpaced` | the figures are never more than was spent, but for the pauses of a resumed pod that are not billed yet, and never less while our pods stay up, through late and failing billing, midnights, changes of zone and stale folds; the bars and the shares add up, but for what is estimated when every pod that is up has lost its template; RunPod is not asked more often than meant, whoever asks |
| `access` | `TypeOK`, `TargetsExist`, `EnrolledByALiveCode`, `CutOffOnlyByHand` | each device is enrolled by an issue of its own, in time and within its guesses, over renewals and restarts, and two by the same code only if a restart issued the configured one again; no access points at a template that is gone; an application is cut off only by revoking its access or taking its assignment |
| `gateway` | `TypeOK`, `OwnPodOnly`, `NotSentAwayWhileServed`, `RequestsAnswered` | a request reaches only a pod of the template its token was assigned to, whichever start it waited for; while it has time left it is not told to come back if its template's pod serves, though the pod it waited for was another's or was stopped; and it is answered in the end |
| `editor` | `TypeOK`, `SizedAsChosen`, `RendersWhole`, `SharesFit`, `AdmittedRuns`, `ShownIsSaved`, `ReopenKeeps` | a template made, changed or repaired runs on the card it names and, for the format the form goes by, on the substitutes it proposes, is what the form showed, survives opening and saving, and renders to a command line with no flag that takes the next one for its value |
| `view` | `ViewSettles`, `PollsDoNotQueue` | when nothing changes any more, the open screen comes to show what the service knows and goes on doing so, whatever was overtaken or failed; the timer never queues behind a request |

### The run that ends in a violation

| Run | Property | The behaviour |
|---|---|---|
| `reaper_stale_set` | `ReaperSparesLive` | the set of running pods is older than the answer of `resumable()`: a pod woken during an earlier termination is in neither and is terminated |

### Counterexamples kept beside the runs

These configurations end in a violation as well. Each states something the repository
says of itself, or what one would expect of it, and gives a behaviour of the code that
does not keep to it. They are kept so that a change to the code can be tried on them.
On `MCPodLifecycle`:

| Configuration | Property | The behaviour |
|---|---|---|
| `resume_over_limit` | `LimitRespected` | `resume()` looks at no limit: a paused pod of one template is resumed while another template has the only slot |
| `late_poll_answer` | `LimitRespected` | a poll's answer "EXITED" is written after a start has woken the pod; it does not count, another template starts one, the next poll makes it two |
| `start_other_template` | `CallersGetTheirOwn` | a start of one template joins the start of another and is answered with its pod |
| `start_origin_lost` | `PersonKeepsStart` | a client request that joins a person's start makes the pod the client's |
| `fingerprint_moves` | `ArgsAsBuilt` | a template edited while its pod is being resumed gives the pod the fingerprint of arguments it was not built with |
| `hollow_handed_out` | `HandedOutWithGpu` | a pod resumed without a GPU, whose termination fails, is woken again, answers 409 and is handed out |
| `delete_orphans` | `BilledIsRecorded` | a template deleted while its pod is being created: the record fails on the foreign key and the pod is billed with no row |

On `MCScheduler`, `MCSpend`, `MCEditor` and `Pairing`:

| Configuration | Property | The behaviour |
|---|---|---|
| `cap_restarts` | `CapKeepsDown` | the limit is looked at only when the pod is up (`S/scheduler/decide.ts:90`): inside its window, a pod stopped for the limit is started by the next tick, and stopped by the one after. `README.md:134` says "Down immediately at a daily or monthly limit, whatever else says" |
| `ceiling_resumed` | `CeilingIsOfThisRun` | a resumed pod keeps its `started_at` and is stopped for a ceiling that an earlier run has used up |
| `idle_clocks_back` | `StaysDownInWindow` | the opening of the window is reckoned from the minutes the local clock shows since its start, an hour too few after the clocks have gone back: a pod stopped for being idle before that opening is started again. `S/scheduler/decide.ts:136-137` says that the pod "stays down until the window comes round again" |
| `stop_cuts_work` | `WorkIsNotCut` | a request that arrives while the engine is asked does not keep the pod: the count was read before |
| `zone_forgets_month` | `CoversWhatIsUp` | billing read while the zone that is set has begun a new month keeps no record that ends more than two days before it (`S/scheduler/spend.ts:302`); set to a zone that is still in the old month, the service lacks most of that month until it asks again. `S/scheduler/spend.ts:66-67` says that changing the zone "re-cuts the days without another request" |
| `engine_lost` | `EngineFollows` | a llama.cpp template saved before its verdict is there, or during an outage of the hub, becomes a vLLM template with the same GGUF model |
| `code_used_again` | `CodeWorksOnce` | a code from `PAIRING_CODE` is redeemed, the service restarts and issues it again (`S/index.ts:57`), and a second device enrols by it. `S/config.ts:10` says of it "It is single-use, expires", as `S/auth/pairing.ts:9` does of every code |

More were met and have no configuration of their own, being of the same kind: a
resume of an older paused pod gives a template two live pods (`OnePerTemplate` with
`"resume"` enabled); of two stops in flight for one pod the later answer may mark a
pod stopped that a start has woken in the meantime (`GpusWithinLimit` with
`MaxActs = 2`); and as the opening of a window keeps the seconds of now, a pod that is
idle-stopped in the window's first minute is started again by a tick that falls later
within its minute, as the first one after a restart may (`StaysDownInWindow`, which
leaves those seconds out of account). And the form asks of a substitute card only what
the chat model's format needs: a template with a chat model of another format and an
embedding model in FP8 may get a substitute that has no FP8 (`AdmittedRuns` without its
condition `format = Format(form)`), which is the kind of thing the substitutes are
restricted to prevent: "the fallback quietly undid the compatibility check that had just
passed on the primary choice" (`D/screens/Templates.tsx:265-266`).

Two follow from the row that any answer leaves in the usage table. A request is on its
way when its pod is stopped for being idle, because the count was read before it came
(`stop_cuts_work`); the proxy answers 404 for the pod that is gone, that answer is recorded
after the stop, `stoppedIdleInThisWindow` sees a request newer than the stop, and the next
tick starts the pod again (`NoFlapping` with `rested` set at every idle stop). And the late
answer to a request of the pod before is recorded after a person has started a new one:
`hasBeenUsed` is true of a pod that nobody has reached, and the end of the hours stops it
(`ManualUntilUsed` without `clean`).

An answer that was overtaken replaces the newer one on a screen, until the next refresh
(`ViewNeverGoesBack` with the constants of `view`).

### Other things the modelling brought up

None of these has a property; each is under `hazards` at its line, or follows from one
that is.

- A stop that RunPod refuses ends the whole tick, and so does a template that cannot be
  parsed: the templates behind it wait for the next one (`S/scheduler/scheduler.ts:97`).
- A pod that is STARTING is polled by a waiting request only; the decision leaves it
  alone (`S/scheduler/decide.ts:101`). The count of requests in flight is one for all
  pods (`S/scheduler/scheduler.ts:292`).
- When a pod stops, what is not billed of it drops out of the figures until RunPod
  publishes it. Past midnight, what is estimated of the day before is in the month and
  in no bar (`BreakdownsAddUp` says so). In the last hour before a day of 23 hours, and
  on a day of 25, the slices of a day are off by that hour.
- A pod whose template was deleted while it was being woken is in the month's figure and,
  until RunPod bills it, in no share: the estimate is split over rows that have a template
  (`S/scheduler/spend.ts:216-229`), where `S/scheduler/spend.ts:205` says that "the
  unbilled part belongs to whatever is running now".
- A request that joined another template's start looks for a crash loop in that pod's log
  (`S/pods/manager.ts:453`), and may be told of an engine that keeps exiting though its
  own is only loading. While it checks, it asks the address it took before the checks
  began: a pod that has taken that one's place since is found when the time is up.
- `reapSupersededPods` ends when RunPod cannot be asked for its list
  (`S/pods/manager.ts:505-507`). The model leaves this out, as the next pass repeats it.
- Deleting a template to which an access is assigned, even a revoked one, fails on the
  foreign key. Revoking an access does not end the requests that are already waiting.
- Shares of the card that the user sets may add up to more than the card; `SharesFit`
  is about templates where only the share of the small model is set, and says that
  nothing is handed out twice, not that something is left: an embedding model that is
  given 0.94 or more leaves the chat model a share of 0 or less, which the engine refuses
  (`S/pods/plan.ts:32`).
- A template saved from the app loses what the form does not know of: volume, env,
  revision, served name, share, number of GPUs. A mode of `recreate` can never be saved
  from it, as the schema asks for a volume.
- A change from a GGUF repository to another kind keeps the build's tag. Fallbacks
  somebody chose survive a change of card. `usableFallbacks` (`S/pods/manager.ts:395`)
  looks at memory and not at the format, which the form does.

### Bounds

| Run | Instance | Distinct states | Why it is enough |
|---|---|---|---|
| `pods_*` | 1 or 2 templates, 2 pods (3 in `pods_rows`), limit 1 (2 in `pods_rows`), `MaxActs` 1 | see below | the limit needs `Limit + 1` pods to be broken, a template with a live pod and a paused one needs two, and so does the reaper's loop with one pod terminated and another woken; 1 makes the second pod the surplus one, 2 lets two templates be live at once |
| `scheduler` | 2 templates (a day window without resume, a window over midnight with resume and ceiling), days of 3 units, weeks of 2 days, 4 instants, 2 runs, one limit | 1,803,000 | a window, its end and the next midnight fit into the horizon; one run to stop and one to start again |
| `scheduler_live` | the same with 3 instants and no person | 106,000 | as above; a person adds nothing to what must come down |
| `spend` | one pod of ours and one foreign, days of one bucket of 2 units, months of 2 days, 2 zones, 5 instants, 2 readers | 1,699,000 | two midnights of each zone, one month's end, a bucket cut in two by a midnight, a pod paused and resumed within what is not billed, a failed and a good answer. Rates of 4 and 8, a disk rate of 2 and months of 2 days meet every hypothesis of the theorems below. A pod that has a template beside one that has lost it is left to the theorem |
| `access` | 2 tokens, 2 templates, 2 devices, 2 guesses, codes of 1 unit, 3 issues, 4 instants, with `PAIRING_CODE` and without | 1,547,000 | a code can run out by time, by guesses and by use, with another before and after it, the same one included |
| `gateway` | 1 token, 2 templates of which one has hours, 1 request, 2 pods, 2 polls, the log every 2 checks | 440,000 | requests do not wait for each other but for a start, and others' starts are in the model without requests of their own; two pods are the one waited for and the one that takes its place |
| `editor` | 3 cards, 3 repositories, 1 change of the hub, 3 edits, 1 form, templates of 3 older kinds, one of a card that is no longer listed | 154,164 | two pickers that ask, one call out of date in each, and a save; a length that fits no card and one that does. The same with the hand-made template on a listed card (463,000 states), and with 2 edits and a second form (942,000), passed as well |
| `view` | 2 screens, 2 changes, 3 requests on their way | 139,664 | an older, a newer and a newest answer in any order |

In `PodLifecycle` one start is in flight at a time, which is no bound, as the code has
one slot. One resume and one pass of the reaper at a time are bounds: two
administrators' requests, and the pass at start-up that overlaps the first tick's, are
not explored. `Enabled` names the operations an instance lets happen besides starts,
so that each question is asked of the operations it is about. `pods_room` has act, poll,
lose, fail and crash; `pods_rows` stop, edit and reap; `pods_wake` resume, stop, fail
and late; `pods_reaper` stop, fail, reap and delete.

Symmetry is used where values are not told apart and no liveness is checked: templates
in `pods_room` and `pods_rows`, readers in `spend`.

`CHECK_DEADLOCK FALSE` is said once, in `delete_orphans`: with the template deleted and
its only pod gone the system rightly has nothing left to do.

### Fairness

*Pods* (`FairSpec` of `PodLifecycle`, run `pods_reaper`): weak fairness of RunPod's part
of a start and of a reaper pass, because `fetch` ends every call with an answer or an
error; of what the service does with an answer, because Node runs every continuation
that is ready; of starting a pass, because the scheduler's timer never stops. Strong
fairness, per pod, of a reaper's termination that works: RunPod may fail any number of
times in a row, but not every time it is asked.

*Scheduler* (`scheduler_live`): weak fairness of `TickBegin` (`setInterval`) and of
`TickStep` (every await ends); strong fairness of `StopCarriedOut`, the same assumption
about RunPod as above. Nothing is assumed of requests, polls, engines or the clock.

*Gateway* (`gateway`): weak fairness of the steps of a start and of each request: calls to
RunPod and health checks carry a timeout, every wait has its deadline, and Node's
`fetch` gives up on a forwarded request that gets no headers. Nothing is assumed of pods.

*CachedView* (`view`): weak fairness of the timer and of the end of the oldest request;
strong fairness of its being read and answered, so that not all of them fail. A request
that never ends would stop the timer's polls for good: `fetch` in the desktop has no
timeout of its own, and this is the assumption that rests on the operating system.

Nothing is assumed of people anywhere: starts, stops and edits need never happen.


## 4. The theorems

For every set of templates, arguments, tokens and devices, every number of pods, every
limit, number of guesses, lifetime, time to wait and number of calls in flight.

| Theorem | Module | Assumes | States |
|---|---|---|---|
| `TypeCorrect` | `PodLifecycle_proofs` | - | `Spec => []TypeOK` |
| `GoneInvariant` | | - | `Spec => []GoneInv` |
| `TerminatedPodsAreGone` | | - | `Spec => []TerminatedIsGone` |
| `RoomInvariant` | | no single resume, no late poll | `Spec => []RoomInv` |
| `LimitHolds`, `OnePodPerTemplate`, `StartRoomHolds` | | the same | the conjuncts of `RoomInv` that matter |
| `AllotmentImplemented` | | the same | `Spec => ImplementsAllotment` |
| `BilledAreRecorded` | | no delete, no crash, no call that fails after it was carried out | `Spec => []BilledIsRecorded` |
| `GpusHold` | | `Enabled` within stop, edit, reap, poll, lose | `Spec /\ []OneStopPerPod => []GpusWithinLimit` |
| `GpusHoldWithOneStop` | | the same, and `MaxActs <= 1` | `Spec => []GpusWithinLimit` |
| `TypeCorrect` | `Pairing_proofs` | - | `Spec => []TypeOK` |
| `TargetsExistAlways` | | - | `Spec => []TargetsExist` |
| `EnrolledByALiveCodeAlways` | | - | `Spec => EnrolledByALiveCode` |
| `CutOffOnlyByHandAlways` | | - | `Spec => CutOffOnlyByHand` |
| `TypeCorrect` | `Gateway_proofs` | - | `Spec => []TypeOK` |
| `OwnPodOnlyAlways` | | - | `Spec => []OwnPodOnly` |
| `NotSentAwayWhileServedAlways` | | - | `Spec => NotSentAwayWhileServed` |
| `TypeCorrect` | `Scheduler_proofs` | - | `Spec => []TypeOK` |
| `ManualUntilUsedAlways` | | - | `Spec => ManualUntilUsed` |
| `NoFlappingAlways` | | `FixedClocks`, `TimesOfDay` | `Spec => NoFlapping` |
| `BillingInvariant` | `Spend_proofs` | - | `Spec => []BillingInv` |
| `RequestsAreSpacedAlways` | | - | `Spec => RequestsAreSpaced` |
| `SpendInvariant`, `SpendTypeCorrect` | | `ZonesTyped` | `Spec => []SpendInv`, `Spec => []TypeOK` |
| `NeverInflatedAlways` | | `SteadyClocks`, `PausedCostsLess` | `Spec => []NeverInflated` |
| `CoversWhatIsUpAlways` | | the same, `MonthsOverlap` | `Spec => []CoversWhatIsUp` |
| `BreakdownsAddUpAlways` | | `SteadyClocks`, `WholeShares` | `Spec => []BreakdownsAddUp` |
| `FormInvariant` | `Editor_proofs` | - | `Spec => []FormInv` |
| `TypeCorrect` | | - | `Spec => []TypeOK` |
| `ShownIsSavedAlways` | | - | `Spec => ShownIsSaved` |
| `ReopenKeepsAlways` | | - | `Spec => ReopenKeeps` |
| `SizedAsChosenAlways` | | `SomeBuildIsNoDraft` | `Spec => []SizedAsChosen` |
| `SharesFitAlways` | | `NamesAreOwn` | `Spec => []SharesFit` |
| `AdmittedRunsAlways` | | - | `Spec => AdmittedRuns` |
| `RendersWholeAlways` | | `ArgsAreTheApps` | `Spec => []RendersWhole` |
| `NewestInMapAlways` | `CachedView_proofs` | - | `Spec => []IInv` |
| `PollsDoNotQueueAlways` | | - | `Spec => PollsDoNotQueue` |

The theorems rest on the assumptions the modules state about their constants
(`TablesAssumption`, `LifecycleAssumption`, `CalendarAssumption`, `MinuteAssumption`,
`SchedulerAssumption`, `ScheduleAssumption`, `SpendAssumption`, `AccessAssumption`,
`PairingAssumption`, `GatewayAssumption`, `EditorAssumption`, `ViewAssumption`), which say their types: what
the columns, the schemas and the hub's answers are made of. TLC evaluates them on every
run. What a theorem assumes besides:

- *No single resume, no late poll* (`"resume"` and `"late"` not in `Enabled`):
  `resume_over_limit` and `late_poll_answer` show both to be necessary. Read the other
  way, these theorems say that the two operations are the only ways past the limit.
- *No delete, no crash, no failure after the fact*: each of them alone leaves a pod that
  is billed and has no row, `delete_orphans` being one. There may be resumes, late
  polls, any number of stops, and RunPod may lose pods.
- *`OneStopPerPod`*: no two stops of one pod are in flight. With two, the answer of
  the later one marks a pod stopped that a start has woken in the meantime. It is a
  hypothesis on behaviours; `MaxActs <= 1` is one on constants that implies it.
- *`FixedClocks`, `TimesOfDay`*: a zone's offset does not change, and hours are times of
  the day in whole minutes. `idle_clocks_back` shows the first to be necessary. The
  pattern in `scheduleSchema` is weaker than the second: it takes "24:00" too, and a
  window from "00:00" to "24:00" never closes and opens anew every midnight.
- *`ZonesTyped`, `SteadyClocks`*: clocks show a time at every instant; a zone's offset
  does not change. In the hour before the clocks change the slices of a day are off by
  that hour (see section 3), so that the second is needed.
- *`PausedCostsLess`*: a unit paused costs no more than a unit up. The estimate takes a
  pod that is up to have been up since its last bucket, at its GPU's price.
- *`MonthsOverlap`*: no zone's month begins more than two days after another's.
  `zone_forgets_month` shows it to be necessary. It is true when there is one zone, that
  is, when nobody changes `timezone`.
- *`WholeShares`*: a bucket's price is a multiple of its units, so that what the model
  rounds down where the code keeps fractions does not count.
- *`SomeBuildIsNoDraft`*: where a repository of builds holds nothing but drafts,
  `pickDefaultGgufVariant` finds none and the form shows a size of 0.
- *`NamesAreOwn`*: a stored template's own environment does not name the launcher's
  models. One that does has the image start a server the template knows nothing of.
- *`ArgsAreTheApps`*: the arguments of a stored template with a chat model are the form's
  own or of the two kinds the repairs at start-up look for (the arguments of a vLLM
  template without `{{toolFlags}}`, those of a llama.cpp template with the window of one
  request for `--ctx-size`). Others, written past the app, are passed on as they are.

**The argument for `TerminatedIsGone`.** A row gets `terminated_at` when an answer that
is taken for agreement arrives. `AnswersTellTruth` says that such an answer, while it
is on its way, is about a pod that is gone already; `gone` has no way out in `RunPod`,
so it is still gone when the answer arrives. `OperationsShape` says that the pods named
by operations are pods. Together with the type invariant that is inductive.

**The argument for the limit.** `LimitRespected` is not inductive: the pod becomes live
at the end of a start, and the limit was looked at before it began. `StartKeepsItsRoom`
carries what was seen over the awaits: while a start is in flight there is room and its
template has no pod. For that to be kept, no other step may make a pod live:

- `StartOwnsItsRow`: the row a start is waking is stopped, and a pod just created has
  no row. Stopped rows are not counted, so no poll can bring one in before its time.
- `UnliveIsDown`: a row that is not stopped but says EXITED is of a pod that really is
  down, and nobody but the launcher starts pods; so no poll makes such a row live.
- `waking = NoWake` and `PollsOnTime`: there is no resume and no poll that could.

So live pods appear only at the end of the one start in flight, at which moment there
is room for them. `AllotmentImplemented` takes each action to a grant, a release or a
stutter of `PodAllotment` on these facts.

**The argument for what RunPod bills.** The rows say what the service believes; these two
theorems are about `cloud`. `RecordInv` adds to `BilledIsRecorded` that the template of
the start in flight stays in the table (`StartKeepsTemplate`): the pod it has made can
then be recorded, and while it is not, the start in flight names it. `RentInv` has three
parts. `RentedIsCounted`: a pod with a GPU is live in the table, but for the one of the
start in flight. `StopsStillHold`: a stop that has been answered is of a pod that is not
running, so that marking the row stopped takes no pod out of the count that is rented
still. `HollowIsStopped`: a pod that came back without a GPU has a stopped row until it is
dropped. With `StartKeepsItsRoom` from `RoomInv`, the pods that run are live ones, within
the limit, and perhaps the one there is room for.

**The argument for the scheduler.** `IInv` carries over a tick's awaits what the tick
holds: `SeenOK` says that the row a tick has seen is the row of its run or of an earlier
one, and that the usage it has read is not newer than the table's. `RunsOK` ties rows to
runs, and `Accounted` what is recorded to where it can have come from: to a run that began
`clean` no request of an earlier one is unanswered, and as long as it has answered none
nothing was recorded since it began; after an idle stop with nothing unanswered nothing is,
and nothing newer than the stop is recorded until somebody starts the pod (a request is
sent only to a pod that is up). So where the hours end a pod that a person started and
`hasBeenUsed` is true, the run has answered somebody.
For `NoFlapping` there is arithmetic to do as well: `OpenedBefore` shows, for windows by
day and over midnight, that the opening that `windowOpenedAt` reckons from the clock is
not after the stop when the window has been open since a minute before the stop.

**The argument for the billing cache.** `AskedBefore`: whoever waits asked in the past,
and the request in flight was made no later than any of those who wait for it asked.
`CacheTold`: what the cache says of its last attempt and its last success is of requests
that have been made, and the one in flight keeps its distance from them.

**The argument for the figures.** `SpendInv` adds three parts to that. `UsageInv`: each
unit that is over was spent up or paused, not both, and by a pod that had started.
`CacheInv`: the records kept are those of some answer, cut off two days before the month
of some zone. `FoldInv`: a fold is of the day in its key, and no reader still waits that
asked before the fold was made. So an answer is about the day at which it is given. Then
each pod has a seam, the end of its last billed bucket: up to there its records are
compared with what it has cost, and from there on its estimate, unit by unit. Days come
into it through `localDaysBetween` and the slices of a record, which are recursive in the
code: `Midnights` and the other functions of the model are picked by `CHOOSE`, the
proofs show that they exist, and that the slices of a record cover it once. What is
left is to exchange sums: over records, pods, slices and days, for `BreakdownsAddUp` in
the three orders the report adds them up in. `Sum_proofs` has the lemmas for that
(`SumByKey` and its relatives).

**The argument for the form.** `FormInv` joins three things. `ShapeInv` says that each
record keeps its fields and that a call whose answer counts is about what the form holds
now (`CallsAreCurrent`), which is why an answer may be used without asking what has
changed since. `ShownInv` says that a picker with a verdict and nothing out shows the slot
it will save, and that a verdict in favour of it is one for the engine, the card and the
other model that the form holds (`Agrees`, `Holds`); it needs every change that reaches a
dependency of a picker to ask anew.
`KeptInv` says that a form nobody has edited still holds its template, whatever verdicts
have arrived: each value the form would fill in is either marked as touched when the form
opens or chosen again as it was, as long as the hub still offers it.
`AdmittedRuns` reads the named card off `ShownInv`. Its substitutes are those that
`suitableGpus` lets through, for which the order they are proposed in does not matter
once there is one (`SortedExists`): `ByPrice` picks a list of the same cards.
`SizedAsChosen` rests on how `evaluate` chooses: the build it sizes is one of those
listed and is the one it names. That its size is a number at all needs the sum of a
repository's files to be one; the sum is a recursive function picked by `CHOOSE`, and
`Sum_proofs` shows that such a function exists and that its values are natural
numbers, by looking at a smallest set for which that would fail. (Cardinalities are well
founded; this way no induction theorem is needed.) `SharesFit` follows the template into
the environment, name by name, and out of it again in the image's script.
`RendersWhole` has an invariant of its own, `ArgsInv`: whatever is saved or repaired has the
arguments of its engine's preset (`AppArgs`), so that a service that is up starts pods
from no others. Those are flattened word by word. `FlattenSeq` is a recursive function
picked by `CHOOSE`; `FlatFixed` shows that it exists, `FlattenSteps` that it adds one
sequence after the other. What is said of a command line (`Good`: no flag
swallows the next, and a flag's value follows it) holds of two lines joined when it holds
of each (`JoinedIsGood`), so that the line is as good as its pairs of flag and value.

**The argument for pairing.** What a redemption promises speaks of the past of a code's issue:
when that was, what was guessed, whom it enrolled. `Recorded` ties the service's fields
to that past: the newest issue was made `Ttl` before `expiresAt`, has the code at hand and
has seen as many guesses as are counted; and an issue has a code of its own or the
configured one. `BurntOnceUsed` says that a device holds an older issue or one that is
marked as redeemed, so that the guard on `redeemed` is enough for an issue to enrol once.
With `TypeOK` and `TargetsExist` these are inductive; the two action properties follow
from them step by step. `TargetsExist` needs the foreign key, the check of the target in
both routes that set one, and that a deleted token loses its target.

**The argument for the gateway.** `RequestsOK` says that a pod which is being probed for a
request, or which it has been sent to, has a row of the request's template. When it is
sent, that is what the lookup finds (`CurrentOK`, which needs that pods are numbered and
finitely many, so that there is a newest one); from then on it holds because no action
changes the template of a row that has one. The one action that writes a template,
`StartCreated`, writes it for a pod that is not there yet, and `HeldRows` says that such a
row has no template, hence no request. For the types, the health checks of a request and
the polls it has left never exceed `Wait` together. For `NotSentAwayWhileServed`,
`SentAwayByAStep` says which steps tell a waiting client to come back before its time is up:
a poll or a health check that finds no pod described for the template. The health check
looks the pod up as the property does. The poll has just recorded that the pod it waited
for is running, which may make another pod the newest; `RunningHidesNone` shows that one
is described all the same.

**The argument for the view.** `PollsDoNotQueue` looks at the request made last, the code
at a map that forgets an entry when the request of that entry ends. The invariant
joins the two: the request made last is in the map as long as it has not ended, so that
a timer that finds the map empty has nothing to wait for.

**Only model-checked.** Liveness, which is out of the prover's reach: `StartSettles`,
`LeftoversGo`, `LimitStops`, `HoursEnd`, `RequestsAnswered`, `ViewSettles`. Every invariant
and every action property of a passing run is stated by a theorem.


## 5. What is not modelled, and the plan

Not modelled, and not planned:

- The **settings store**: one row that is read and overwritten, with no history. The
  settings that matter are constants, or variables of `Scheduler`, `Spend`, `Gateway`.
- **Reassembly** of a streamed answer (`S/gateway/reassemble.ts`), the parsing of file
  names and numbers, and search in the catalog: pure functions over text.
- `listAll`, `readinessOf`, logs, the self test and diagnostics, which only read.
- The choice among fallback GPUs within `createWithFallback`, one step here.
- The record of decisions, `preview` and the notification.
- How `pod/start-vllm.sh` watches the servers it started.
- The schema migrations of `S/store/db.ts`; the repair of stored templates is modelled.
- Request formatting and catalog calls of the RunPod client, CORS and configuration, the
  desktop's other screens, its Tauri shell, build tools, translations.

Modelled within limits: one reaper pass and one resume at a time; one form and one
template in `Editor`; in `Spend`, zones whose offset is constant, though `Calendar`,
`Decide` and `SpendReport` are written for offsets that change.

What comes next is proof:

1. The action properties of `PodLifecycle` without the hypothesis on late polls: what
   remains true of a template's pods when an answer has been overtaken.
2. `Spend` where the clocks change: the figures without `SteadyClocks`, for days of 23 and
   25 hours, and `BreakdownsAddUp` without `WholeShares`, up to the rounding of a share.

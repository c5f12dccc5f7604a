# isales-worker in TLA+

TLA+ models of the worker in `src/isales_worker`, TLC configurations that check
them on small instances, and TLAPS proofs of what holds for every instance.

## 1. The system

isales-worker is one asyncio process (several may run) between a Redis list, a
Postgres database and the webhook receivers of customers. An engine ends a call
and LPUSHes a `CallEnded` message; the worker summarizes the call, sends
webhooks, and decides what happens to the person who was called (the *lead*):
called again later, or never again. A scheduler, another service, dials leads.

| component | state | operations | interacts through |
|---|---|---|---|
| `lead_state.py` | `lead` rows: status, `retry_count`, `follow_up_count`, `next_call_at` | `decide_next` (pure), `apply_lead_state` (read rows, read summary, guarded UPDATE) | `lead`, `call_summary`, `call_record.transcript` |
| `callend.py` | none of its own: the message in hand, the stage it is in | BLPOP, validate or dead-letter, run the three stages, each in its own transaction | Redis lists `engine:worker:call-ended`, `worker:dlq` |
| `summarize.py` | `call_summary`, unique per call | read, ask the provider, insert | `call_record`, `call_summary` |
| `callbacks.py` | `callback_log` rows of the open transaction | one task per config, gathered: trigger, insert, render, sign, request, classify | `callback_log`, HTTP |
| `retry_loop.py` | the batch of a tick, its session's copies | select due rows, resend one by one, one commit | `callback_log`, HTTP |
| `llm/` | none | read the goal markers of a transcript | called by summarize and the extractor |
| `post_call_extractor.py` | `call_record.extracted`, `extract_status`, `extract_error` | BLPOP, extract, mark done or failed | Redis list `isales:extract` |
| `device_watchdog.py` | `device.status` | mark stale devices offline | `device` |
| `metrics.py` | Redis hashes per campaign | read the clock, aggregate 7 days, one HSET per campaign | `call_record`, Redis |
| `main.py` | the clients, four tasks (callend, retry, metrics, extract) | start, wait for a signal, cancel, await, close | asyncio, the service manager |

What is hard, and what makes each part correct:

- **Nothing is acknowledged.** BLPOP removes the message; a crash, or the
  cancellation of a shutdown, loses it between two stages. Every ended call
  should still be resolved in one of a few known ways.
- **Stages fail alone.** An exception of one stage is logged and the next stage
  runs on what was committed. A failed summary must not lead to an unwanted call.
- **Read, await, write.** `apply_lead_state` reads the lead, awaits two more
  queries, and writes absolute counters under `WHERE status='calling'`. With
  duplicated messages and two workers the row may be another call's by then.
- **Limits and rules.** Two counters with boundaries (0, 1, `>=`), a clamped
  list of intervals, rules that overlap: a long sequence of calls must end, and
  its length must be bounded.
- **One session, several tasks.** The gathered callbacks share one AsyncSession,
  and the first exception ends the gather but not the other tasks.
- **Unlocked rows, one commit.** The retry loop takes rows without a lock and
  commits the batch at its end: two workers write back copies of different age,
  and a crash forgets requests that were answered.
- **Several processes, no coordination.** Extract tasks are popped and marked
  without a guard, rollups overlap and overwrite each other's hashes, a watchdog
  writes with the clock of an earlier moment. What is stored must still be a
  state one of them meant.
- **Shutdown.** The loops are cancelled wherever they wait, and the clients they
  share are closed afterwards.

## 2. The modules

| module | models |
|---|---|
| `LeadDecision` | `decide_next` and the columns of the UPDATE, as operators |
| `TranscriptMarkers` | what is read in a transcript: the goal markers of `llm/mock.py`, the do-not-call event |
| `LeadLife` | the abstract promise about a lead: dialled, then resolved in one step by `LeadDecision` |
| `CallPipeline` | the CallEnded consumer, its three stages, several workers, failures, crashes, duplicates |
| `CallbackRetry` | the life of `callback_log` rows: first attempt and retry loop |
| `CallbackDispatch` | stage 2 at the level of the event loop: gathered tasks and one session |
| `Extractor` | the post-call extractor: tasks, provider, marks, their failures |
| `Supervisor` | `_main`: tasks and clients from start to shutdown, crash and restart |
| `WorkerProcess` | `Extractor` and `Supervisor` composed |
| `Clock`, `Metrics`, `Watchdog` | the time, and the two jobs that read it |
| `Housekeeping` | `Metrics` and `Watchdog` over one clock, at sites that run one, both or none of them |
| `QueueTheorems` | facts about LPUSH and BLPOP: where an element is in the list, and how often |
| `LeadDecisionProofs`, `LeadLifeProofs`, `CallPipelineProofs`, `CallbackRetryProofs`, `CallbackDispatchProofs`, `WorkerProcessProofs`, `HousekeepingProofs` | theorems |
| `MCLeadLife`, `MCCallPipeline`, `MCCallbackRetry`, `MCCallbackDispatch`, `MCWorkerProcess`, `MCHousekeeping` | instances for TLC |

`LeadLife` extends `LeadDecision`; `CallPipeline` extends `TranscriptMarkers`,
which extends `LeadDecision`. `CallPipeline` instantiates `LeadLife` (as `Life`)
under the mapping that forgets everything but the lead rows and counts the dials.

**LeadDecision.** The rules of `decide_next` are one nested choice in the order
of the code; a time is the delay added to its base (processing time for a retry,
end of the call for a follow-up), because nothing in the worker compares two
times of a lead. A lead is seeded with a time just past (`SeedTime`), which stays
until the first plan. A hangup cause may also be missing or unrecognised, which
`decide_next` treats alike. `last_hangup_cause` is left out: no decision reads it.
`"other"` stands for every hangup cause no rule names. Definitions named as
deviations (`RetriesLeftOffByOne`, `RetryDelayBackwards`, ...) are deliberate
mutants: a property that none of them breaks would say nothing.

**TranscriptMarkers.** `LastRoleMarkers` is the loop of `_last_role_markers` as
a fold over the events: a `goal_achieved` event, or an `ai_reply` with the flag,
latches; the old name `bot_speech` does not. `IsLastRoleMarkers` says the same of
the whole transcript, without an order of reading. Texts and extracted fields
are left out, since nothing downstream branches on them, and `user_speech` stands
for every event nobody reads.

**CallPipeline.** A worker's `pc` is the await it is at. Each stage is one
transaction, split where another actor can act in between:

| action | code |
|---|---|
| `Pop`, `DeadLetter` | BLPOP; `_handle_raw` validates and pushes to the DLQ |
| `SummarizeRead`, `SummarizeInsert` | the idempotence check; provider and insert (the unique constraint refuses a second row) |
| `CallbacksLoad`, `CallbacksSend`, `CallbacksCommit` | rows loaded and trigger evaluated on `EvalContext`; request made; log committed |
| `LeadLoad`, `LeadDecide`, `LeadWrite` | lead and campaign loaded; summary loaded; guarded UPDATE |
| `StageFails` | `except Exception` of a stage: rolled back, next stage |
| `Crash` | process death or cancellation at any await: the message is gone; after a `Pop`, also a BLPOP that raises when Redis has popped |
| `Claim`, `EndCall`, `Redeliver` | environment: scheduler, engine, a producer that pushes twice |

The environment is the scheduler and the engine, in whose place
`src/scripts/fake_call_end.py` creates the call and LPUSHes. `Claim` is external:
the script makes any lead `calling`, the scheduler only one that waits for a call,
which is what the model assumes. Redis is LIFO here, since LPUSH and
BLPOP work at the same end. A trigger is the set of goal fields it is true for
(`CallbackOn`); it could also read the lead and the call, which do not matter to
the properties. Whether a payload renders is a choice; several webhooks of one
call are `CallbackDispatch`'s subject. A deleted row is an attribute of the
call's ending. `dials`, `deliveries`, `sent` and `fate` are histories that no
action reads, except that `deliveries` bounds `Redeliver`.

**CallbackRetry.** A tick is `Select`, one `Resend` per row, `Commit`; `Abort`
is a tick that raises, is cancelled or dies before its commit. `Flush` is what
the ORM does at a commit: only the columns whose value the session changed, for
the primary key and no other condition. `Orphans` are rows whose config was
deleted, `Poison` rows whose resend raises before any request. An attempt that
failed is judged by the config's `retry_policy`; one that does not parse raises
after the request, when the row has perhaps been counted and keeps its old time
(`Undecided`). A policy is assumed to be repaired after `MaxRaises` such
attempts; without that its rows would be sent again by every tick for ever. The clock is an
integer that stops when no pending row lies in the future.

**CallbackDispatch.** Tasks are at the awaits of `dispatch_callback`. The
session is external: a flush that starts while another one waits raises. All
tasks have begun before any database answer is seen, because `gather` has put
them in the ready queue. A response may end in an exception too, as a failed
one judged by a `retry_policy` that does not parse does.

**Extractor and Supervisor.** A worker is idle (in BLPOP), asks the provider
(`Extract`), or marks. A mark that raises may have been committed (the answer of
a commit can be lost), so a task can be done *and* then marked failed; a mark
that fails after a failure is only logged (`"unmarked"`). `Interrupt` is what
cancellation or a crash does to a worker: the task in its hand is gone.
`PopUnanswered` is a BLPOP that raises, which the loop logs before it asks again:
Redis may have popped a task whose reply was lost, and that task is gone without
any stop. The
supervisor's phases are the lines of `_main`: `Signal` sets the event,
`CancelAll` cancels, `TaskEnds` is the await of one task, `Close` closes the
clients when all have ended. `WorkerProcess` joins them: the extract loop steps
while its task runs, its task's end interrupts it, so does a crash, and a
crashed process is restarted by the unit's `Restart=on-failure`. The other loops
appear as tasks only; what cancellation does to their data is the `Crash` of
`CallPipeline` and the `Abort` of `CallbackRetry`. That an UPDATE finds no
`call_record` (deleted meanwhile) is left out: it changes nothing.

**Metrics, Watchdog, Housekeeping.** A rollup reads the clock (`TakeTime`),
selects all aggregates at once (`SelectRows`), and writes one hash per row in
any order (`WriteRow`); a tick may fail in between. A watchdog run reads the clock
(`TakeCutoff`) and marks all stale devices in one UPDATE (`MarkOffline`). Calls
and devices are environment and take their steps whichever jobs run. `main.py`
starts the rollup; nothing in the repository starts the watchdog. So the jobs that
run are a parameter: a *site* has its jobs, the calls that are made and the
devices there are, and the two liveness properties speak of the sites that run
the job they are about.

## 3. What the runs check

Every passing run has, for each of its properties, a mutant of the model that
breaks it.

| run | instance | states | shows |
|---|---|---|---|
| `lead_life` | 2 leads, 4 retries, 2 follow-ups, 2 intervals | 2.7 k | limits, dials accounted for and bounded, the right waiting time and what is left of it, `decide_next` equals an order-free statement of its rules |
| `pipeline_once` | 1 lead, 3 calls, 1 worker, 9 endings, no duplicates | 71 k | refines `LeadLife`; every ended call is resolved |
| `pipeline_two_workers` | 2 leads, 3 calls, 2 workers, 9 endings | 365 k | a call owns its lead, no unwanted redial, the status follows from the last call, a summary from its own transcript |
| `pipeline_redelivered` | 1 lead, 2 calls, 2 workers, 1 duplicate | 67 k | what survives duplicates: limits, finality, webhooks per delivery, dead letters |
| `retry_one_worker` | 3 rows, one poison, one orphan, batch 2, 1 abort, 1 undecided attempt | 54 k | requests = counted + lost + undecided, acknowledged once unless a tick was lost, every row but the poison one is resolved |
| `retry_two_workers` | 2 rows, one orphan, 2 workers, 1 abort, 1 undecided attempt | 131 k | attempts within policy, pending is scheduled, resolved stays resolved |
| `dispatch` | 3 configs, every combination of outcomes | 1.5 k | all or nothing, in the log and among the requests; a request after the stage is the only one; the stage ends, two matches fail |
| `process` | 2 processes, 1 call pushed twice, 1 malformed message, 2 loops, 3 stops, lost replies | 166 k | no loop's task outlives its clients, every push accounted for, the columns of a record agree, shutdown completes, the queue drains |
| `housekeeping` | three sites: 2 rollups, 2 campaigns and calls; 2 rollups, 1 call, 1 device; 2 rollups, 2 watchdogs, 1 device; 1 failing tick, 3 times | 467 k | hashes tell their window, rollups converge, only silent devices are taken offline and, where a watchdog runs, all of them |
| `pipeline_clobber` | violated | | a duplicate of an earlier call writes the lead of a newer call |
| `pipeline_do_not_call` | violated | | a failed summary hides a do-not-call goal |
| `retry_starvation` | violated | | poison rows fill every batch |

**The six disagreements.** (1) `lead_state.py:204` says the guard never
clobbers a lead another worker moved; the guard tests the status and not the
call, so a message processed twice can resolve a newer call. (2) The do-not-call
rule "goal_type='do_not_call' OR marker" (`lead_state.py:8`) loses its first
half when the summary was not stored, although `callend.py:4` says failures do
not abort the rest. (3) `README.md:15` says every tick re-sends pending rows;
rows whose resend raises keep their `next_retry_at` and with `LIMIT` keep others
out. (4) `callbacks.py:284` says configs run concurrently; on one AsyncSession
the second flush raises and the stage is rolled back: `TwoMatchesFail` holds.
(5) A test expects "no row within window, no key" (`tests/test_metrics.py:98`); a
campaign that had calls keeps its last hash for ever: `HashesTellTheirWindow`
says that no hash ever shows 0 calls. (6) `device_watchdog.py:3` says devices
are checked every 30 s; no process of the repository runs that loop.
`SilentGoesOffline` speaks of sites that do; at the second site of the run, which
is as `main.py` has it, a device falls silent and nothing notices.

**Bounds.** Three calls on one lead are one more than is needed to pass through
a retry and a follow-up to a limit of 2. Two leads with three calls let two
workers hold messages of the same lead and of different leads. One duplicate of
each message is enough for the ABA case: resolve, claim, resolve again. `FewEndings`
holds one ending for each way a duplicate can act (retry, follow-up, finish,
invalid). The transcripts hold each kind of event, a goal followed by a wrap-up
reply, and a do-not-call goal followed by another goal. Three attempts with two
intervals use the clamp to the last interval. A batch of 2 with one poison row
leaves one place for the others, a row that can be sent and an orphan; a batch of 1 leaves none. Three configs let a
flush be free, taken, and taken by a third. A task pushed twice is held by both
processes at once, or done and then repeated; three stops let both processes be
stopped and one again. The three sites split what would be too large together: the jobs share
nothing but the clock. A window of 1 in a time of 0..2 lets a call age out of
it; a threshold of 1 a device fall silent, come back, and fall silent again.
`MaxDuplicates`, `MaxAborts`, `MaxRaises`, `MaxPushes`, `MaxStops`, `MaxFailures` and `MaxTime`
bound actions; the sets `Calls`, `Leads`, `Logs` bound the rest. Symmetry is used
over calls, workers and leads, in runs without liveness only. Deadlock is not
checked: when all calls are resolved the system rests.

**Fairness.** `CallPipeline!FairSpec`: each worker makes progress when it can
(the event loop runs ready tasks, BLPOP returns when the list is not empty, the
unit file restarts a worker that crashed, and an operator one that was stopped);
a call whose message was lost counts as resolved, as lost; claims, endings, duplicates, failures and crashes
are never forced. `CallbackRetry!FairSpec`: time passes and the loop wakes after
every sleep; aborts are not forced and are bounded. `CallbackDispatch!FairSpec`:
requests time out and the database answers. `WorkerProcess!FairSpec`: weak
fairness of the running loop, of the shutdown of a signalled process and of the
restart of a crashed one; pushes, signals, crashes, lost replies and the
operator's start are never forced, so `QueueDrains` excepts the case that every
process was told to stop; a task that was lost is off the queue too. `Housekeeping!FairSpec`: time passes and the loops wake; failing ticks of
the rollup are bounded; runs of the watchdog may fail for ever, and strong
fairness of its UPDATE says that one which is tried for ever succeeds in the end.

## 4. What is proved

`tlapm` checks these for every value of the constants that meets the named
assumptions: `CampaignAssumption`, `CauseAssumption` (the missing hangup cause is
none of the causes), `PipelineAssumption`, `RetryAssumption`, `DispatchAssumption`,
`ExtractorAssumption`, `ProcessAssumption`, `ClockAssumption`, `MetricsAssumption`,
`WatchdogAssumption` and `HousekeepingAssumption`. They fix the kinds of the
constants, that special values differ from ordinary ones, and that sets that are
counted (workers, configs, calls of the rollup, log rows) are finite. Every
safety property that a passing run checks is the subject of a theorem. Two
groups of theorems state less than every instance, as the code does: those that
need that no message is delivered twice (`MaxDuplicates = 0`: with a duplicate
they are false, which is disagreement (1)), the account of requests, which needs
one worker (two workers overwrite each other's counts).

**LeadDecisionProofs.** Every decision has the right kind (`DecisionType`); one
that allows another call raises exactly one counter and keeps it below its limit
(`DecisionLimits`); each status is explained by the cause and the goal
(`DecisionExplained`), each time by the interval (`DecisionTime`,
`RetryIntervalOfCount`); what the UPDATE leaves (`WriteBackRow`). `MarkersAreRight`
says what the one pass of `_last_role_markers` returns for a transcript of any
length. The fold of the community module is, by its definition, a choice of a
recursive function over subsets of the transcript's places; the proof states what
each subset of places yields (its largest marked place decides) and shows that
this description satisfies the same recursion.

**LeadLifeProofs.** `TypeCorrect`, `LimitsHold`, `DialsAreAccounted`,
`DialsAreBounded`: the invariant is the conjunction of the four
state properties, since the bound on dials is not inductive without the account
(dials = retries + follow-ups + the call under way), nor the account without the
limits. `TimesAreRight` adds what each row's time is (`TimeInv`), also of a lead
that is in a call and keeps the time of the plan that led to it, or the seeded one. `MatrixIsRight`
compares `decide_next` with `StatusByRule`, whose rules have no order.

**CallPipelineProofs.** Three layers, each an inductive invariant on top of the
one before.

1. `IInv`, for any number of workers and duplicates: `TypeCorrect`, `LimitsHold`,
   `TerminalStays`. `CounterLimits` alone is not inductive: a worker may write a
   row it read long ago. `SeenBelowLimits` says why that is harmless: a loaded row
   is below the limits, or its lead is terminal by now and the guard refuses the
   write. `Delivered`, `Queued` and `Held` say that a message in the queue or in a
   hand is about a call that was placed and has ended.
2. `RowsInv`, still for any number of duplicates: what a worker has read or
   decided in stages 1 and 2 is still true of the rows when it writes, because a
   summary is written once and then never changed. From it `InvalidIsDeadLettered`,
   `SummariesAreTrue` (with `MarkersAreRight`) and `WebhooksAreTrue`; the last
   counts requests against deliveries through the places of the queue.
3. `OneInv`, for `MaxDuplicates = 0`: a message exists once, in the queue or in one
   hand; while it does, the lead is `calling` for its call, the row that a worker
   loaded is the row of the table, and what it read of the summary is final. From
   it `CallsOwnTheirLeads`, `StatusIsExplained` and `RedialsAreWanted`, and the
   `Refinement` of `LeadLife`: `Claim` is `Dial`, `LeadWrite` is `Resolve` with the
   summary and the marker the worker saw, every other step is a stutter.

**CallbackRetryProofs.** `TypeCorrect`, `AttemptsHold`, `PendingScheduled`,
`ResolvedStays`, for any number of workers, batch size and policy. The
strengthening: each object of a session is the row it was loaded as, or was
handled once, from pending, into a sound row (`Handling`); rows still in the batch
are pending, untouched and occur once (`Fresh`). `FlushIsSound` then shows that
writing only the changed columns over whatever the row has become leaves a sound
row. `SendsAreAccounted` is about one worker: `Settled` says that the rows it
loaded are still those of the table, so that the flush of a handled row is its
copy, which counts exactly one request more, or none if judging it raised.

**CallbackDispatchProofs.** `TypeCorrect`, `AllOrNothing`, `TwoMatchesAlwaysFail`,
`StrayRequests`, for any set of configs and outcomes: who holds the session's
flush, which tasks wait and which have raised determine each other. At most one
task gets past its first flush when several match (`OneSurvives`), so that a
gathered sibling that sends after its stage failed is the only one that sends; and
a task that returned has sent exactly if it could (`SentWhenPast`).

**WorkerProcessProofs.** `TypeCorrect`, `ClientsOutliveLoops`,
`RecordsStayConsistent`, for any number of processes, loops, pushes and stops.
Neither property is inductive alone. `OpenUntilDown` ties the clients to the phase
of the shutdown: they are closed only after every loop has been awaited;
`EndedIsIdle` says that an ended loop holds no task, so that no extraction is left
when they close. `TasksAreAccounted` counts: `EachPushOnce` is inductive by the
lemmas on the places of the queue and on the hands that hold a message, where a task in a lost reply has
ended in a way of its own; that a stop costs at most one of the tasks a worker was
given needs the processes that were told to stop and whose
loop has not ended (`Doomed`), for each of which one loss is still to come:
losses plus those never exceed the stops.

**HousekeepingProofs.** `TypeCorrect`, `HashesAreTrue`, `OnlySilentDevices`, for
any calls, campaigns, windows, devices, thresholds and processes. What a tick
selected stays true however late it is written, since calls only end, never
leave the window of a fixed time, and keep their goals (`Tells`, `TellsForEver`);
the cutoff of a watchdog run is at least the threshold in the past (`WatchInv`).

Only model-checked, because fairness is out of the prover's reach: the liveness
properties `EndedCallResolves`, `PendingResolves`, `StageEnds`,
`ShutdownCompletes`, `QueueDrains`, `RollupConverges` and `SilentGoesOffline`; and
the three disagreements that are violations, each a counterexample.

## 5. Not modelled, and the plan

Not modelled: the wording of summaries and payloads, JsonLogic, Jinja2, HMAC and
encryption (a choice of outcomes stands for them), the extracted fields,
`answered` and `avg_duration` of the rollup, logging, settings and the
construction of clients (`settings.py`, `db.py`, `redis_client.py` keep no state),
the tables' other columns. Tasks that a loop started itself and that outlive
it (the siblings of a failed gather) are in `CallbackDispatch`, but not in
`WorkerProcess`, whose `NoLoopOutlivesItsClients` speaks of the loops' own tasks:
`_main` does not await the others. Four hazards have no property: the starvation
of old messages under a load that never stops (the instances have finitely many
calls), a policy without a limit of attempts (an infinite run of the same step),
the hash of a campaign that left the window (the code keeps it: disagreement (5)),
and the trigger's context, which shows a missing summary as an unreached goal;
`WebhooksTellTheTruth` allows for it.

Next, in this order:

1. The bounds of `LeadLife` in the detailed model: `DialBound` of the dials that
   `CallPipeline` makes, from `Refinement`'s invariant.
2. The safety half of `EndedCallResolves`: a call that was delivered and is
   neither queued nor held has a fate.
3. What duplicates leave of the account of dials, when the write of a stale row
   takes a counter back.

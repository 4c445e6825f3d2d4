# A TLA+ model of hud-dreamscale

hud-dreamscale evaluates robot policies: simulators rented through HUD produce
observations, a Dreamscale deployment of a policy model turns them into chunks
of actions, and a campaign runs hundreds of such episodes against a fixed
budget. Both sides are remote, paid and unreliable. What has to be right is
therefore not the arithmetic but the bookkeeping: an observation is inferred at
most once, nothing that was submitted or rented is forgotten, and everything
ends, closed or reported as uncertain.

The program is asyncio Python. A step of the models runs from one `await` to the
next; whatever can happen during an `await` (other tasks, cancellation, a lost
answer, a timeout) is a step of its own between them.

Paths below are relative to `src/` of the repository; `pooled.py` and the other
unqualified names are in `src/src/hud_dreamscale/`.

## 1. Inventory

### PooledProvider (`pooled.py`)
*State*: one deployment and its authority (`expires_at`, `control_lease_until`), the
creation key, attempts and calls, `_ready`, `_closing`, `_busy`, `_fenced`, `_pending`,
`_sequences`, `_active`, the journal file, the status and close tasks.
*Operations*: `__aenter__` (journal, `_create`, readiness, connections), `predict`
with `_recover`, `_watch_deployment_status`, `close`/`_cleanup`.
*Interactions*: episode drivers call `predict` on their lane's slot; the gateway
answers; the journal is written on a thread of its own inside `_protected`, which
cancellation does not cross.
*Hard*: lost creation answers, a stop that may be lost or late, lost POST answers,
rejections that are not final, cancellation at each await (and a second one while the
first is being resolved), the authority lapsing between two checks, close while
drivers are in flight, failed checkpoints.
*Correct when*: at most one of a call's identities is ever admitted, the journal
names everything posted before it is posted, a slot that can be used again owes
nothing, the deployment stops only after its drivers have left, and every call
and every close ends.

### RuntimePool (`runtime_pool.py`)
*State*: for each lane the lease of its simulator and the stack that owns it; the
entry depth, `_closed`, the lanes' locks, errors and `cleanup_confirmed`.
*Operations*: `__aenter__` (all lanes at once, each with retries), `__call__` (an
episode borrows a lane), `close`, `__aexit__`.
*Interactions*: HUD's provider context (acquire, release), the simulator's hello,
the caller that may be cancelled.
*Hard*: acquisition is shielded against cancellation and goes on behind a cancelled lane,
releases fail or, on the way to a retry, wait without a timeout, lanes fail while
others are mid-attempt, episodes wait for a lock across `close`.
*Correct when*: a lane never holds two simulators, no simulator comes into being after
the pool has let go of its lane, an episode inside a lane keeps its simulator, entry and
close end, and a confirmed cleanup is true.

### Cohort (`cohort.py`) and pooled agent (`pooled_agent.py`)
*State*: one worker per lane and the runs recorded so far; which lanes have
staggered their first inference. *Operations*: `run_cohort`, `summarize_cohort`,
`PooledRobotAgent`. *Interactions*: borrows from RuntimePool, calls
`PooledProvider.predict`. *Hard*: cancel every worker exactly once, wait for a bounded
time although cancelled again, keep the grades that still come in. *Correct when*: no
grade is lost, the drain is bounded, HUD's handling of a cancellation is never cut
by another.

### Campaign run (`campaign_run.py`, `runtime_cleanup.py`)
*State*: two contexts, evidence files, recorded session ids. *Operations*:
`parallel_startup`, `run`, `delete_owned_sessions`. *Interactions*: enters the pool and
the provider at the same time, drives the cohort, deletes at HUD what the pool recorded.
*Hard*: one side fails while the other starts, the run's timeout and an interrupt fall
on any await, a DELETE is lost. *Correct when*: both sides are left in order, every
recorded session is deleted or the receipt says no, the run ends.

### Campaign ledger (`campaign.py`, `campaign_run.py`)
*State*: the ledger file with its temporary copy, its lock, the output directories.
*Operations*: `main`'s reservation, `preflight`, `check_budget`, `qualify`.
*Interactions*: several invocations share the files; one's audited evidence admits
another's measurement. *Hard*: a process killed between write and replace or before the
launch, several categories sharing one contingency, evidence of a run that was cut short.
*Correct when*: liabilities never exceed the caps, no launch precedes its durable
reservation, no cell is measured without a sound qualification of its setup.

### Scalar agent (`agent.py`) and its program (`cli.py`)
*State*: a connection task that may run in the background, the policy session, the flag
of the running call and the model's trace; the contexts of `evaluate`. *Operations*:
`__aenter__`, `_connect`, `close`, `_close_policy`, `__call__`, `should_stop`, `evaluate`.
*Hard*: closing while connecting and while cancelled; a rollout that timed out and still
stops while the next one calls. *Correct when*: observations go only to an identified
session, inferences are attributed to the rollout that asked, and a session that was
opened is closed.

### RoboLab episodes and waves (`environments/robolab/dreamscale_agent.py`, `run_waves.py`)
*State*: per episode its sandbox, its session, the chunk queue, a video, `episode.json`;
per wave the sandboxes' entries and the summary. *Operations*: the agent's call with its
nested `finally` clauses, `TimedModalRuntime`, `ensure_sandboxes_stopped`, `run_wave`.
*Hard*: a cancellation during the clean-up, a sandbox that outlives its episode, a check
that fails for one of them. *Correct when*: no survivor goes unnoticed, and a session
left open has a reason.

### Others
The LIBERO bridge (`environments/libero/bridge.py`) wraps one simulator and is called
by one thread. `provider_usage.py` compares two readings of
a bill. `telemetry.py`, `campaign_metrics.py` and `video.py` record and summarise.
The other environments adapt external simulators; the rest builds images, parses
arguments or plots.

## 2. Plan

Each step is a module (or two) with its runs; what is done is marked.

1. **PooledPredict** (done): predict, recovery, watch, close and drain; the abstract
   **ActionCalls** it implements; **PooledPredictProofs** (types), **PooledPredictSafety**.
2. **RuntimePool** (done): lanes, borrows, close; **RuntimePoolProofs**.
3. **DeploymentLifecycle** (done): creation with its idempotency key, readiness, the stop
   loop and the create-again in cleanup; the abstract **PaidResource** it implements;
   **DeploymentProofs**.
4. **CampaignLedger** (done): the lock, the reservation, crashes, `check_budget` and
   `preflight`; **CampaignLedgerProofs**.
5. **CampaignRun** (done), on top of it: `parallel_startup`, the cohort's workers, drain,
   closes, deletes, evidence; **CampaignRunProofs**. That `run()` implements the ledger's
   protocol is proved.
6. **ScalarAgent** (done): `agent.py` inside `evaluate`; **ScalarAgentProofs**.
7. **RobolabWave** (done): the episode agent, its sandboxes and the wave;
   **RobolabWaveProofs**. **MCRobots** runs both.
8. Left: small pure modules (the resolver's cache, the provider usage audit). Every
   safety property and refinement of the runs that pass is proved; section 6 says what stays
   with TLC.

Bounds stay at two of everything that can collide (drivers of one slot, attempts,
lanes, episodes of a lane, invocations), because every hazard listed involves at most two;
a third rollout or episode shows what comes after two that collided.

## 3. Modules

### PooledPredict
`task` holds each driver's frame of `predict`: the await it stands at (`pc`), its
logical call, its attempt, the decided `result`, whether it is unwinding a cancellation
(`unwinding`, the `except CancelledError` clause) and whether a cancellation is waiting
for it. `busy`, `fenced`, `pending`, `sequences`, `ready`, `closing` are the attributes of
the same name. `seqno` is the number inside each identity, `journal` the durable rows,
`gateway` the remote truth about each identity, `authority` whether the deployment's
time has run out, `watch` and `closeTask` the two background tasks. `outcome` is
what each call gave its caller.

| code | actions |
| --- | --- |
| checks, identity, encoding | `Begin`, `RefuseExpired`, `Encode`, `FailUnposted`, `CancelUnposted` |
| `before_post` row, re-check, POST | `WriteIntent`, `Post`, `RefuseToPost` |
| the POST's answer | `PostDecides`, `PostUndecided`, `InvalidAnswer` |
| `_recover` | `LookupDecides`, `LookupUndecided`, `ResolveDecides`, `ResolveUndecided`, `RecoveryTimesOut` |
| terminal checkpoint, result | `WriteTerminal`, `WriteFails`, `Resubmit`, `RefuseToResubmit` |
| `except CancelledError` | `CancelPosted`, `WriteUnwound` |
| `except BaseException` | `FenceSlot` (in its callers), `WriteFence` |
| watch, close, cleanup | `WatchSeesLapse`, `WatchSeesRejection`, `Close`, `CleanupStarts` ... `CleanupUncertain` |
| the gateway (external) | `GatewayMoves`, `GatewayResolves` |

Not told apart: kinds of invalid answers, kinds of transport errors, the content of
observations and actions. `_check_identity` accepts a truthful answer or raises. The
gateway answers `request_not_admitted` for an identity it will never admit; with
`SoftRejections` an ordinary POST or GET may also say so of one that is merely late, which
is what the comments in `predict` guard against (pooled.py:920, 945).
A duplicate POST cannot occur: a request is sent once and `_recover` never replays it.

### ActionCalls
What a caller may rely on, slot by slot: calls are begun one at a time, each is inferred at
most once, `actions` means it was, `failed` means it was not and never will be, and a slot
that is free again owes nothing; only a dead slot may execute its last call late.

### RuntimePool
`opener` is each lane's `open_lane` task: the await it stands at, its attempt, whether a
cancellation waits to be raised there (`cancelled`) or the loop around the shielded
acquisition has noted one (`absorbed`, the local `cancelled` of the code). `lease` is the
fate of each attempt's lease, `entry` the outer `__aenter__`/`close`, `interrupted` a
cancellation its gather has received, `overdue` whether `startup_timeout` has expired,
`drained`, `errors`, `confirmed` the locals and results of `close`, `episode` each
borrower. Releases that fail leave a lease `"dropped"`: the stack has popped its context,
nobody will release it again.

| code | actions |
| --- | --- |
| `acquire`, a task of its own if shielded | `AllocationEnds` |
| `open_lane` after it | `AcquireSucceeds`, `AcquireFails`, `HelloSucceeds`, `HelloFails`, `ReleaseSucceeds`, `ReleaseFails`, `OpenerCancelled` |
| `__aenter__` | `Interrupt`, `StartupTimesOut`, `OpenSucceeds`, `OpenFails`, `InterruptJoin`, `JoinEnds`, `EnterAgain` |
| `__call__` | `BorrowStarts`, `Borrow`, `BorrowRefused`, `EpisodeEnds` |
| `__aexit__`, `close` | `Exit`, `DrainLane`, `DrainTimesOut`, `DrainEnds`, `CloseOwner`, `CloseEnds` |

`acquire` may raise although its lease was entered, when the evidence of it cannot be written
(runtime_pool.py:145): `AcquireFails` then releases it for a retry or leaves it to `close`.

### DeploymentLifecycle
The same provider, seen from the other side: its deployment and not its slots. Entry,
`close` and `_cleanup` run one after the other, so `stage` names the one await the
program is at (a stage that writes a journal row has the row's name). `calls`,
`attempted`, `deployment`, `statusError`, `evidence` and `confirmed` are `_creation_calls`,
`_create_attempted`, `deployment`, `_status_error`, `_cleanup_evidence_errors` and
`cleanup_confirmed`; `failure` is the local of `_cleanup`, `rows` the journal on disk.
`wire`, `reply`, `job` and `stopSent` belong to the gateway: creation calls it has not
processed, its last answer, its job for each idempotency key, the stops it received.

| code | actions |
| --- | --- |
| `_create` | `CreationSucceeds`, `CreationRetried`, `CreationRefused` |
| `__aenter__` | `WriteIntent`, `WriteCreated`, `StatusReady`, `Connected`, `WriteReady`, `EntryRaises`, `ReadyTimesOut` |
| `_watch_deployment_status` | `WatchFails` |
| `close`, start of `_cleanup` | `Close`, `CleanupStarts`, `DrainedUnallocated`, `DrainedUnknown`, `DrainedAllocated` |
| stop loop, `_cleanup_checkpoint` | `WriteStopIntent`, `StopAccepted`, `StopUnanswered`, `StatusStopped`, `StatusUndecided`, `WriteStopped` |
| failures, `finally` | `CleanupRaises`, `CleanupTimesOut`, `WriteUncertain`, `CloseClients` |
| the gateway (external) | `GatewayCreates`, `GatewayRefuses`, `JobMoves` |

`CreationKey` is the key of a call: the code draws one key in the constructor, and the
gateway makes one job per key. A creation call that ended in a transport error or a
cancellation stays on the wire and may still be processed, at any later time. A journal
write that fails may or may not have left its row. `_validate_deployment` accepts a
truthful answer about our own job or raises; which of its fields was wrong is not told
apart, nor are the statuses that only repeat the query.

### PaidResource
What the owner of a rented resource promises: it is rented at most once, and once its end
is confirmed it neither runs nor comes up; an owner that cannot know says so. A deployment
that failed or stopped counts as ended.

### CampaignLedger
`stage` is the place of each invocation in `main`, `lock` the holder of the `flock`,
`ledger`, `temporary` and `outputs` the files, `copy` what the holder has read, `launched`
those that called `run`. A ledger is kept as what `check_budget` computes from it: the sum
of each category and the attempts listed. Actions: `TakeLock`, `FindLocked`, `ReadLedger`
(the preflight), `MakeOutput`, `WriteTemporary`, `Replace`, `Launch`, `Leave` (the end of a
process, also by a kill: the kernel releases the lock, the files stay). `Pay` and `Audit`
are external: when HUD and Dreamscale may bill, and what the offline audits find. Preflight
does not ask of which kind the audited attempt is, so `Audit` does not either; that every
measurement goes back to a qualification is proved (`CampaignMeasures`).

### CampaignRun
What `run()` of the lock's holder does: `at` is the await it is at, `provider` and `pool`
the contexts (a pool is `joining` when it has failed by itself, `interrupted` when it is
cancelled then and `abandoned` once its lanes have ended, as RuntimePool's `pool_entry` run
shows; the startup waits for all of it), `lane` and `turn` each worker and its
row, `asked` the cancellations it got, `done` and `runs` the rollouts that returned and
those recorded, `leased` and `alive` HUD's sessions, `owned`, `tries`, `deleted` those of
`delete_owned_sessions`, `snapshot` what `summarize_cohort` has counted, `passing` the
invocations whose summary satisfies `qualify`.

| code | actions |
| --- | --- |
| `parallel_startup` | `SetupEnds`, `ProviderEnters`, `Lease`, `PoolEnters`, `JoinStartup` |
| job, waves, `run_cohort` | `StartJob`, `RolloutReturns`, `RolloutRaises`, `WaveEnds`, `CohortFails`, `DrainEnds`, `DrainTimesOut` |
| exit stacks, `finally` | `CloseSimulators`, `CloseCompute`, `Delete`, `DeletesEnd`, `WriteSummary`, `Flush` |
| `asyncio.run`, `main` | `Reap`, `Return`, `Start`, `Dies` |
| `max_run_seconds`, Ctrl-C | `RunTimesOut`, `Interrupt`, both through `CancelMain` |

A cancellation that falls into the drain or a close is absorbed there, as the code does.

### ScalarAgent
`conn` is `_connection_task`, `held` whether `_policy` is set, `closer` the task of
`policy.close()`, `running` and `trace` the two shared attributes, `drive` each rollout's
call, `queue` and `actions` its chunk and its count, `at` the await of the program around
it: `evaluate`, which connects in the background (`background`), or a caller of the README's
example, which does not. `CancelConnection` follows a cancellation to the await the task
stands at: the connector, the identity checks, the shield, the bare await after it.
`Close` is `close()` up to its first await. HUD's runner calls the agent for one rollout
after the other (`CallAgent`); one that timed out counts as returned although its driver
may still be `unwinding`. The job may also raise by itself between two rollouts (`JobEnds`). The
identity checks (`Identify`) are one step that succeeds or raises.

### RobolabWave
`stage` is the await of each episode's call, `session` its policy session, `attempt`, `step`
and `chunk` its counters, `entry` and `named` the rows of `runtime.sandboxes`, `exists` the
sandboxes at Modal, `evidence` the `episode.json` files; `wave`, `unchecked`, `terminated` and
`unknown` belong to `run_wave` and its final check. `CancelledTo` says which clause of the
nested `finally`s a cancellation leads to. `cut` is history: episodes cancelled during their
clean-up. A sandbox may stop at any time, and one that was created while its creation was
cancelled has no name. A call that raises before its `try` ends without session or evidence
(`CallFails`). `InterruptWave` cancels all episodes at once, or the check itself.

## 4. Runs

| run | instance | shows |
| --- | --- | --- |
| `pooled_soft` | 1 slot, 2 drivers, 2 calls, 1 resubmission, soft rejections | at most one admission per logical call, nothing forgotten, write-ahead journal, gapless sequence numbers, truthful journal, quiet stop, no POST after close |
| `pooled_strict` | 1 slot, 2 calls one after the other, 1 resubmission, rejections are final, fair awaits | a free slot owes nothing; the slot implements ActionCalls; calls end, close ends, a lapsed authority starts the teardown |
| `pooled_fence` | 2 slots | **violated**: a slot fenced by the watch can still submit |
| `deployment` | 3 creation calls, fair timeouts | a rejection taken for final is final, the journal names what may run, a clean close is recorded; entry and close end; the deployment implements PaidResource |
| `pool_safe` | 2 lanes, 2 attempts, 3 episodes, depth 2, shielded | one lease per lane, no late lease, borrows keep their simulator, confirmed means quiet; close ends, and entry unless a release for a retry does not |
| `pool_confirm` | 1 episode per lane | **violated**: `cleanup_confirmed` although a lease was not released |
| `pool_cancel` | shielded, 2 attempts | **violated**: a cancelled lane leases again |
| `pool_hang` | 1 episode, fair timeouts | **violated**: a release for a retry keeps a failed startup from ever closing |
| `pool_entry` | shielded | **violated**: a failed entry keeps its leases |
| `campaign` | 2 invocations, 2 lanes, 2 rows each, 2 tries of a delete, 1 failing rollout, 1 interrupt, a ledger near its contingency | budget, reservation before payment, order of the closes, one cancellation for each worker, true receipts, sound qualifications, grades kept; the run ends |
| `robots` | `scalar`: 3 rollouts, 3 actions, chunks of 2, 2 interrupts; `robolab`: 3 episodes, 2 at a time, 3 steps, chunks of 2, 2 admissions, 1 interrupt | inferences are identified and attributed, survivors are noticed, sessions left open are explained |
| `scalar_exit` | `scalar`, 1 interrupt | **violated**: the close of the session can be abandoned |

*Why the bounds suffice.* Slots share only the flags of the provider, so one slot with two
drivers (a lane's next episode starts while the cancelled one still unwinds) shows every
conflict over a slot, and two calls show what the first leaves behind for the second. Liveness
is checked with one driver after the other, because a driver that finds its slot busy is refused
at once (`pooled_soft` has both); that a free slot is quiet and that ActionCalls is implemented
is proved for any number of drivers (`QuietWhenFree`, `CallsKeepPromise`).
One resubmission already gives a call two identities. Two lanes and two attempts show a
lane that fails while the other is in any of its states; and each await of an attempt
(acquisition, hello, release) can be reached in the join by a lane that absorbed its
cancellation: by one whose shielded acquisition raised and which retries, and the release,
before its last attempt, by one that has a lease without its evidence. A third attempt
adds another way to the same release. Of three creation calls the first
is the special one, the second repeats it in the entry or in the cleanup, and the third
does so once more with both others still on the wire. In `campaign` one invocation
qualifies and the other qualifies again or measures; the found ledger leaves room for each
liability alone but not for both overruns. Two rows of a lane make a wave's barrier and
a worker that goes on after it was cancelled. In `robots` a chunk of two actions and a limit
of three end an episode inside a chunk; three rollouts let one call while another stops and a
third come after both; two sandboxes for three episodes make one wait for a release. The
episodes are symmetric.

*Deadlock* is not checked: a closed provider or pool, a program that has ended and a
campaign without invocations left have nothing more to do.

*Fairness.* Every await of `predict` ends: HTTP calls have `request_timeout`, `_recover` has
`recovery_timeout`, journal writes run to their end on a thread. `RecoveryTimesOut` has a
fairness condition of its own because the loop around it may otherwise poll a dead gateway
for ever. The watch's sleep is finite, and so is every await of `_cleanup`. In RuntimePool
the shielded acquisition, the hello, the drain and each owner's exit have timeouts;
`startup_timeout` cancels the lanes once, and only while the pool is opening. A release for a
retry has no timeout and nothing is assumed of it: that entry ends is false (`pool_hang`),
and `OnlyReleasesDelayEntry` says that nothing else can keep it from ending. In DeploymentLifecycle only `ready_timeout`, `close_timeout`
and what no timeout bounds (a file's write, the start of a task, the closing of clients)
are fair: no answer of the gateway, no retry and no exception is needed to end. That
`close_timeout` ends the drain although drivers may shield their recovery rests on
`CallsEnd` of PooledPredict. In CampaignRun the run's timeout, the end of the two entries (shown by
`EntryEnds` of DeploymentLifecycle and, for a pool with one attempt for each lane, which
never releases for a retry, by `OnlyReleasesDelayEntry`), the drain's
deadline, the closes, the 90 seconds of the deletes and the writing of files are fair;
leases, rollouts and workers left after the drain are not. `RunEnds` speaks of `run()`:
after it `asyncio.run` waits for workers that may never return. `robots` states no liveness:
HUD's runner decides how long a driver stops. Nothing is assumed of the gateway, of callers, of
episodes or of whoever cancels; cancellation may be repeated for ever.

## 5. Findings

- `pooled_fence`: the second check before the POST (pooled.py:885) does not look at `_fenced`
  or `_ready`. When the watch loses the authority, slots are fenced at once but `_closing`
  is set only when the cleanup task first runs; a driver resuming in between submits.
- `pool_confirm`: the release before a retry (runtime_pool.py:212) that raises leaves an empty
  stack, and closing an empty stack counts as a confirmed release.
- `pool_cancel`: a cancellation absorbed by the shielded acquisition is forgotten when the
  acquisition itself fails (runtime_pool.py:168-170, 202).
- `pool_hang`: the release before a retry has no timeout (runtime_pool.py:212). While a failed
  startup joins its lanes, `startup_timeout` no longer runs, and a lane that absorbed its
  cancellation (`pool_cancel`) is not cancelled again: a release that the provider never
  answers there keeps `close` from beginning, and the other lanes' leases stay open. Like
  `pool_cancel` it needs more than one attempt; `campaign_run.py` passes one.
- `pool_entry`: the join of a failed startup is a bare `await` (runtime_pool.py:260); cancelled
  there, `__aenter__` skips `close`.
- `scalar_exit`: `_close_policy` shields `policy.close()` from the first cancellation only and then
  awaits it bare (agent.py:243-245). The connection task is cancelled by `close()`
  (agent.py:232) and again when the `gather` there is cancelled, so one interrupt during a
  failed start is enough to cancel the close of a billed session, which the comment
  before it and README.md:127-128 exclude.

## 6. Proofs

TLAPS checks the theorems below for every value of the constants, under the named
assumptions of the modules only (a slot for each driver, a lane for each episode, natural
numbers as bounds, markers distinct from data). Every invariant, action property and
refinement of the passing runs is the statement of a theorem; the others are the inductive
invariants and what remains true of the claims the violating runs refute. Five theorems
assume more, and say so: `QuietWhenFree`, `CallsKeepPromise` and `TrueOutcomes` that
rejections are final (`~SoftRejections`), `ConfirmedReleases` and `CancelledLeases` a
configuration of the pool in which the refuted claim holds.

**PooledPredictProofs**: `Typed`. Lemmas follow the parts of the specification; the ones on
`ReplaceTyped`, `LeaveTyped`, `FenceTyped`, `DecideTyped` are shared by all of them.

**PooledPredictSafety**: `OneAdmission`, `NoneForgotten`, `WrittenAhead`, `RowsTruthful`,
`Gapless`, `QuietStop`, `QuietWhenFree`, `QuietAfterClose`. None of them is inductive alone;
`Inv` is their common strengthening, in layers that rest on one another:

- `Exclusive`: a driver inside `predict` has its slot to itself and works on the slot's
  last call. Everything else about a driver's request would be disturbed by a second
  driver without it.
- `Owed`: what `pending` holds at each await: nothing before the POST and between two
  attempts, the driver's identity from the POST to its terminal checkpoint.
- `Chain`: attempts before the driver's are refused for good, those after it and later
  calls are unsent. It follows from the rule that only the resolver's refusal allows
  another attempt, and it gives at most one admission.
- `Rows`, `Truth`: the row precedes the POST; what a driver decided is what the gateway has
  made final.
- `Numbered`: the number read before two awaits is still the slot's next when it is
  posted.
- `Closed`, `Settled`: how far close has come; with final rejections an entry is cleared
  only when the gateway is done.

The eighteen steps of a driver inside `predict` are first sorted into eight *kinds*
(`AdvanceKind`): preparing, posting, recovering, deciding, fencing, settling, giving up,
renewing. Each layer is then preserved by each kind (`...ByKind`), by a call that begins
(`...ByBegin`), and by everybody else, who move no driver and only let the gateway
progress (`...Elsewhere`).

`CallsKeepPromise` shows that PooledPredict implements ActionCalls. The abstract state is
computed from the concrete one (a call counts as inferred once one of its attempts has
completed, a slot is busy while a driver is inside), so the proof follows the steps and asks
what each can make visible:

- One more layer, `Answered`: a call has no result while its driver is inside, nor before it
  begins, and what a slot still owes is its last call, which has ended in no result that would
  say whether it was executed. `Replies` sorts a driver's steps by the result they give and
  says what the driver must have learnt to give it (`Deserves`).
- A request completes (`CompletingInfers`): by `Chain` it is the only attempt of its call that
  ever does; by `Answered` and `Settled` no result given before denies it, and its slot is busy
  or fenced, so the promise infers, or executes late on a dead slot.
- A call ends (`LeavingEnds`): `Deserves`, `Truth` and `Chain` give the promise's guard.
- A slot is fenced or all are (`FencingKills`), a call begins (`BeginningBegins`); every
  other step is invisible.

`TrueOutcomes` is drawn from the promise alone (`PromiseMakesTrue`): no step of ActionCalls
executes a call that has ended as failed, or ends one as `actions` that was not executed,
so what a caller reads stays true in every later state.

`FencedPosts` is what remains of the violated `NoPostFromFencedSlot`. A driver that goes on inside
a fenced slot was overtaken by the watch (`Overtaken`), so a fenced slot posts only while the
cleanup is scheduled and has not run its first step, and never after the deadline. The fence a
driver puts up itself, for an uncertain or invalid result, holds. This bounds the finding: the
window is the scheduling of one task.

`ResultsRecorded` relates what callers saw to the journal, with soft rejections too: a call that
returned actions has its `completed` row, one that reported a failure has the row that says so
and will never have a `completed` one. `Evidences` sorts a driver's steps by the row they write
and the answer they give; the second half needs that a driver which was not cancelled has
not recorded a completion yet (`Unrecorded`), since a cancelled one may record it and then
unwind. With `RowsTruthful` it gives `ActionsTrue`; what soft rejections can make
untrue is only a failure that is executed after all.

**RuntimePoolProofs**: `Typed`, `LeasesExclusive`, `BorrowsKept`, `ConfirmedQuiet`,
`NoLateLeases`, `ConfirmedLeavings`, `ConfirmedReleases`, `LateLeases`, `CancelledLeases`,
`FailedEntries`. `Inv` adds to the types the succession of leases of a lane
(`Succession`: those before the current one are given back or were never had), that a lane
waits for its allocation however often it is cancelled (`Acquiring`), what a
ready lane owns at each stage of the pool (`ReadyOwns`), who can be inside it
(`Borrowed`) and what the drain has seen (`Drained`).

`LastLease` follows each lane's last lease: outside close it is dropped only by a release for
a retry. With `Acquiring` it gives `NoLateLeases`: no allocation is under way when close begins
or entry has raised, and close leaves no lease held. The last five theorems say how far three
findings reach. A confirmed cleanup owns nothing and leases nothing; all it can have left is
such a lease (`ConfirmedLeavings`), and with one attempt for each lane there is none
(`ConfirmedReleases`: the claim `pool_confirm` refutes holds). A lane's attempts advance only
by its own retries (`AttemptAdvances`); a cancelled lane retries only when its shielded
acquisition raises, before the lease or, for its unwritten evidence, after it (`LateLeases`),
so `pool_cancel` needs both the shield and a second attempt (`CancelledLeases`). An entry raises without close only after an
interrupted join; nothing is being leased then, and every lane that was ready keeps its
simulator for good (`FailedEntries`).

**DeploymentProofs**: `Typed`, `RejectionsFinal`, `JournalComplete`, `CleanClosesRecorded`, and
`PromiseKept`, the refinement of PaidResource. `Inv` says that there is one job only
(`OneJob`), that the first call has created nothing while it is unprocessed or once it was
rejected (`FirstCall`), where the program stands while it believes that nothing was
allocated (`Unattempted`), that no stage after a confirmed end allocates (`Final`), and what
a cleanup that has not failed has behind it (`CleanSoFar`). The refinement then needs only
two facts about a step: the job moves in three ways (`JobSteps`), and a report is made once
and never about a running job (`ReportSteps`).

**CampaignLedgerProofs**: `CampaignWithinBudget`, `CampaignReserved`, and
`RunImplementsLedger`: every step of CampaignRun is one of CampaignLedger or leaves it alone,
so the ledger's invariant holds of both. The invariant says that the holder's copy is still
the file (`Locked`), that what was checked still fits (`WithinCaps`), and that a directory
belongs to one attempt (`Listed`). `AffordableBounds` turns the shared contingency into a bound
for every set of categories.

**CampaignRunProofs**: `CampaignTyped`, `CampaignClosed`, `CampaignCancels`, `CampaignReceipts`,
`CampaignMeasures`, `CampaignGrades`. Independent parts, each preserved by itself: which contexts
are entered where (`Contexts`), what the workers have recorded and how often they were
cancelled (`Workers`), which sessions are gone (`Sessions`), and which invocations were sound
when they wrote a passing summary.

**ScalarAgentProofs**: `ScalarTyped`, `ScalarInferences`, `NothingHeldAtExit`. One call drives at a
time (`OneDriver`: a cancelled waiting call may clear the flag only because no other drives),
who asks does so while the job runs and under its own trace (`WhileRunning`), and while it
runs the session is open (`SessionHeld`). `NothingHeldAtExit` is what remains true of the
violated `SessionClosedAtExit`: no session is forgotten, only a close can be cut short.

**RobolabWaveProofs**: `WaveSandboxes`, `WaveSessions`, and for the two programs as `robots` runs
them `RobotsTyped`, `RobotsSafe`. A sandbox that is being placed belongs to
an episode nobody has cancelled, so none is named after the check has begun (`Placement`,
`CheckedSoFar`); the place an episode's call has come to tells what became of its session
(`SessionByStage`).

*Only model-checked.* Liveness under fairness (`CallsEnd`, `CloseEnds`, `LapseCloses`,
`EntryEnds` of DeploymentLifecycle, `OnlyReleasesDelayEntry`, `CloseTerminates`, `RunEnds`) and anything with ENABLED is out of the prover's reach.
The findings are counterexamples of TLC.

## 7. Not modelled

Contents of observations and actions, normalisation and image handling, HTTP phase tracing,
video encoding, metrics and plots carry no protocol. The environments wrap external
simulators; the LIBERO bridge calls one in sequence. Of the pooled agent only its calls of
`predict` are modelled (PooledPredict's drivers): its episodes share no state but the set
of lanes that have staggered. The provider usage audit and the checks of the evidence
are sequential reads. The campaign's frozen design and statistics are data. Not modelled of
what is: a second Ctrl-C (`KeyboardInterrupt` out of the event loop), a power failure (the
rename of the ledger is not followed by a synchronisation of its directory), and the
thread that still writes a video while its episode is cancelled.

PooledPredict starts after a successful entry and keeps of the stop only
its two outcomes, DeploymentLifecycle keeps of the drivers only that they are drained before
the stop, and RuntimePool keeps of an episode only that it is inside a lane. A provider that
is entered twice is refused by its first check and is not modelled, nor is one without a
journal or a caller that closes a provider from another task while it is being entered.

# Formal models of the zadig cron service, gray-release and approval jobs

This directory holds TLA+ models of two parts of the repository, the TLC
configurations that model-check them, and TLAPS proofs about them:

* the **cron service** (`src/pkg/microservice/cron/core/service/scheduler/cronjob_handler.go`),
  which keeps two scheduling engines in step with the schedules saved in aslan
  and rebuilds them after each restart;
* the **gray-release (canary) job** (`src/pkg/microservice/aslan/core/workflow/service/workflow/job/job_gray_release.go`),
  whose jobs form a chain that a workflow run compiles into deploy tasks;
* the **approval job** (`src/pkg/microservice/aslan/core/workflow/service/workflow/job/job_approval.go`),
  which a run compiles into a native or vendor (Lark, DingTalk, WorkWX) approval gate.

## 1. The system

| Part | Source | State | Operations |
|---|---|---|---|
| Scheduler Core | `cronjob_handler.go` 130-400, 595-697 (cron strings 182-272) | cronlib engine (recurring jobs by id), gocron engine (one-shot jobs by tag) | `HandleMessage`, `updateCronjob`, `stopCronjob`, `register*Job`, `registerReleasePlanJob`, gocron firing, `convertCronString` |
| Startup Recovery | `cronjob_handler.go` 51-126, 402-593 | two fetch goroutines, two channels, one timer | `InitExistedCronjob`, `registerCronjob` |
| aslan (remote) | not in this sample | each owner's schedule setting; the cronjob collection | saving a schedule (enable/disable message), serving the lists, the disable call |
| Gray-Release Engine | `job_gray_release.go` | a workflow's gray-release job specs | `LintJob`, `lintFirstGrayReleaseJob`, `SetOptions`, `MergeArgs`, `UpdateWithLatestSetting`, `ToJobs` |
| Workflow Compiler | not in this sample | the workflow of one run | calls `UpdateWithLatestSetting` of every job, then `ToJobs` in stage order |
| Approval Engine | `job_approval.go` | approval job specs, approver groups | `LintJob`, `SetPreset`, `MergeArgs`, `UpdateWithLatestSetting`, `ToJobs`, `getOriginReferedJobSpec` |

How they interact. A user saves a schedule in aslan; aslan writes its cronjob
collection and sends an enable or disable message. The cron service consumes
the message (`HandleMessage`): an enable registers every listed trigger in the
engine its schedule type names; a disable lists the owner's cronjobs, stops
them locally and then POSTs a disable back to aslan. That POST is the only
write the cron service makes to aslan, and its failure is only logged (the
FIXME at lines 356-358). Neither engine is persisted. At startup two goroutines
fetch the enabled list and the "failsafe" list from aslan, with 100 retries 3s
apart. Two `select`s then join them, each against the same 5-minute timer, and
register every listed trigger. A release-plan instant that passed less than
30s ago fires at once; an older one is dropped.

A workflow run takes the caller's copy of the workflow (`SetOptions` offers the
saved targets, `MergeArgs` puts the user's choice in). `UpdateWithLatestSetting`
reconciles each job with the workflow saved at that moment. `ToJobs` then
compiles the jobs in stage order. A first job reads live replica counts from
the cluster. A chained job (one with `FromJob` set) inherits cluster,
namespace and targets, with those counts, from the first job's compiled spec
in the same workflow. An approval job compiles the same way. One with
`FromJob` set copies the approvers or nodes of the job it names, and native
approver groups are flattened into the groups' members at compile time.

## 2. Modules

| Module | Models | Kind |
|---|---|---|
| `CronScheduler` | cron service, the aslan side it talks to, the message queue, crashes | state machine |
| `MCCronScheduler` | model values for TLC | MC module |
| `CronScheduler_proofs` | type correctness, no double firing | TLAPS proofs |
| `OneShotEngine` | what the gocron side promises, without messages, fetches or aslan | abstract specification |
| `CronScheduler_intent` | the cronlib engine agrees with the schedule settings once every message is handled | TLAPS proofs |
| `CronScheduler_refinement` | `CronScheduler` implements `OneShotEngine` | TLAPS proofs |
| `CronString` | `convertCronString` and the cron choice of its two callers; the minutes a cron string fires at | pure operators |
| `MCCronString` | descriptors with clock times and interval counts | MC module |
| `CronString_proofs` | daily and weekday cron strings fire exactly at their clock time; a malformed time never fires | TLAPS proofs |
| `GrayRelease` | lint, reconciliation, merge and compilation of gray-release specs | pure operators |
| `GrayReleaseRun` | saves interleaved with a run's compilation (composes `GrayRelease`) | state machine |
| `MCGrayReleaseRun` | a three-job chain, candidate specs, live replicas | MC module |
| `GrayReleaseRun_proofs` | chained jobs deploy their first job's targets and replica counts | TLAPS proofs |
| `GrayReleaseRun_typing` | type correctness of the runs (the merge loop), and the canary count against the replica count read | TLAPS proofs |
| `Approval` | lint, reconciliation, merge and compilation of approval specs | pure operators |
| `ApprovalRun` | saves and group-membership changes interleaved with a run (composes `Approval`) | state machine |
| `MCApprovalRun` | two approval jobs, candidate specs, approver groups | MC module |
| `ApprovalRun_proofs` | vendor gates well formed; no nil dereference outside WorkWX | TLAPS proofs |

### CronScheduler

State:
* `recurring` is the set of ids registered in cronlib.
* `oneshot[t][a]` is the number of gocron jobs with tag `t` for instant `a`. A
  count rather than a flag, so that a missing `RemoveByTags` shows.
* `firings[t][a][k]` counts how often the release-plan action of `t` for
  instant `a` ran in incarnation `k`.
* `phase`, `lf`, `ff`, `joined` and `initStart` model the startup goroutines
  and selects.
* `def` is the user's intent in aslan. `cronDB` is aslan's cronjob collection,
  which the lists are read from. `inbox` holds the messages sent and not yet
  consumed.

Each handler is one atomic action, because all the effects it has before a
crash are in memory and a crash erases them anyway. The one exception is the
disable POST, which `StopCronjob` makes a disjunct of its own action.

Actions and code:
* `FetchList` / `FetchFailsafe`: the goroutines at lines 82-98. With
  `RemoteFails` they may give up without sending.
* `JoinList` / `JoinFailsafe`: the two selects.
* `InitTimeoutFatal`: either timer case. It is enabled as soon as the timer
  expired, even when a list is ready, because Go's select picks at random.
* `HandleMessage`: `updateCronjob` or `stopCronjob`.
* `Tick`: the clock and the gocron timers.
* `Crash` / `Restart`: `NewCronjobHandler` again, with empty engines.
* `SaveEnable` / `SaveDisable`: aslan.

Time: a one-shot instant `a` stands for a moment inside the tick `(a, a+1)`.
So `scheduleTime.Before(now)` is `a < now` and the 30s window is
`now - a <= Grace`.

Fairness (`FairSpec`): weak fairness on `FetchList`, `FetchFailsafe`,
`JoinList`, `JoinFailsafe` and `HandleMessage`. These are the two fetch
goroutines, the main goroutine blocked in each select, and the message
consumer. Once one of them can run, Go's scheduler runs it. Nothing forces
the clock, the fatal timer, a save, a crash or a restart. The consumer loop
that calls `HandleMessage` is not in the sampled source; its fairness is
assumed.

### OneShotEngine and the refinement

`OneShotEngine` is the one-shot engine as its users see it. Its state:
* `sched[t]` is the set of instants armed for tag `t`, empty or a singleton;
* `fired[t][a][k]` counts the runs of `t`'s action for instant `a` in
  incarnation `k`.

Its actions:
* `Rearm`: some tags get a new slot, always for an instant not yet passed.
  In the same step some late actions run, each within the grace window and
  not yet run in the incarnation.
* `Tick`: the clock moves on, and the action armed for the tick that ends
  runs exactly once.
* `NewIncarnation`: a new process starts, only from an empty engine.

`CronScheduler` maps onto it through `OSE == INSTANCE OneShotEngine WITH
inc <- incarnation, sched <- {a : oneshot[t][a] > 0}, fired <- firings`, and
`ImplementsOneShotEngine == OSE!Spec`:
* `JoinList` maps to a `Rearm` with late runs;
* `HandleMessage`, the timer and the crash map to a `Rearm` without any;
* `Tick` maps to `Tick`;
* `Restart` maps to `NewIncarnation`;
* every other step leaves the engine alone.

A second gocron job for a tag shows as a `Tick` that runs twice, and a
passed instant registered shows as a `Rearm` that arms the past. Either one
breaks the refinement.

### CronString

A schedule is either a cron expression, or a descriptor: a kind (`timing`: a
clock time daily or on a weekday; `gap`: every N minutes or hours), the
clock time, a frequency and the count N. `ConvertCronString` follows
`convertCronString` (lines 233-272) step by step:
* it writes `"0 "` for the seconds;
* for `timing` it splits the time on `:` (the parts, read as numbers, are the
  model's `time`), fails unless there are two parts, and writes `MM HH`;
* it appends the fields of the frequency: `*/1 * *`, `* * d`, `*/N * * * *`
  or `0 */N * * *`.

The result is kept as the sequence of its fields, which is what the parser
reads. `LiveCron` is `updateCronjob`'s choice (lines 184-194): an error
aborts the update. `StartupCron` is `registerCronjob`'s (lines 464-469): the
error is dropped and the empty string is registered. cronlib is not in the
sample; `Parses`, `Matches` and `Firings` model its parser from its
documented format: six fields, seconds first, `*/N` counting from the field's
minimum. `Firings` gives the minutes of one week the string fires at.
`MCCronString` compares them with what the descriptor says (`Meets`):
every day or one weekday at the clock time, or firings exactly N minutes
(N*60 for hours) apart.

### GrayRelease and GrayReleaseRun

A workflow is a function from job names to `GraySpec` records. A target's
identity key `{workloadType, workloadName, containerName}` is one model value.
`LintWorkflow` is the lint every save runs.
* `GrayReleaseAssumption` says what the workflow's stages give: `JobOrder`
  lists every job once, in stage order, and `StageOf` never decreases along
  it.
* `ReleaseJobs` is lintFirstGrayReleaseJob's `releaseJobs` list, kept as the
  positions of those jobs in `JobOrder`. The list is built in stage order, so
  "the last one" is the largest position (`LastRelease`).
* `UpdateWithLatestSetting` is `ReconcileFields`, the three branches at lines
  165-180, followed by `MergeTargets`, lines 182-196. The branches are an
  `IF`/`ELSE IF` chain, like the Go. A `CASE` whose arms overlap is a
  nondeterministic choice in TLA+, so it would model a different program.
  `MergeTargets` is the loop over `latestSpec.Targets` (lines 188-194):
  `MergeLoop` is a recursive function on the loop's prefixes, and
  `MergeStep` is one pass, appending the user's entry when its key is in
  `userConfiguredService`. So the result keeps the latest list's order.
  `LastIndexOf` gives the user's entry that wins in `userConfiguredService`
  when the user lists a key twice.
* `ToJobsOK` / `CompiledSpec` / `TasksOf` are `ToJobs` split into its error
  returns, the spec it stores back into the workflow, and its tasks.
* `GrayReplica` is the exact ceiling (see the hazard below).

`GrayReleaseRun` has these variables:
* `saved`: the latest saved workflow;
* `options` and `held`: the run dialog's copy;
* `run`: the workflow being compiled;
* `pc` and `idx`: the compiler's position;
* `tasks`: the compiled tasks.

`SaveWorkflow` may happen between any two steps of a run. It stores a whole
workflow (`SaveableWorkflows`: every job's spec a candidate, every job
linting), as a save in aslan does: the lint of a first job reads its chained
jobs, so saving one job at a time would miss workflows whose jobs change
together. `UpdateStep` reads `saved` when it runs, as the code calls
`FindSavedWorkflow` once per job. `CompileFails` covers every error return
of `ToJobs`: the checks of `ToJobsOK`, and the calls to the kube client
(first jobs) and to the cluster collection (every job, lines 251-254), which
may fail at any time.

### Approval and ApprovalRun

The code reads only the approval struct of the spec's own type, so a spec has
`native` and one `vendor` field, and either may be `Nil`, a nil pointer.
* `LintJob` is lines 214-282. WorkWX has no check (the TODO at line 276).
* `ReferenceError` is the error returns of `getOriginReferedJobSpec` and of
  `ToJobs`.
* `ReferencePanics` is the nil dereferences at lines 171-172 and 198.
* `NativeGate` / `VendorGate` / `CompiledGate` are the gate that `ToJobs`
  builds.

`ApprovalRun` has the same run skeleton as `GrayReleaseRun`, plus `members`,
the current members of each approver group. `ChangeMembers` may happen at
any moment. `StartRun` lints the held copy, as the workflow compiler does
before it compiles, and fails the run when the copy does not lint.
`UpdateWithLatestSetting` replaces the spec with the latest saved one, which
drops the run arguments. `CompileStep` ends the run on an error or a panic.

## 3. Runs

All cron runs use one workflow owner with recurring trigger `r1`, one
release-plan owner with one-shot trigger `o1`, clock 0..4, grace 1 tick,
init timeout 2 ticks, 3 saves and 2 incarnations. These bounds are enough for
every scenario the properties are about: a save, its message and a crash can
all happen both before and after a startup, and an instant can be future,
just passed, or older than the grace window.

| Run | Expect | What it shows |
|---|---|---|
| `cron_safety` | pass | With failing calls to aslan, reordered delivery, crashes and restarts, a release-plan step never runs twice in one incarnation (`OneShotNoDoubleFire`). The gocron side implements `OneShotEngine` (`ImplementsOneShotEngine`, a refinement checked as a temporal property): one instant per tag, never a passed one, late runs only within `[a, a+grace]` and once per incarnation. |
| `cron_converge` | pass | With reliable calls and FIFO delivery, once every message is handled the cronlib engine holds exactly the enabled recurring triggers (`RecurringAgreesWithIntent`). Under `FairSpec`, every behaviour ends either down for good or settled: running, the queue drained, and the engine in that agreement (`EventuallyConverges`). |
| `cron_resurrect` | violation | A failed disable POST, then a restart, re-registers the disabled schedule. |
| `cron_legacy` | violation | Startup skips `WorkflowCronjob` (lines 458-459), so a legacy schedule stops after a restart. |
| `cron_oneshot_lost` | violation | A release plan disabled and re-enabled is disabled in aslan by the late disable POST and lost at the next restart. |
| `cron_refire` | violation | A release-plan step that fired just before a crash fires again within the 30s window after the restart. |
| `cron_every_n` | violation | A fixed gap of 7 minutes becomes `0 */7 * * * *`: firings at :56 and at :00 of the next hour, 4 minutes apart. |
| `gray_chain` | pass | Whole-workflow saves that keep clusters and namespaces interleave with a run. Every compiled chain deploys the first job's targets and replica counts (`ChainSharesFirstJobTargets`), and every task's canary asks for at most the replicas it read and for at least one pod at a positive percentage (`CanaryWithinReplicas`). |
| `gray_recluster` | violation | A save that moves a chained job to another cluster blanks its `FromJob` in the run; the chain stops at 40% with no error. |
| `approval_gates` | pass | Saves, malformed run arguments and group changes interleave with a run. Every compiled Lark or DingTalk gate has nodes that each have approvers and an AND/OR rule, DingTalk has at most `NodeCap` nodes and no repeated approver (`CompiledVendorGatesWellFormed`), and `ToJobs` never dereferences nil (`NoNilDereference`). |
| `approval_fromjob_native` | violation | A native job referencing another compiles the origin's approvers with its own needed count. |
| `approval_workwx` | violation | A referencing WorkWX job without its own struct passes lint and panics in `ToJobs`. |

`cron_every_n` takes each descriptor with clock times 09:30, 23:05 and the
malformed `9`, and counts 1, 7, 15 and 90. With only counts that divide
both 60 and 24 (e.g. `Numbers == {1, 12}`), TLC finds no violation, so the
daily, weekday and malformed-time cases agree with the spec. In the run,
7 and 90 break every-N-minutes, and 7, 15 and 90 break every-N-hours.

Setting `InOrder = FALSE` in `CronScheduler_converge.cfg` (with `Spec` and
only `RecurringAgreesWithIntent`) makes TLC find the ordering problem
described in section 4.

The `Memberships` constant also lets `NativeGatesSatisfiable` be checked for a
group that shrinks between the lint and `ToJobs`: substitute
`MCCandidatesGroup` and `MembershipChanges <- TRUE` in
`ApprovalRun_fromjob_native.cfg`. TLC then finds a gate that needs two
approvals and has one approver (StartRun, ChangeMembers, UpdateStep,
CompileStep). `ToJobs` flattens groups at compile time, as intended, but does
not recount them.

The gray-release instance:
* jobs `f` (stage 1), `a` (stage 2) and `b` (stage 3), with `a` and `b`
  chained to `f`;
* three workloads: live counts 2 and 1 (1 replica at 40% rounds up to all of
  it), and one the cluster lacks;
* twelve saved variants of the first job, and the chained jobs' percentages
  and clusters.

The approval instance:
* jobs `p` and `q`, in that order, where `q` may reference `p`;
* users `u1` and `u2`, one group `g1` whose members are `{u1}` or `{u1,u2}`;
* vendor ids `v1` and `v2`;
* nodes with and without approvers and with an invalid rule (`XOR`);
* `NodeCap = 1`, so that a two-node DingTalk spec exceeds the cap just as 21
  nodes do in the code.
* The run arguments are malformed Lark and DingTalk specs, which show that
  `UpdateWithLatestSetting` discards them.

Each property of a passing run is also checked against a mutant of the code
(`mutants` in `PROJECT.json`). Each mutant makes one of these changes:
* one-shot triggers registered in cronlib;
* a missing `RemoveByTags`;
* a stop that ignores the schedule type;
* a chained job that keeps its own targets;
* a ceiling computed as floor plus one, or as the floor;
* groups compiled without flattening;
* a lint missing the DingTalk limits or the Lark nil check. Two more mutants follow:
* a startup that arms a listed release plan whose instant has passed breaks
  the refinement;
* a failsafe goroutine that drops its list instead of sending it breaks
  `EventuallyConverges`. The second select then waits for the timer, so
  startup hangs even though aslan answered.

TLC finds each mutant's property violated.

Only `cron_converge` assumes fairness (`FairSpec`, section 2), and it keeps
`RemoteFails = FALSE`. When aslan does not answer, the code guarantees
nothing but the fatal timer. `EventuallyConverges` allows the process to
end down, because a restart is up to the deployment, not this code. The
property does not need the clock to advance: with aslan answering, startup
never relies on the timer.

## 4. Findings

The violation runs are the findings listed in `PROJECT.json`:
* the non-atomic disable (already marked FIXME);
* every-N-minutes/hours cron strings that restart at each hour or day;
* legacy workflow schedules dropped at startup;
* a re-enabled release plan disabled by a late POST;
* the 30s window re-running a step that already ran;
* `UpdateWithLatestSetting` blanking a chained job's `FromJob` when its saved
  cluster changes;
* a referencing native approval that mixes the origin's approvers with its own
  needed count;
* a nil dereference for a referencing WorkWX approval, which nothing lints.

Message ordering is not a finding of a run, because the spec does not say what orders the
messages: `HandleMessage` applies each message as it arrives. An enable
consumed after the disable that followed it leaves the disabled schedule
registered.

## 5. Proofs

`CronScheduler_proofs.tla` proves `TypeCorrect == Spec => []TypeOK` for every
value of the constants, assuming only `ConstantsAssumption`: disjoint id sets,
a total `OwnerOf`, and natural bounds. `TypeOK` is inductive by itself:
* `InitTypeOK` shows `Init => TypeOK`.
* `NextTypeOK` has one step per action. The message handler is split into its
  enable and disable cases.
* The lemmas `RemoveAtType`, `ListsType`, `RegisterCronjobsType`,
  `StopLocalType` and `UpdateCronjobType` type the helpers the actions share.

It also proves `NoDoubleFire == Spec => []OneShotNoDoubleFire`, the
invariant of the `cron_safety` run, for every instance.

`OneShotNoDoubleFire` is not inductive as it stands. A state can hold a
gocron job for an instant that already ran, and the next tick would then run
it twice. The strengthening `OneShotInv` says, for the current incarnation:
* a tag's entry for an instant is 0 or 1;
* a registered instant is not passed and has not run;
* an instant that ran is passed;
* before the first select, and while the process is down, nothing is
  registered;
* before the first select, nothing has run in the incarnation;
* later incarnations have run nothing;
* the failsafe list holds only recurring triggers.

The argument:
* `registerReleasePlanJob` registers only instants not yet passed, which
  have therefore not run.
* The first select runs only passed instants, and registers only future
  ones, in an incarnation that has run nothing.
* The second select registers no one-shot.
* A tick runs the current instant's single job and removes it.

One lemma per action (`JoinListOneShotInv`, `TickOneShotInv`,
`HandleMessageOneShotInv`) and one frame lemma carry the argument. TLC
checked `OneShotInv` as an invariant of the `cron_safety` instance before the
proof.

`CronScheduler_intent.tla` proves `IntentAgreement`: under the hypothesis
`Reliable`, `Spec => []RecurringAgreesWithIntent` holds for every instance.
`Reliable` says that messages are delivered in order (`InOrder`), calls to
aslan do not fail (`~RemoteFails`), and there are no legacy triggers
(`LegacyIds = {}`). These are the constants of `cron_converge`. Each
hypothesis is needed:
* `cron_resurrect`: a failed disable call leaves the cronjob enabled in
  aslan, so a restart registers it again;
* `cron_legacy`: startup never registers a legacy trigger;
* reordered delivery breaks the property too (section 3).

The property is not inductive, because it says nothing while messages are
pending or the service is starting. The strengthening `IntentInv` follows
each owner:
* `MsgsOK`: a message names only its owner's triggers, and an enable names
  all of them.
* `LastAgrees`: the owner's last pending message carries the owner's current
  setting.
* `WipedBeforeJoin`: the engine is empty while the process is down and
  before the first select.
* `Settled`, for a trigger whose owner has no pending message. A disabled
  owner's cronjobs are disabled in aslan. The running engine holds the
  trigger exactly when the setting is on. The fetched enabled list names it
  only if the setting is on, and the failsafe list names it exactly then.

The lemmas:
* one lemma per action;
* `AppendIntent`, shared by both saves;
* `RemoveFirst`, for the in-order delivery of `HandleMessage`.

`HandleMessageIntent` carries the main case. When the handled message is the
owner's last, `LastAgrees` gives its type, which is the setting, and the
handler leaves the engine and aslan's collection as that setting says.

TLC checked `IntentInv` on the `cron_converge` instance (735,145 states)
before the proof.

`GrayReleaseRun_proofs.tla` proves `ChainSharesTargets == Spec =>
[]ChainSharesFirstJobTargets` for every instance. The proof assumes
`GrayReleaseAssumption` and `RunAssumption`: candidates are `GraySpec`
records. The property is not inductive. It speaks only of `pc = "done"`, and
whether a run ends that way depends on the whole history of `run`. The
strengthening `IInv` says:
* the saved workflow is typed and has the chain shape (`ChainShape`): a
  chained job's `FromJob` names a first job of an earlier stage;
* the caller's copy and the run's workflow are spec records with the chain
  shape;
* every job at a stage position already passed by `ToJobs` is compiled
  (`CompiledJobOK`). Its tasks are those of its spec in `run`, and a chained
  job's targets are its first job's.

The argument:
* `LintChainShape`: a workflow that lints has the chain shape, because
  lintFirstGrayReleaseJob checks the rank of every job that names the first
  job.
* `UpdateShape` and `BlankingKeepsShape`: `UpdateWithLatestSetting` keeps a
  `FromJob` or blanks it, and blanking keeps the shape. It can move a chained
  job to a first job, never the other way. `MergeArgsShape` keeps `FromJob`
  as it is.
* `FirstBeforeChained` and `CompileStepIInv`: ToJobs walks `JobOrder`, and
  stage order puts a first job before its chained jobs. When a chained job
  inherits, its first job's compiled spec is already in `run`. Later steps
  write only later positions, so neither of them changes again.
* `NextIInv` has one step per action. `IInvChainShares` reads the property
  off `IInv`.

TLC checked `IInv` on both gray-release instances before the proof.

`ApprovalRun_proofs.tla` proves two theorems about the approval runs, from
`ApprovalAssumption` (which includes `Nil \notin VendorSpec`, so that a nil
pointer is no struct) and `RunAssumption`:
* `VendorGatesWellFormed == Spec => []CompiledVendorGatesWellFormed`, for
  every instance.
* `OnlyWorkWXPanics`: under the hypothesis `WorkWXStructsPresent` (every
  saveable WorkWX spec has its struct), `Spec => []NoNilDereference`. With
  the `approval_workwx` run, this shows that the missing WorkWX lint is the
  only way to reach the nil dereference.

Both rest on the inductive invariant `IInv` (`InvariantHolds == Spec =>
[]IInv`). The lint is checked against the group members of its own moment,
and members change, so `LintJob` itself is not invariant. `IInv` keeps
`SpecLint`, the part of `LintJob` that does not read members. It states:
* every saved spec is a candidate passing `SpecLint`;
* during a run, every job of the run's workflow passes `SpecLint`, because
  the held copy was linted at `StartRun` and every job replaced since came
  from a saved one;
* the jobs `UpdateWithLatestSetting` already replaced are candidates;
* every compiled gate is well formed.

The lemmas split `ToJobs`:
* `ResolvedOrigin`: an accepted `FromJob` reference names a job of the same
  type with its struct.
* `CompiledGateType` and `CompiledGateWellFormed`: the gate that `ToJobs`
  builds.
* `VendorNodesOKByNodes`: the node checks read only the nodes.

TLC checked `IInv` on the `approval_gates` and `approval_workwx` instances
before the proof. `RunTypeCorrect == Spec => []TypeOK` follows from
`InvariantHolds`.

`CronScheduler_refinement.tla` proves `Refinement == Spec =>
ImplementsOneShotEngine` for every instance. It rests on `RInv`, which is
`OneShotInv` plus `SingleSlot`: no tag ever holds jobs for two instants,
because every registration replaces the tag's entry. `RInvHolds` proves
`Spec => []RInv`. The steps:
* `Init` maps to `OSE!Init`.
* `StepRefines` maps each step to an abstract step or a stutter, with one
  lemma per kind of step: `JoinListRefines`, `TickRefines`,
  `RestartRefines` and `RearmNothingLate`.
* `SchedShape` shows that, after any step, every tag holds one slot at most,
  armed for an instant not passed.
* `JoinListRefines` takes the abstract step's late runs to be exactly the
  pairs `FiresNow` selects. `OneShotInv` shows that they have not run in the
  incarnation.
* `TickRefines` needs `oneshot[t][now]` to be 0 or 1, which `OneShotInv`
  gives.

`GrayReleaseRun_typing.tla` proves `GrayTypeCorrect == Spec => []TypeOK`
for the gray-release runs, for every instance. `TypeOK` is not inductive by
itself: `idx` stays within the stage list only because the run's position
is tracked, so the proof carries `IInv` of `GrayReleaseRun_proofs` along
(`Init => IInv /\ TypeOK`, and `NextIInv` with `NextType` for the step).
What it rests on:
* `MergeTargetsType`: the merge loop yields a list of targets. The recursion
  `MergeLoop` is a `CHOOSE` in TLA+, so `MergeLoopExists` first builds a
  solution for every prefix length, extending the one for n - 1 by one pass,
  and `MergeLoopFix` concludes that `MergeLoop` satisfies it. Both
  inductions are least-counterexample arguments: `LeastNat`, from
  `WFMin` and `NatLessThanWellFounded`. The library's induction rules take an
  operator argument, which the provers cannot instantiate.
* `LastIndexOfFacts`: a key the user configured has a last position, which
  is the entry `userConfiguredService` keeps.
* `GrayReplicaBounds`: for a percentage in 0..100, the exact ceiling
  `(r * s + 99) \div 100` lies in 0..r, is at least 1 when r and s are
  positive, and is r at 100%. `TasksType` uses it to show that every canary
  count is a replica count.
* `UpdateType`, `MergeArgsType`, `SubSeqsType` and `CompiledType`: the
  operators keep their types. `CompiledType` holds because `ToJobs` stores a
  first job's live counts only when every deployment exists.

TLC checked `TypeOK` on both gray-release instances before the proof.

`TypeOK` bounds a canary count only by `MaxReplica`. The same module proves
`CanaryBounded == Spec => []CanaryWithinReplicas`, which compares each task's
canary count with the replica count that task read. It is not inductive as it
stands: a task does not record how its count was computed. The strengthening
`TasksCanary` says every task's count is `GrayReplica` of its own replica count
and percentage, with the percentage in 0..100. TLC checked it on both
instances first. Then:
* `TasksOfCanary`: `ToJobs` builds such tasks.
* `NextCanary`: only `StartRun` (which clears the tasks) and `CompileStep`
  (which stores one job's tasks) change them. It uses `CompiledType`, so the
  proof carries `IInv` and `TypeOK` along.
* `CanaryFromTasks`: `GrayReplicaBounds` then gives the two bounds.

`CronString_proofs.tla` proves three theorems about `convertCronString`. TLC
checks only the three clock times of `MCCronString`; these hold for every
clock time HH in 0..23, MM in 0..59, whatever interval count the descriptor
carries:
* `DailyScheduleFiresDaily`: a daily schedule converts without error. The
  string `updateCronjob` registers and the one `registerCronjob` builds at
  startup both fire at HH:MM on each of the seven days and at no other
  minute of the week.
* `WeekdayScheduleFiresOnItsDay`: the same for a weekday, at HH:MM on that
  day only.
* `MalformedTimeNeverFires`: a time that does not split into two parts makes
  `updateCronjob` fail, and the empty string built at startup fires never.

The steps:
* `DailyConversion` and `WeekdayConversion` compute the six fields,
  concatenating them with `ConcatSix` from `SequenceTheorems`.
* `DailyParses` and `WeekdayParses`: cronlib accepts the fields.
* `ClockTimeOfWeek`: minute m of the week is at HH:MM exactly when
  m = d * 1440 + HH * 60 + MM for a day d. This is the div/mod arithmetic.
* `DailyFirings` and `WeekdayFirings` match the fields one by one.

These are the cases of `CronStringAsDescribed` that hold. The `*/N`
intervals are the ones `cron_every_n` refutes.

TLC only checks the following:
* all other properties, on the instances above;
* liveness: `EventuallyConverges` is out of TLAPS's reach (fairness and
  `ENABLED`);
* what `FlattenSeq` (in `Approval`) computes for every input;
* `ChainEndsInFullRelease` is not an invariant of the code, and no run
  expects it to hold. The lint holds of each saved version, but a run mixes
  versions. `UpdateWithLatestSetting` can blank a `FromJob` (`gray_recluster`).
  It also keeps the copy's `FromJob` while taking the latest percentage
  (lines 177-180). With five jobs on one cluster, TLC finds the second case
  too: `f`'s chain in the copy is `a` at 40%, `b` at 100%; the latest save
  has `a`→`f` at 100% and `b`→`g` at 40%; the compiled chain of `f` ends at
  `b`'s 40%. No run checks that instance, because the runs are capped.
  In the three-job instance of `gray_chain`, only one chain shape lints,
  so the property could not fail there, and it was removed from that run.

## 6. Hazards

`PROJECT.json` lists each hazard at the line where it bites, with the
properties that cover it. Three are not fully covered:
* `job_gray_release.go:257` computes `math.Ceil(float64(r) *
  (float64(s)/100))`. For 141 pairs with r ≤ 1000 and s ≤ 100 this gives one
  more replica than the exact ceiling, e.g. r=100, s=7 gives 8. The model uses
  the exact value, because TLC has no IEEE-754 arithmetic. For the exact value,
  `CanaryWithinReplicas` checks, and `CanaryBounded` proves, that the count
  never exceeds the replica count read and is positive at a positive
  percentage.
* Registration errors from `NewJob`, and a failed cron conversion, make
  `updateCronjob` return early. `CronScheduler` generates neither, and what
  the caller does with the returned error is outside the sample.
  `CronString` checks that a malformed clock time registers nothing on both
  paths.
* The race at `cronjob_handler.go:689`: the instant passes between the
  `Before(time.Now())` check and `NewJob`. `RemoveByTags` has already
  dropped the old job, so the plan is left with none. Model instants lie
  strictly inside ticks, so the two readings of the clock always agree.

## 7. Not modelled, and the plan

* Approval Engine: the approval itself (polling the vendor, users voting)
  happens in the job's executor, which is not in this sample. `Instantiate`
  only decodes YAML, and `SetOptions`, `ClearOptions` and
  `ClearSelectionField` do nothing.
* The payloads of fired jobs, which only aslan interprets. `CronScheduler`
  and `CronString` are separate: the scheduler model treats a registered
  recurring trigger as an id, without its firing minutes.
* HTTP routes and handlers, labels, the Jenkins model, the archive step, pod
  exec over websocket, git step types and JSON helpers: I/O glue with no state
  of their own.
* Parts of the cron handlers that no message of the model exercises:
  * the `deleteList` removals of `updateCronjob` (lines 154-160 and 176-181),
    because messages never carry deletions;
  * its early returns on a conversion or registration error (lines 187-190
    and 198-221);
  * the failure of `stopCronjob`'s GET at lines 363-372, which returns
    before any local stop. `StopLocal` stops the owner's ids, `IdsOf(owner)`,
    rather than the list aslan returns;
  * handler errors, and the early return of the batch loop (lines 130-151)
    that they would cause. The handlers in the model never fail.
* Proofs still open: the TLC-only properties listed in section 5.

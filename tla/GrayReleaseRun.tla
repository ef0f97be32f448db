--------------------------- MODULE GrayReleaseRun ---------------------------
(***************************************************************************)
(* A workflow's gray-release jobs from edit to compiled tasks.  Users save *)
(* new job specs (a save is refused unless every job lints); a run dialog  *)
(* takes a copy of the saved workflow (SetPreset / SetOptions), the user   *)
(* picks targets (MergeArgs), and a run compiles the copy: first           *)
(* UpdateWithLatestSetting of every job against the latest saved           *)
(* workflow, then ToJobs of every job, in stage order, one job at a time.  *)
(* Saves may happen at any moment, also while a run is being compiled.     *)
(***************************************************************************)
EXTENDS GrayRelease

CONSTANTS
    Candidates,   \* the job specs users may save
    Live          \* live replicas: cluster -> namespace -> workload -> count or Absent

ASSUME RunAssumption ==
    /\ Candidates \subseteq GraySpec
    /\ Live \in [Clusters -> [Namespaces \cup {NoNamespace} -> [Workloads -> Replicas \cup {Absent}]]]

VARIABLES
    saved,    \* the latest saved workflow (FindSavedWorkflow)
    options,  \* TargetOptions the run dialog offers, per job
    held,     \* the caller's copy of the workflow, passed to the run
    run,      \* the workflow being compiled
    pc,       \* "idle", "update", "compile", "done" or "failed"
    idx,      \* position in JobOrder of the job being processed
    tasks     \* the compiled tasks of each job

vars == <<saved, options, held, run, pc, idx, tasks>>

N == Len(JobOrder)

TypeOK ==
    /\ saved \in [Jobs -> GraySpec]
    /\ options \in [Jobs -> Seq(Target)]
    /\ held \in [Jobs -> GraySpec]
    /\ run \in [Jobs -> GraySpec]
    /\ pc \in {"idle", "update", "compile", "done", "failed"}
    /\ idx \in 1..(N + 1)
    /\ tasks \in [Jobs -> Seq(Task)]

NoTasks == [j \in Jobs |-> <<>>]

-----------------------------------------------------------------------------
\* The workflows a save can store: each job's spec one of the candidates,
\* and every job linting.
SaveableWorkflows == {W \in [Jobs -> Candidates] : LintWorkflow(W)}

\* A user saves the workflow W; the save path lints every job.
SaveWorkflow(W) ==
    /\ saved' = W
    /\ UNCHANGED <<options, held, run, pc, idx, tasks>>

\* The run dialog loads the saved workflow; SetOptions offers each job's
\* saved targets as TargetOptions.
OpenRun ==
    /\ pc \in {"idle", "done", "failed"}
    /\ held' = saved
    /\ options' = [j \in Jobs |-> saved[j].targets]
    /\ pc' = "idle"
    /\ UNCHANGED <<saved, run, idx, tasks>>

\* The target lists the user can pick from options s: its subsequences.
SubSeqs(s) ==
    UNION {{[k \in 1..n |-> s[g[k]]] :
              g \in {h \in [1..n -> 1..Len(s)] : \A k \in 1..(n - 1) : h[k] < h[k + 1]}} :
           n \in 0..Len(s)}

\* The user passes targets ts for job j, chosen among the options; MergeArgs
\* puts them in the copy.
SelectTargets(j, ts) ==
    /\ pc = "idle"
    /\ held' = [held EXCEPT ![j] = MergeArgs(held[j], ts)]
    /\ UNCHANGED <<saved, options, run, pc, idx, tasks>>

StartRun ==
    /\ pc = "idle"
    /\ run' = held
    /\ pc' = "update"
    /\ idx' = 1
    /\ tasks' = NoTasks
    /\ UNCHANGED <<saved, options, held>>

\* UpdateWithLatestSetting of the next job, against the saved workflow as it
\* is at this moment.
UpdateStep ==
    /\ pc = "update"
    /\ LET j == JobOrder[idx] IN
       run' = [run EXCEPT ![j] = UpdateWithLatestSetting(run[j], saved[j])]
    /\ IF idx = N THEN pc' = "compile" /\ idx' = 1 ELSE pc' = pc /\ idx' = idx + 1
    /\ UNCHANGED <<saved, options, held, tasks>>

\* ToJobs of the next job succeeds: its tasks are produced and its compiled
\* spec is stored back in the workflow (j.job.Spec = j.spec).
CompileStep ==
    /\ pc = "compile"
    /\ LET j == JobOrder[idx]
           s == CompiledSpec(j, run, Live)
       IN /\ ToJobsOK(j, run, Live)
          /\ run' = [run EXCEPT ![j] = s]
          /\ tasks' = [tasks EXCEPT ![j] = TasksOf(j, s, run[j].from = NoFrom)]
    /\ IF idx = N THEN pc' = "done" /\ idx' = idx ELSE pc' = pc /\ idx' = idx + 1
    /\ UNCHANGED <<saved, options, held>>

\* ToJobs of the next job returns an error: a percentage out of range or a
\* missing deployment (~ToJobsOK), or a failed call to the kube client of a
\* first job or to the cluster collection, which every job makes.  A call
\* may fail at any time, so the step is possible whatever the run holds.
CompileFails ==
    /\ pc = "compile"
    /\ pc' = "failed"
    /\ UNCHANGED <<saved, options, held, run, idx, tasks>>

\* A finished run; the caller may start another with the same copy.
Reset ==
    /\ pc \in {"done", "failed"}
    /\ pc' = "idle"
    /\ UNCHANGED <<saved, options, held, run, idx, tasks>>

-----------------------------------------------------------------------------
Init ==
    /\ saved \in SaveableWorkflows
    /\ options = [j \in Jobs |-> saved[j].targets]
    /\ held = saved
    /\ run = saved
    /\ pc = "idle"
    /\ idx = 1
    /\ tasks = NoTasks

Next ==
    \/ \E W \in SaveableWorkflows : SaveWorkflow(W)
    \/ OpenRun
    \/ \E j \in Jobs : \E ts \in SubSeqs(options[j]) : SelectTargets(j, ts)
    \/ StartRun \/ UpdateStep \/ CompileStep \/ CompileFails \/ Reset

Spec == Init /\ [][Next]_vars

-----------------------------------------------------------------------------
(* Properties.                                                             *)

\* The first job a chained job deploys from in the compiled run.
FromOf(c) == run[c].from

\* In a compiled run, every chained job deploys exactly the targets of the
\* first job it references, with the replica counts that first job read
\* from the cluster (ToJobs inherits them through the shared workflow).
ChainSharesFirstJobTargets ==
    pc = "done" =>
        \A c \in Jobs :
            FromOf(c) # NoFrom =>
                /\ DOMAIN tasks[c] = DOMAIN tasks[FromOf(c)]
                /\ \A i \in DOMAIN tasks[c] :
                      /\ tasks[c][i].key = tasks[FromOf(c)][i].key
                      /\ tasks[c][i].total = tasks[FromOf(c)][i].total

\* Every task ToJobs compiles asks for no more canary pods than the replica
\* count it read, and for at least one pod when it read some and its
\* percentage is positive: the math.Ceil of job_gray_release.go:257 never
\* rounds past the deployment nor down to an empty canary.  Chained jobs
\* read their counts from the first job through the shared workflow.
CanaryWithinReplicas ==
    \A j \in Jobs : \A i \in DOMAIN tasks[j] :
        /\ tasks[j][i].gray <= tasks[j][i].total
        /\ (tasks[j][i].total > 0 /\ tasks[j][i].scale > 0) => tasks[j][i].gray > 0

\* In a compiled run, a canary that deploys anything ends in a full
\* release: the first job has chained jobs, and the last of them in stage
\* order deploys every target of the first job at its full replica count.
\* Lint checks this of the saved workflow; the run compiles a copy that
\* UpdateWithLatestSetting has reconciled job by job.
ChainEndsInFullRelease ==
    pc = "done" =>
        \A f \in Jobs :
            (run[f].from = NoFrom /\ tasks[f] # <<>>) =>
                /\ ReleaseJobs(f, run) # {}
                /\ LET l == LastRelease(f, run) IN
                   /\ Len(tasks[l]) = Len(tasks[f])
                   /\ \A k \in 1..Len(tasks[f]) : tasks[l][k].gray = tasks[l][k].total

=============================================================================

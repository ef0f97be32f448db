---------------------------- MODULE GrayRelease ----------------------------
(***************************************************************************)
(* The gray-release (canary) job variant, job_gray_release.go, as          *)
(* operators on a workflow's gray-release job specs: LintJob and           *)
(* lintFirstGrayReleaseJob, UpdateWithLatestSetting, MergeArgs and ToJobs. *)
(* A workflow is a function from job names to specs; the stage order of    *)
(* the jobs is the constant sequence JobOrder and a job's execution rank   *)
(* is the number of its stage.  All jobs in Jobs are gray-release jobs.    *)
(*                                                                         *)
(* A target's identity key {workloadType, workloadName, containerName} is  *)
(* one model value of Workloads; its image is the user's choice.  The      *)
(* registry id, the display names and the task keys are left out.          *)
(***************************************************************************)
EXTENDS Naturals, Sequences

CONSTANTS
    Jobs,          \* names of the gray-release jobs of the workflow
    JobOrder,      \* the jobs in stage order
    StageOf,       \* the stage number of each job (its execution rank)
    Clusters,      \* cluster ids
    Namespaces,    \* namespaces
    Workloads,     \* target identity keys
    Images,        \* images a target may deploy
    MaxReplica,    \* largest live replica count
    Timeouts,      \* deploy timeouts
    NoFrom,        \* the empty from-job reference: the chain's first job
    NoNamespace,   \* the empty namespace
    Absent         \* a deployment the cluster does not have

\* JobOrder lists every job once, in stage order (the workflow's stages).
ASSUME GrayReleaseAssumption ==
    /\ Jobs # {}
    /\ JobOrder \in Seq(Jobs)
    /\ \A i, k \in 1..Len(JobOrder) : JobOrder[i] = JobOrder[k] => i = k
    /\ \A j \in Jobs : \E i \in 1..Len(JobOrder) : JobOrder[i] = j
    /\ StageOf \in [Jobs -> Nat]
    /\ \A i, k \in 1..Len(JobOrder) : i <= k => StageOf[JobOrder[i]] <= StageOf[JobOrder[k]]
    /\ MaxReplica \in Nat
    /\ 0 \in Timeouts
    /\ NoFrom \notin Jobs /\ NoNamespace \notin Namespaces
    /\ Absent \notin Nat

\* Canary percentages used by the model (the UI offers 0..100).
Scales == {0, 40, 100}

Replicas == 0..MaxReplica

Target == [key : Workloads, image : Images, replica : Replicas]

\* A gray-release job spec (GrayReleaseJobSpec).
GraySpec == [cluster : Clusters, ns : Namespaces \cup {NoNamespace},
             from : Jobs \cup {NoFrom}, scale : Scales, timeout : Timeouts,
             targets : Seq(Target)]

\* A compiled task (JobTaskGrayReleaseSpec), one per target.
Task == [job : Jobs, cluster : Clusters, ns : Namespaces \cup {NoNamespace},
         key : Workloads, image : Images, first : BOOLEAN,
         scale : Nat, total : Replicas, gray : Replicas]

Keys(ts) == {ts[i].key : i \in DOMAIN ts}

-----------------------------------------------------------------------------
(* LintJob.                                                                *)

\* The chained jobs of first job `name` (lintFirstGrayReleaseJob's
\* releaseJobs), as their positions in the stage order.
ReleaseJobs(name, W) == {i \in 1..Len(JobOrder) : W[JobOrder[i]].from = name}

\* The last of them in stage order.
LastRelease(name, W) ==
    JobOrder[CHOOSE i \in ReleaseJobs(name, W) : \A k \in ReleaseJobs(name, W) : k <= i]

\* Variant: the check that the last chained job is a full release left out.
LintFirstGrayReleaseJobNoFullRelease(name, W) ==
    LET R == ReleaseJobs(name, W) IN
    /\ R # {}
    /\ \A i \in R :
          /\ StageOf[name] < StageOf[JobOrder[i]]
          /\ (\E k \in R : i < k) => W[JobOrder[i]].scale < 100

\* lintFirstGrayReleaseJob: at least one chained job; each runs after the
\* first job; only the last one (in stage order) is a full release.
LintFirstGrayReleaseJob(name, W) ==
    LET R == ReleaseJobs(name, W) IN
    /\ R # {}
    /\ \A i \in R :
          /\ StageOf[name] < StageOf[JobOrder[i]]
          /\ (\E k \in R : i < k) => W[JobOrder[i]].scale < 100
          /\ (\A k \in R : k <= i) => W[JobOrder[i]].scale = 100

\* LintJob of job j of workflow W (the license check is assumed to pass).
LintJob(j, W) ==
    /\ W[j].scale <= 100
    /\ IF W[j].from = NoFrom
       THEN LintFirstGrayReleaseJob(j, W)
       ELSE W[j].from \in Jobs /\ W[W[j].from].from = NoFrom

\* Saving a workflow requires every job to lint.
LintWorkflow(W) == \A j \in Jobs : LintJob(j, W)

-----------------------------------------------------------------------------
(* UpdateWithLatestSetting.                                                *)

\* The last position of key k in target list ts (the map entry that wins).
LastIndexOf(ts, k) ==
    CHOOSE i \in DOMAIN ts : ts[i].key = k /\ \A m \in DOMAIN ts : ts[m].key = k => m <= i

\* One pass of the loop over latestSpec.Targets: the i-th latest target's
\* key is looked up in userConfiguredService (built from the user's list,
\* so the later entry for a key listed twice wins) and the user's entry
\* is appended when it is there.
MergeStep(merged, user, latest, i) ==
    IF latest[i].key \in Keys(user)
    THEN Append(merged, user[LastIndexOf(user, latest[i].key)])
    ELSE merged

\* mergedServices after each prefix of the loop.
MergeLoop(user, latest) ==
    LET merged[i \in 0..Len(latest)] ==
            IF i = 0 THEN <<>> ELSE MergeStep(merged[i - 1], user, latest, i)
    IN  merged

\* The user's targets that still exist in the latest list, in the latest
\* list's order.
MergeTargets(user, latest) == MergeLoop(user, latest)[Len(latest)]

\* The three branches on what changed in the latest saved spec.
ReconcileFields(cur, latest) ==
    IF latest.cluster # cur.cluster
    THEN [cur EXCEPT !.cluster = latest.cluster, !.scale = 0, !.ns = NoNamespace,
                     !.from = NoFrom, !.timeout = 0, !.targets = <<>>]
    ELSE IF latest.ns # cur.ns
    THEN [cur EXCEPT !.ns = latest.ns, !.targets = <<>>, !.timeout = 0, !.scale = 0]
    ELSE [cur EXCEPT !.timeout = latest.timeout, !.scale = latest.scale]

\* The job's spec after UpdateWithLatestSetting against the latest saved spec.
UpdateWithLatestSetting(cur, latest) ==
    LET r == ReconcileFields(cur, latest) IN
    [r EXCEPT !.targets = MergeTargets(r.targets, latest.targets)]

\* MergeArgs: the caller's targets replace the job's.
MergeArgs(cur, argTargets) == [cur EXCEPT !.targets = argTargets]

-----------------------------------------------------------------------------
(* ToJobs.                                                                 *)

\* Variant: the canary rounded down instead of up.
GrayReplicaFloor(replica, scale) == (replica * scale) \div 100

\* Variant: the ceiling taken as the floor plus one.
GrayReplicaFloorPlusOne(replica, scale) == (replica * scale) \div 100 + 1

\* math.Ceil(replica * (scale / 100)) computed exactly.
GrayReplica(replica, scale) == (replica * scale + 99) \div 100

\* The tasks of job j compiled from spec s (its targets already carry their
\* replica counts).
TasksOf(j, s, first) ==
    [i \in 1..Len(s.targets) |->
        [job |-> j, cluster |-> s.cluster, ns |-> s.ns,
         key |-> s.targets[i].key, image |-> s.targets[i].image, first |-> first,
         scale |-> s.scale, total |-> s.targets[i].replica,
         gray |-> GrayReplica(s.targets[i].replica, s.scale)]]

\* A first job records the live replica count of every target; live maps a
\* cluster, namespace and workload to its replicas or Absent.
WithLiveReplicas(s, live) ==
    [s EXCEPT !.targets = [i \in 1..Len(s.targets) |->
                              [s.targets[i] EXCEPT !.replica =
                                  live[s.cluster][s.ns][s.targets[i].key]]]]

\* Every target of first job spec s exists in the cluster.
AllDeploymentsFound(s, live) ==
    \A i \in 1..Len(s.targets) : live[s.cluster][s.ns][s.targets[i].key] # Absent

\* Variant: the chained job keeps its own (empty) target list.
InheritKeepingOwnTargets(s, fromSpec) ==
    [s EXCEPT !.cluster = fromSpec.cluster, !.ns = fromSpec.ns]

\* A chained job inherits cluster, namespace and targets from its first job.
Inherit(s, fromSpec) ==
    [s EXCEPT !.cluster = fromSpec.cluster, !.ns = fromSpec.ns,
              !.targets = fromSpec.targets]

\* ToJobs of job j in workflow W succeeds.
ToJobsOK(j, W, live) ==
    IF W[j].from # NoFrom
    THEN W[j].scale <= 100 /\ W[j].from \in Jobs
    ELSE W[j].scale < 100 /\ AllDeploymentsFound(W[j], live)

\* The spec ToJobs leaves in the workflow for job j.
CompiledSpec(j, W, live) ==
    IF W[j].from # NoFrom THEN Inherit(W[j], W[W[j].from])
    ELSE WithLiveReplicas(W[j], live)

=============================================================================

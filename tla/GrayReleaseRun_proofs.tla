------------------------ MODULE GrayReleaseRun_proofs ------------------------
(***************************************************************************)
(* Proofs about the gray-release runs: every chained job of a compiled run *)
(* deploys exactly the targets, with the replica counts, that its first    *)
(* job read from the cluster.  The argument: lint makes a chained job's    *)
(* first job a first job of an earlier stage; the run's copy keeps that    *)
(* shape, because UpdateWithLatestSetting only ever blanks a FromJob; and  *)
(* ToJobs walks the stages in order, so the first job's compiled spec is   *)
(* in the workflow, and never changes again, when its chained jobs         *)
(* inherit from it.                                                        *)
(***************************************************************************)
EXTENDS GrayReleaseRun, TLAPS

\* A job spec record (whatever its targets hold).
IsSpec(r) ==
    /\ r = [cluster |-> r.cluster, ns |-> r.ns, from |-> r.from,
            scale |-> r.scale, timeout |-> r.timeout, targets |-> r.targets]
    /\ r.from \in Jobs \cup {NoFrom}

\* Every chained job references a first job of an earlier stage.
ChainShape(W) ==
    \A j \in Jobs : W[j].from # NoFrom =>
        /\ W[j].from \in Jobs
        /\ W[W[j].from].from = NoFrom
        /\ StageOf[W[j].from] < StageOf[j]

\* The job at stage position i has been compiled by the current run.
Compiled(i) == pc = "done" \/ (pc = "compile" /\ i < idx)

\* What ToJobs left for a compiled job: its tasks are those of its spec
\* in the workflow, and a chained job's targets are its first job's.
CompiledJobOK(c) ==
    /\ tasks[c] = TasksOf(c, run[c], run[c].from = NoFrom)
    /\ run[c].from # NoFrom => run[c].targets = run[run[c].from].targets

\* The inductive invariant.  The saved workflow lints, so it has the chain
\* shape; the caller's copy and the run's workflow keep it.  During ToJobs,
\* every job of an earlier stage position is compiled and stays as
\* compiled.
IInv ==
    /\ saved \in [Jobs -> GraySpec]
    /\ ChainShape(saved)
    /\ DOMAIN held = Jobs /\ DOMAIN run = Jobs /\ DOMAIN tasks = Jobs
    /\ \A j \in Jobs : IsSpec(held[j]) /\ IsSpec(run[j])
    /\ ChainShape(held)
    /\ ChainShape(run)
    /\ pc \in {"update", "compile", "done"} => idx \in 1..N
    /\ \A i \in 1..N : Compiled(i) => CompiledJobOK(JobOrder[i])

-----------------------------------------------------------------------------
(* Lemmas on the stage order and on the operators of GrayRelease.          *)

\* The stage order is a non-empty list of jobs.
LEMMA OrderFacts ==
    /\ N \in Nat /\ N >= 1
    /\ \A i \in 1..N : JobOrder[i] \in Jobs
<1>0. JobOrder \in Seq(Jobs)
  BY GrayReleaseAssumption
<1>1. N \in Nat /\ \A i \in 1..N : JobOrder[i] \in Jobs
  BY <1>0 DEF N
<1>2. \E i \in 1..N : TRUE
  BY GrayReleaseAssumption DEF N
<1>3. QED BY <1>1, <1>2

\* A chained job's first job comes earlier in the stage order.
LEMMA FirstBeforeChained ==
    ASSUME NEW W, ChainShape(W), NEW i \in 1..N, W[JobOrder[i]].from # NoFrom,
           NEW p \in 1..N, JobOrder[p] = W[JobOrder[i]].from
    PROVE  p < i
<1>1. StageOf[JobOrder[p]] < StageOf[JobOrder[i]]
  BY OrderFacts DEF ChainShape
<1>2. StageOf[JobOrder[p]] \in Nat /\ StageOf[JobOrder[i]] \in Nat
  BY OrderFacts, GrayReleaseAssumption
<1>3. i <= p => StageOf[JobOrder[i]] <= StageOf[JobOrder[p]]
  BY GrayReleaseAssumption DEF N
<1>4. QED BY <1>1, <1>2, <1>3, OrderFacts

\* A workflow that lints has the chain shape: lintFirstGrayReleaseJob
\* checks the rank of every job whose FromJob names the first job.
LEMMA LintChainShape ==
    ASSUME NEW W, LintWorkflow(W)
    PROVE  ChainShape(W)
<1> SUFFICES ASSUME NEW j \in Jobs, W[j].from # NoFrom
             PROVE  /\ W[j].from \in Jobs
                    /\ W[W[j].from].from = NoFrom
                    /\ StageOf[W[j].from] < StageOf[j]
  BY DEF ChainShape
<1> DEFINE f == W[j].from
<1>1. f \in Jobs /\ W[f].from = NoFrom
  BY DEF LintWorkflow, LintJob
<1>2. LintFirstGrayReleaseJob(f, W)
  BY <1>1 DEF LintWorkflow, LintJob
<1>3. PICK p \in 1..Len(JobOrder) : JobOrder[p] = j
  BY GrayReleaseAssumption
<1>4. p \in ReleaseJobs(f, W)
  BY <1>3 DEF ReleaseJobs
<1>5. QED BY <1>1, <1>2, <1>3, <1>4 DEF LintFirstGrayReleaseJob

\* Jobs whose FromJob stays or is blanked keep the chain shape.
LEMMA BlankingKeepsShape ==
    ASSUME NEW W, NEW V, ChainShape(W),
           \A j \in Jobs : V[j].from = W[j].from \/ V[j].from = NoFrom
    PROVE  ChainShape(V)
BY DEF ChainShape

\* A saveable spec is a spec record.
LEMMA GraySpecIsSpec ==
    ASSUME NEW s \in GraySpec
    PROVE  IsSpec(s)
BY DEF GraySpec, IsSpec

\* UpdateWithLatestSetting keeps the record and the FromJob, or blanks it.
LEMMA UpdateShape ==
    ASSUME NEW cur, IsSpec(cur), NEW latest \in GraySpec
    PROVE  /\ IsSpec(UpdateWithLatestSetting(cur, latest))
           /\ \/ UpdateWithLatestSetting(cur, latest).from = cur.from
              \/ UpdateWithLatestSetting(cur, latest).from = NoFrom
<1> DEFINE r == ReconcileFields(cur, latest)
<1>1. IsSpec(r) /\ (r.from = cur.from \/ r.from = NoFrom)
  <2>1. CASE latest.cluster # cur.cluster
    <3>0. r = [cur EXCEPT !.cluster = latest.cluster, !.scale = 0, !.ns = NoNamespace,
                          !.from = NoFrom, !.timeout = 0, !.targets = <<>>]
      BY <2>1 DEF ReconcileFields
    <3>1. r = [cluster |-> latest.cluster, ns |-> NoNamespace, from |-> NoFrom,
               scale |-> 0, timeout |-> 0, targets |-> <<>>]
      BY <3>0 DEF IsSpec
    <3>2. QED BY <3>1 DEF IsSpec
  <2>2. CASE latest.cluster = cur.cluster /\ latest.ns # cur.ns
    <3>1. r = [cluster |-> cur.cluster, ns |-> latest.ns, from |-> cur.from,
               scale |-> 0, timeout |-> 0, targets |-> <<>>]
      BY <2>2 DEF ReconcileFields, IsSpec
    <3>2. QED BY <3>1 DEF IsSpec
  <2>3. CASE latest.cluster = cur.cluster /\ latest.ns = cur.ns
    <3>1. r = [cluster |-> cur.cluster, ns |-> cur.ns, from |-> cur.from,
               scale |-> latest.scale, timeout |-> latest.timeout, targets |-> cur.targets]
      BY <2>3 DEF ReconcileFields, IsSpec
    <3>2. QED BY <3>1 DEF IsSpec
  <2>4. QED BY <2>1, <2>2, <2>3
<1>2. UpdateWithLatestSetting(cur, latest) = [r EXCEPT !.targets = MergeTargets(r.targets, latest.targets)]
  BY DEF UpdateWithLatestSetting
<1> HIDE DEF r
<1>3. QED BY <1>1, <1>2 DEF IsSpec

\* MergeArgs keeps the record and the FromJob.
LEMMA MergeArgsShape ==
    ASSUME NEW s, IsSpec(s), NEW ts
    PROVE  IsSpec(MergeArgs(s, ts)) /\ MergeArgs(s, ts).from = s.from
BY DEF MergeArgs, IsSpec

\* The spec ToJobs compiles keeps the record and the FromJob; a chained
\* job's carries its first job's targets.
LEMMA CompiledShape ==
    ASSUME NEW j \in Jobs, NEW W, IsSpec(W[j]), NEW live
    PROVE  /\ IsSpec(CompiledSpec(j, W, live))
           /\ CompiledSpec(j, W, live).from = W[j].from
           /\ W[j].from # NoFrom =>
                 CompiledSpec(j, W, live).targets = W[W[j].from].targets
BY DEF CompiledSpec, Inherit, WithLiveReplicas, IsSpec

-----------------------------------------------------------------------------
(* The inductive invariant.                                                *)

\* The initial state satisfies the inductive invariant: the saved workflow
\* lints and nothing is compiled.
LEMMA InitIInv == Init => IInv
<1> SUFFICES ASSUME Init PROVE IInv
  OBVIOUS
<1>1. saved \in [Jobs -> GraySpec] /\ LintWorkflow(saved)
  BY RunAssumption DEF Init, SaveableWorkflows
<1>2. ChainShape(saved)
  BY <1>1, LintChainShape
<1>3. \A j \in Jobs : IsSpec(saved[j])
  BY <1>1, GraySpecIsSpec
<1>4. held = saved /\ run = saved /\ pc = "idle" /\ tasks = NoTasks
  BY DEF Init
<1>5. DOMAIN tasks = Jobs
  BY <1>4 DEF NoTasks
<1>6. \A i \in 1..N : ~Compiled(i)
  BY <1>4 DEF Compiled
<1>7. QED BY <1>1, <1>2, <1>3, <1>4, <1>5, <1>6 DEF IInv

\* ToJobs of the job at position idx keeps the jobs compiled before it as
\* they were, and leaves it compiled as CompiledJobOK says.
LEMMA CompileStepIInv ==
    ASSUME IInv, CompileStep
    PROVE  IInv'
<1> DEFINE k == JobOrder[idx]
           s == CompiledSpec(k, run, Live)
<1>0. pc = "compile"
  BY DEF CompileStep
<1>1. idx \in 1..N /\ k \in Jobs
  BY <1>0, OrderFacts DEF IInv
<1>2. /\ run' = [run EXCEPT ![k] = s]
      /\ tasks' = [tasks EXCEPT ![k] = TasksOf(k, s, run[k].from = NoFrom)]
      /\ UNCHANGED <<saved, options, held>>
  BY DEF CompileStep
<1>3. /\ IsSpec(s) /\ s.from = run[k].from
      /\ run[k].from # NoFrom => s.targets = run[run[k].from].targets
  BY <1>1, CompiledShape DEF IInv
<1>4. /\ DOMAIN run' = Jobs /\ DOMAIN tasks' = Jobs
      /\ \A j \in Jobs : IsSpec(run'[j]) /\ run'[j].from = run[j].from
  BY <1>1, <1>2, <1>3 DEF IInv
<1>5. ChainShape(run')
  BY <1>4, BlankingKeepsShape DEF IInv
<1>6. /\ \/ idx = N /\ pc' = "done" /\ idx' = idx
         \/ idx < N /\ pc' = "compile" /\ idx' = idx + 1
      /\ idx' \in 1..N
  BY <1>1, OrderFacts DEF CompileStep
\* A job compiled before this step is not the job compiled now, and
\* neither is its first job, which comes earlier still.
<1>7. ASSUME NEW i \in 1..N, i < idx
      PROVE  CompiledJobOK(JobOrder[i])'
  <2> DEFINE c == JobOrder[i]
  <2>0. \A x \in 1..N : Compiled(x) => CompiledJobOK(JobOrder[x])
    BY DEF IInv
  <2>1. CompiledJobOK(c) /\ c \in Jobs
    <3>1. Compiled(i)
      BY <1>0, i < idx DEF Compiled
    <3>2. QED BY <2>0, <3>1, OrderFacts
  <2>2. c # k
    <3>1. \A x, y \in 1..N : JobOrder[x] = JobOrder[y] => x = y
      BY GrayReleaseAssumption DEF N
    <3>2. i # idx
      BY i < idx
    <3>3. QED BY <1>1, <3>1, <3>2
  <2>3. run'[c] = run[c] /\ tasks'[c] = tasks[c]
    BY <1>2, <2>1, <2>2 DEF IInv
  <2>4. run[c].from # NoFrom => run'[run[c].from] = run[run[c].from]
    <3> SUFFICES ASSUME run[c].from # NoFrom
                 PROVE  run'[run[c].from] = run[run[c].from]
      OBVIOUS
    <3>1. run[c].from \in Jobs
      BY <2>1 DEF IInv, ChainShape
    <3>2. PICK p \in 1..N : JobOrder[p] = run[c].from
      BY <3>1, GrayReleaseAssumption DEF N
    <3>3. p < i
      BY <3>2, FirstBeforeChained DEF IInv
    <3>4. run[c].from # k
      <4>1. \A x, y \in 1..N : JobOrder[x] = JobOrder[y] => x = y
        BY GrayReleaseAssumption DEF N
      <4>2. p # idx
        BY <3>3, i < idx
      <4>3. QED BY <1>1, <3>2, <4>1, <4>2
    <3>5. DOMAIN run = Jobs
      BY DEF IInv
    <3>6. QED BY <1>2, <3>1, <3>4, <3>5
  <2>5. QED BY <2>1, <2>3, <2>4 DEF CompiledJobOK
\* The job compiled now.
<1>8. ASSUME NEW c \in Jobs, c = k
      PROVE  CompiledJobOK(c)'
  <2>1. run'[k] = s /\ tasks'[k] = TasksOf(k, s, run[k].from = NoFrom)
    BY <1>1, <1>2 DEF IInv
  <2>2. run[k].from # NoFrom => run'[run[k].from] = run[run[k].from]
    <3> SUFFICES ASSUME run[k].from # NoFrom
                 PROVE  run'[run[k].from] = run[run[k].from]
      OBVIOUS
    <3>1. run[k].from \in Jobs
      BY <1>1 DEF IInv, ChainShape
    <3>2. PICK p \in 1..N : JobOrder[p] = run[k].from
      BY <3>1, GrayReleaseAssumption DEF N
    <3>3. p < idx
      BY <1>1, <3>2, FirstBeforeChained DEF IInv
    <3>4. run[k].from # k
      <4>1. \A x, y \in 1..N : JobOrder[x] = JobOrder[y] => x = y
        BY GrayReleaseAssumption DEF N
      <4>2. p # idx
        BY <3>3
      <4>3. QED BY <1>1, <3>2, <4>1, <4>2
    <3>5. DOMAIN run = Jobs
      BY DEF IInv
    <3>6. QED BY <1>2, <3>1, <3>4, <3>5
  <2>3. tasks'[k] = TasksOf(k, run'[k], run'[k].from = NoFrom)
    BY <1>3, <2>1
  <2>4. run'[k].from # NoFrom => run'[k].targets = run'[run'[k].from].targets
    BY <1>3, <2>1, <2>2
  <2>5. QED BY <1>8, <2>3, <2>4 DEF CompiledJobOK
<1>9. \A i \in 1..N : Compiled(i)' => CompiledJobOK(JobOrder[i])'
  <2> SUFFICES ASSUME NEW i \in 1..N, Compiled(i)'
               PROVE  CompiledJobOK(JobOrder[i])'
    OBVIOUS
  <2>1. i < idx \/ i = idx
    BY <1>1, <1>6 DEF Compiled
  <2>2. CASE i < idx
    BY <2>2, <1>7
  <2>3. CASE i = idx
    BY <2>3, <1>1, <1>8
  <2>4. QED BY <2>1, <2>2, <2>3
<1>10. QED BY <1>2, <1>4, <1>5, <1>6, <1>9 DEF IInv

\* Every other step keeps the invariant: saves lint, the run dialog copies
\* the saved workflow, MergeArgs keeps FromJob, StartRun and the update
\* pass leave nothing compiled, and a failed or reset run compiles nothing.
LEMMA NextIInv ==
    ASSUME IInv, [Next]_vars
    PROVE  IInv'
<1>1. ASSUME NEW W \in SaveableWorkflows, SaveWorkflow(W)
      PROVE  IInv'
  <2>1. saved' \in [Jobs -> GraySpec]
    BY <1>1, RunAssumption DEF SaveWorkflow, SaveableWorkflows
  <2>2. ChainShape(saved')
    BY <1>1, LintChainShape DEF SaveWorkflow, SaveableWorkflows
  <2>3. UNCHANGED <<held, run, pc, idx, tasks>>
    BY <1>1 DEF SaveWorkflow
  <2>4. QED BY <2>1, <2>2, <2>3 DEF IInv, Compiled, CompiledJobOK
<1>2. ASSUME OpenRun
      PROVE  IInv'
  <2>1. held' = saved /\ pc' = "idle" /\ UNCHANGED <<saved, run, tasks>>
    BY <1>2 DEF OpenRun
  <2>2. \A j \in Jobs : IsSpec(held'[j])
    BY <2>1, GraySpecIsSpec DEF IInv
  <2>3. \A i \in 1..N : ~Compiled(i)'
    BY <2>1 DEF Compiled
  <2>4. QED BY <2>1, <2>2, <2>3 DEF IInv
<1>3. ASSUME NEW j \in Jobs, NEW ts, SelectTargets(j, ts)
      PROVE  IInv'
  <2>1. held' = [held EXCEPT ![j] = MergeArgs(held[j], ts)]
        /\ UNCHANGED <<saved, run, pc, idx, tasks>>
    BY <1>3 DEF SelectTargets
  <2>2. /\ DOMAIN held' = Jobs
        /\ \A x \in Jobs : IsSpec(held'[x]) /\ held'[x].from = held[x].from
    BY <2>1, MergeArgsShape DEF IInv
  <2>3. ChainShape(held')
    BY <2>2, BlankingKeepsShape DEF IInv
  <2>4. QED BY <2>1, <2>2, <2>3 DEF IInv, Compiled, CompiledJobOK
<1>4. ASSUME StartRun
      PROVE  IInv'
  <2>1. run' = held /\ pc' = "update" /\ idx' = 1 /\ tasks' = NoTasks
        /\ UNCHANGED <<saved, held>>
    BY <1>4 DEF StartRun
  <2>2. idx' \in 1..N /\ DOMAIN tasks' = Jobs
    BY <2>1, OrderFacts DEF NoTasks
  <2>3. \A i \in 1..N : ~Compiled(i)'
    BY <2>1 DEF Compiled
  <2>4. QED BY <2>1, <2>2, <2>3 DEF IInv
<1>5. ASSUME UpdateStep
      PROVE  IInv'
  <2>1. idx \in 1..N /\ JobOrder[idx] \in Jobs
    BY <1>5, OrderFacts DEF UpdateStep, IInv
  <2>2. /\ run' = [run EXCEPT ![JobOrder[idx]] =
                     UpdateWithLatestSetting(run[JobOrder[idx]], saved[JobOrder[idx]])]
        /\ UNCHANGED <<saved, held, tasks>>
    BY <1>5 DEF UpdateStep
  <2>3. /\ IsSpec(UpdateWithLatestSetting(run[JobOrder[idx]], saved[JobOrder[idx]]))
        /\ \/ UpdateWithLatestSetting(run[JobOrder[idx]], saved[JobOrder[idx]]).from
                = run[JobOrder[idx]].from
           \/ UpdateWithLatestSetting(run[JobOrder[idx]], saved[JobOrder[idx]]).from
                = NoFrom
    BY <2>1, UpdateShape DEF IInv
  <2>4. /\ DOMAIN run' = Jobs
        /\ \A x \in Jobs : IsSpec(run'[x])
        /\ \A x \in Jobs : run'[x].from = run[x].from \/ run'[x].from = NoFrom
    BY <2>1, <2>2, <2>3 DEF IInv
  <2>5. ChainShape(run')
    BY <2>4, BlankingKeepsShape DEF IInv
  <2>6. \/ pc' = "compile" /\ idx' = 1
        \/ pc' = "update" /\ idx' = idx + 1 /\ idx < N
    <3>1. pc = "update"
      BY <1>5 DEF UpdateStep
    <3>2. IF idx = N THEN pc' = "compile" /\ idx' = 1 ELSE pc' = pc /\ idx' = idx + 1
      BY <1>5 DEF UpdateStep
    <3>3. idx # N => idx < N
      BY <2>1, OrderFacts
    <3>4. QED BY <3>1, <3>2, <3>3
  <2>7. idx' \in 1..N
    BY <2>1, <2>6, OrderFacts
  <2>8. \A i \in 1..N : ~Compiled(i)'
    BY <2>6 DEF Compiled
  <2>9. QED BY <2>2, <2>4, <2>5, <2>7, <2>8 DEF IInv
<1>6. ASSUME CompileStep
      PROVE  IInv'
  BY <1>6, CompileStepIInv
<1>7. ASSUME CompileFails \/ Reset
      PROVE  IInv'
  <2>1. pc' \in {"failed", "idle"} /\ UNCHANGED <<saved, held, run, idx, tasks>>
    BY <1>7 DEF CompileFails, Reset
  <2>2. \A i \in 1..N : ~Compiled(i)'
    BY <2>1 DEF Compiled
  <2>3. QED BY <2>1, <2>2 DEF IInv
<1>8. ASSUME UNCHANGED vars
      PROVE  IInv'
  BY <1>8 DEF vars, IInv, Compiled, CompiledJobOK, ChainShape, IsSpec
<1>9. QED BY <1>1, <1>2, <1>3, <1>4, <1>5, <1>6, <1>7, <1>8 DEF Next

\* A compiled job's tasks are built from its spec, and a chained job's spec
\* carries its first job's targets: so their tasks have the same keys and
\* replica totals, position by position.
LEMMA IInvChainShares ==
    ASSUME IInv
    PROVE  ChainSharesFirstJobTargets
<1> SUFFICES ASSUME pc = "done", NEW c \in Jobs, FromOf(c) # NoFrom
             PROVE  /\ DOMAIN tasks[c] = DOMAIN tasks[FromOf(c)]
                    /\ \A i \in DOMAIN tasks[c] :
                          /\ tasks[c][i].key = tasks[FromOf(c)][i].key
                          /\ tasks[c][i].total = tasks[FromOf(c)][i].total
  BY DEF ChainSharesFirstJobTargets
<1> DEFINE f == run[c].from
<1>1. f \in Jobs
  BY DEF FromOf, IInv, ChainShape
<1>2. \A x \in Jobs : CompiledJobOK(x)
  <2> SUFFICES ASSUME NEW x \in Jobs PROVE CompiledJobOK(x)
    OBVIOUS
  <2>1. PICK i \in 1..N : JobOrder[i] = x
    BY GrayReleaseAssumption DEF N
  <2>2. Compiled(i)
    BY DEF Compiled
  <2>3. QED BY <2>1, <2>2 DEF IInv
<1>3. /\ tasks[c] = TasksOf(c, run[c], FALSE)
      /\ run[c].targets = run[f].targets
      /\ tasks[f] = TasksOf(f, run[f], TRUE)
  BY <1>1, <1>2 DEF CompiledJobOK, FromOf, IInv, ChainShape
<1>4. DOMAIN tasks[c] = 1..Len(run[f].targets) /\ DOMAIN tasks[f] = 1..Len(run[f].targets)
  BY <1>3 DEF TasksOf
<1>5. ASSUME NEW i \in 1..Len(run[f].targets)
      PROVE  /\ tasks[c][i].key = run[f].targets[i].key
             /\ tasks[f][i].key = run[f].targets[i].key
             /\ tasks[c][i].total = run[f].targets[i].replica
             /\ tasks[f][i].total = run[f].targets[i].replica
  <2>1. tasks[f][i] = TasksOf(f, run[f], TRUE)[i]
    BY <1>3
  <2>2. tasks[c][i] = TasksOf(c, run[c], FALSE)[i] /\ run[c].targets = run[f].targets
    BY <1>3
  <2>3. /\ TasksOf(f, run[f], TRUE)[i].key = run[f].targets[i].key
        /\ TasksOf(f, run[f], TRUE)[i].total = run[f].targets[i].replica
        /\ TasksOf(c, run[c], FALSE)[i].key = run[c].targets[i].key
        /\ TasksOf(c, run[c], FALSE)[i].total = run[c].targets[i].replica
    BY <2>2 DEF TasksOf
  <2>4. QED BY <2>1, <2>2, <2>3
<1>6. QED BY <1>4, <1>5 DEF FromOf

\* ToJobs of a compiled run gives every chained job exactly the targets of
\* its first job, with the replica counts that first job read from the
\* cluster, whatever saves interleave with the run and whatever targets
\* the caller picked.
THEOREM ChainSharesTargets == Spec => []ChainSharesFirstJobTargets
<1>1. Init => IInv
  BY InitIInv
<1>2. IInv /\ [Next]_vars => IInv'
  BY NextIInv
<1>3. IInv => ChainSharesFirstJobTargets
  BY IInvChainShares
<1>4. QED BY <1>1, <1>2, <1>3, PTL DEF Spec

=============================================================================

----------------------- MODULE GrayReleaseRun_typing -----------------------
(***************************************************************************)
(* Type correctness of the gray-release runs.  What it rests on: the loop  *)
(* of UpdateWithLatestSetting that merges the user's targets into the      *)
(* latest list is well defined and yields a list of targets (a recursion   *)
(* over the list's prefixes, proved by induction on the prefix length),    *)
(* and the canary count math.Ceil(replica * scale / 100) never exceeds the *)
(* replica count it is a percentage of.                                    *)
(***************************************************************************)
EXTENDS GrayReleaseRun_proofs, WellFoundedInduction

-----------------------------------------------------------------------------
(* Induction on the naturals, as a least counterexample.                   *)

\* A non-empty set of naturals has a least element.
LEMMA LeastNat ==
    ASSUME NEW B \in SUBSET Nat, B # {}
    PROVE  \E x \in B : \A y \in B : x <= y
<1>1. PICK x \in B : \A y \in B : ~(<<y, x>> \in OpToRel(<, Nat))
  BY NatLessThanWellFounded, WFMin
<1>2. ASSUME NEW y \in B PROVE x <= y
  <2>1. x \in Nat /\ y \in Nat
    OBVIOUS
  <2>2. y < x => <<y, x>> \in OpToRel(<, Nat)
    BY <2>1 DEF OpToRel
  <2>3. ~(y < x)
    BY <1>1, <2>2, Zenon
  <2>. QED  BY <2>1, <2>3
<1>. QED  BY <1>2

-----------------------------------------------------------------------------
(* The canary count.                                                       *)

\* math.Ceil(replica * (scale / 100)), taken exactly: for a percentage in
\* 0..100 it is the least count whose hundredfold reaches replica * scale,
\* so it lies between 0 and the replica count, is at least one pod when
\* both are positive, and is every pod at 100%.
LEMMA GrayReplicaBounds ==
    ASSUME NEW r \in Nat, NEW s \in 0..100
    PROVE  /\ GrayReplica(r, s) \in 0..r
           /\ r * s <= 100 * GrayReplica(r, s)
           /\ 100 * GrayReplica(r, s) < r * s + 100
           /\ (r > 0 /\ s > 0) => GrayReplica(r, s) >= 1
           /\ s = 100 => GrayReplica(r, s) = r
<1>. DEFINE p == r * s
            g == (p + 99) \div 100
<1>1. p \in 0..(100 * r)
  <2>1. r * s <= r * 100
    BY SMT
  <2>. QED  BY <2>1
<1>2. g * 100 <= p + 99 /\ p + 99 < g * 100 + 100
  BY <1>1
<1>3. g \in 0..r
  BY <1>1, <1>2
<1>4. (r > 0 /\ s > 0) => p >= 1
  BY SMT
<1>. QED  BY <1>1, <1>2, <1>3, <1>4 DEF GrayReplica
-----------------------------------------------------------------------------
(* The target merge of UpdateWithLatestSetting.                            *)

\* A key the user configured has a last position in the user's list: the
\* entry userConfiguredService keeps for it.
LEMMA LastIndexOfFacts ==
    ASSUME NEW ts \in Seq(Target), NEW k \in Keys(ts)
    PROVE  /\ LastIndexOf(ts, k) \in DOMAIN ts
           /\ ts[LastIndexOf(ts, k)].key = k
<1>. DEFINE K == {i \in DOMAIN ts : ts[i].key = k}
            B == {Len(ts) - i : i \in K}
<1>1. K # {}
  BY DEF Keys
<1>2. B \in SUBSET Nat /\ B # {}
  BY <1>1
<1>3. PICK x \in B : \A y \in B : x <= y
  BY <1>2, LeastNat
<1>4. PICK i0 \in K : x = Len(ts) - i0
  BY <1>3
<1>5. \A m \in DOMAIN ts : ts[m].key = k => m <= i0
  <2>. SUFFICES ASSUME NEW m \in DOMAIN ts, ts[m].key = k PROVE m <= i0
    OBVIOUS
  <2>1. Len(ts) - m \in B
    OBVIOUS
  <2>2. x <= Len(ts) - m
    BY <1>3, <2>1
  <2>3. m \in 1..Len(ts) /\ i0 \in 1..Len(ts)
    OBVIOUS
  <2>. QED  BY <1>4, <2>2, <2>3
<1>6. i0 \in DOMAIN ts /\ ts[i0].key = k
  OBVIOUS
<1>. QED  BY <1>5, <1>6 DEF LastIndexOf

\* The body of the merge loop's recursion: nothing before the first pass,
\* one MergeStep per pass.
MergeBody(g, user, latest, i) ==
    IF i = 0 THEN <<>> ELSE MergeStep(g[i - 1], user, latest, i)

\* g is the merge loop's recursion on the prefixes up to n.
FixedUpTo(g, user, latest, n) ==
    g = [i \in 0..n |-> MergeBody(g, user, latest, i)]

\* The recursion has a solution on every range of prefixes: extend the one
\* for n - 1 by one pass.
LEMMA MergeLoopExists ==
    ASSUME NEW user, NEW latest
    PROVE  \A n \in Nat : \E g : FixedUpTo(g, user, latest, n)
<1>. DEFINE Bad == {n \in Nat : ~\E g : FixedUpTo(g, user, latest, n)}
<1>. SUFFICES ASSUME Bad # {} PROVE FALSE
  OBVIOUS
<1>1. PICK x \in Bad : \A y \in Bad : x <= y
  BY LeastNat
<1>2. x # 0
  <2>1. FixedUpTo([i \in 0..0 |-> <<>>], user, latest, 0)
    BY DEF FixedUpTo, MergeBody
  <2>. QED  BY <1>1, <2>1
<1>3. x - 1 \in Nat /\ x - 1 \notin Bad
  BY <1>1, <1>2
<1>4. PICK g : FixedUpTo(g, user, latest, x - 1)
  BY <1>3
<1>. DEFINE g2 == [i \in 0..x |-> IF i < x THEN g[i] ELSE MergeStep(g[x - 1], user, latest, x)]
<1>5. \A i \in 0..x : g2[i] = MergeBody(g2, user, latest, i)
  <2>. SUFFICES ASSUME NEW i \in 0..x PROVE g2[i] = MergeBody(g2, user, latest, i)
    OBVIOUS
  <2>1. CASE i = 0
    <3>1. g[0] = <<>>
      BY <1>3, <1>4 DEF FixedUpTo, MergeBody
    <3>. QED  BY <2>1, <1>2, <3>1 DEF MergeBody
  <2>2. CASE i # 0 /\ i < x
    <3>1. g[i] = MergeStep(g[i - 1], user, latest, i)
      BY <2>2, <1>4 DEF FixedUpTo, MergeBody
    <3>2. g2[i - 1] = g[i - 1] /\ g2[i] = g[i]
      BY <2>2
    <3>. QED  BY <2>2, <3>1, <3>2 DEF MergeBody
  <2>3. CASE i = x
    <3>1. g2[x - 1] = g[x - 1]
      BY <1>2, <1>3
    <3>. QED  BY <2>3, <1>2, <3>1 DEF MergeBody
  <2>. QED  BY <2>1, <2>2, <2>3
<1>6. FixedUpTo(g2, user, latest, x)
  BY <1>5 DEF FixedUpTo
<1>. QED  BY <1>1, <1>6

\* So MergeLoop, the recursion's CHOOSE, satisfies it on the whole list.
LEMMA MergeLoopFix ==
    ASSUME NEW user, NEW latest
    PROVE  FixedUpTo(MergeLoop(user, latest), user, latest, Len(latest))
<1>1. \E g : FixedUpTo(g, user, latest, Len(latest))
  BY MergeLoopExists
<1>. QED  BY <1>1 DEF MergeLoop, FixedUpTo, MergeBody

\* One pass appends a target of the user's list, or nothing.
LEMMA MergeStepType ==
    ASSUME NEW merged \in Seq(Target), NEW user \in Seq(Target), NEW latest, NEW i
    PROVE  MergeStep(merged, user, latest, i) \in Seq(Target)
<1>1. CASE latest[i].key \in Keys(user)
  <2>1. user[LastIndexOf(user, latest[i].key)] \in Target
    BY <1>1, LastIndexOfFacts
  <2>. QED  BY <1>1, <2>1 DEF MergeStep
<1>2. CASE latest[i].key \notin Keys(user)
  BY <1>2 DEF MergeStep
<1>. QED  BY <1>1, <1>2

\* Whatever the latest list holds, merging the user's targets into it
\* yields a list of the user's targets.
LEMMA MergeTargetsType ==
    ASSUME NEW user \in Seq(Target), NEW latest
    PROVE  MergeTargets(user, latest) \in Seq(Target)
<1>. DEFINE m == MergeLoop(user, latest)
            L == Len(latest)
            Bad == {n \in 0..L : m[n] \notin Seq(Target)}
<1>1. \A n \in 0..L : m[n] = MergeBody(m, user, latest, n)
  BY MergeLoopFix DEF FixedUpTo
<1>2. Bad = {}
  <2>. SUFFICES ASSUME Bad # {} PROVE FALSE
    OBVIOUS
  <2>0. L \in Nat /\ Bad \in SUBSET Nat
    OBVIOUS
  <2>1. PICK x \in Bad : \A y \in Bad : x <= y
    BY <2>0, LeastNat
  <2>2. x # 0
    <3>1. m[0] = <<>>
      BY <1>1, <2>0 DEF MergeBody
    <3>2. m[x] \notin Seq(Target)
      BY <2>1 DEF Bad
    <3>3. <<>> \in Seq(Target)
      OBVIOUS
    <3>. QED  BY <3>1, <3>2, <3>3
  <2>3. x - 1 \in 0..L /\ m[x - 1] \in Seq(Target)
    BY <2>1, <2>2
  <2>4. m[x] = MergeStep(m[x - 1], user, latest, x)
    BY <1>1, <2>1, <2>2 DEF MergeBody
  <2>. QED  BY <2>1, <2>3, <2>4, MergeStepType
<1>3. L \in 0..L
  OBVIOUS
<1>. QED  BY <1>2, <1>3 DEF MergeTargets

-----------------------------------------------------------------------------
(* The operators of GrayRelease keep their types.                          *)

\* UpdateWithLatestSetting of a spec against a saved spec is a spec.
LEMMA UpdateType ==
    ASSUME NEW cur \in GraySpec, NEW latest \in GraySpec
    PROVE  UpdateWithLatestSetting(cur, latest) \in GraySpec
<1>. DEFINE r == ReconcileFields(cur, latest)
<1>1. r \in GraySpec
  <2>1. 0 \in Scales /\ 0 \in Timeouts /\ <<>> \in Seq(Target)
    BY GrayReleaseAssumption DEF Scales
  <2>. QED  BY <2>1 DEF ReconcileFields, GraySpec
<1>2. MergeTargets(r.targets, latest.targets) \in Seq(Target)
  BY <1>1, MergeTargetsType DEF GraySpec
<1>. QED  BY <1>1, <1>2 DEF UpdateWithLatestSetting, GraySpec

\* MergeArgs of a spec and a target list is a spec.
LEMMA MergeArgsType ==
    ASSUME NEW cur \in GraySpec, NEW ts \in Seq(Target)
    PROVE  MergeArgs(cur, ts) \in GraySpec
BY DEF MergeArgs, GraySpec

\* The lists the run dialog offers from a target list are target lists.
LEMMA SubSeqsType ==
    ASSUME NEW s \in Seq(Target)
    PROVE  SubSeqs(s) \subseteq Seq(Target)
<1>. SUFFICES ASSUME NEW t \in SubSeqs(s) PROVE t \in Seq(Target)
  OBVIOUS
<1>1. PICK n \in 0..Len(s) :
         \E g \in {h \in [1..n -> 1..Len(s)] : \A k \in 1..(n - 1) : h[k] < h[k + 1]} :
            t = [k \in 1..n |-> s[g[k]]]
  BY DEF SubSeqs
<1>2. PICK g \in [1..n -> 1..Len(s)] : t = [k \in 1..n |-> s[g[k]]]
  BY <1>1
<1>. QED  BY <1>2

\* The fields of a target of a spec.
LEMMA TargetFields ==
    ASSUME NEW s \in GraySpec, NEW i \in 1..Len(s.targets)
    PROVE  /\ s.targets[i] \in Target
           /\ s.targets[i].key \in Workloads
           /\ s.targets[i].image \in Images
           /\ s.targets[i].replica \in 0..MaxReplica
<1>1. s.targets \in Seq(Target)
  BY DEF GraySpec
<1>2. s.targets[i] \in Target
  BY <1>1
<1>. QED  BY <1>2 DEF Target, Replicas

\* The spec ToJobs stores for a job it compiles without error is a spec: a
\* first job's replica counts are the live counts of deployments that exist.
LEMMA CompiledType ==
    ASSUME NEW j \in Jobs, NEW W \in [Jobs -> GraySpec], ToJobsOK(j, W, Live)
    PROVE  CompiledSpec(j, W, Live) \in GraySpec
<1>1. CASE W[j].from # NoFrom
  <2>1. W[j].from \in Jobs
    BY <1>1 DEF ToJobsOK
  <2>. QED  BY <1>1, <2>1 DEF CompiledSpec, Inherit, GraySpec
<1>2. CASE W[j].from = NoFrom
  <2>. DEFINE s == W[j]
  <2>1. AllDeploymentsFound(s, Live)
    BY <1>2 DEF ToJobsOK
  <2>2. s \in GraySpec /\ s.cluster \in Clusters /\ s.ns \in Namespaces \cup {NoNamespace}
    BY DEF GraySpec
  <2>3. ASSUME NEW i \in 1..Len(s.targets)
        PROVE  [s.targets[i] EXCEPT !.replica = Live[s.cluster][s.ns][s.targets[i].key]]
                 \in Target
    <3>1. s.targets[i] \in Target /\ s.targets[i].key \in Workloads
      BY <2>2, TargetFields
    <3>2. Live[s.cluster][s.ns][s.targets[i].key] \in Replicas \cup {Absent}
      BY <2>2, <3>1, RunAssumption
    <3>3. Live[s.cluster][s.ns][s.targets[i].key] # Absent
      BY <2>1 DEF AllDeploymentsFound
    <3>. QED  BY <3>1, <3>2, <3>3 DEF Target
  <2>4. [i \in 1..Len(s.targets) |->
           [s.targets[i] EXCEPT !.replica = Live[s.cluster][s.ns][s.targets[i].key]]]
         \in Seq(Target)
    BY <2>3, SMTT(120)
  <2>5. CompiledSpec(j, W, Live)
          = [s EXCEPT !.targets = [i \in 1..Len(s.targets) |->
               [s.targets[i] EXCEPT !.replica = Live[s.cluster][s.ns][s.targets[i].key]]]]
    BY <1>2 DEF CompiledSpec, WithLiveReplicas
  <2>. QED  BY <2>2, <2>4, <2>5 DEF GraySpec
<1>. QED  BY <1>1, <1>2

\* The tasks ToJobs produces from a spec are tasks: each canary count is
\* a replica count, by GrayReplicaBounds.
LEMMA TasksType ==
    ASSUME NEW j \in Jobs, NEW s \in GraySpec, NEW first \in BOOLEAN
    PROVE  TasksOf(j, s, first) \in Seq(Task)
<1>1. ASSUME NEW i \in 1..Len(s.targets)
      PROVE  /\ s.targets[i].key \in Workloads /\ s.targets[i].image \in Images
             /\ s.targets[i].replica \in Replicas
             /\ GrayReplica(s.targets[i].replica, s.scale) \in Replicas
  <2>1. s.targets[i].key \in Workloads /\ s.targets[i].image \in Images
        /\ s.targets[i].replica \in 0..MaxReplica
    BY TargetFields
  <2>2. s.scale \in 0..100
    BY DEF GraySpec, Scales
  <2>3. \A r \in 0..MaxReplica, sc \in 0..100 : GrayReplica(r, sc) \in 0..MaxReplica
    <3>. SUFFICES ASSUME NEW r \in 0..MaxReplica, NEW sc \in 0..100
                  PROVE  GrayReplica(r, sc) \in 0..MaxReplica
      OBVIOUS
    <3>1. r \in Nat /\ r <= MaxReplica
      BY GrayReleaseAssumption
    <3>2. GrayReplica(r, sc) \in 0..r
      BY <3>1, GrayReplicaBounds
    <3>. QED  BY <3>1, <3>2, GrayReleaseAssumption
  <2>. QED  BY <2>1, <2>2, <2>3 DEF Replicas
<1>2. s.cluster \in Clusters /\ s.ns \in Namespaces \cup {NoNamespace} /\ s.scale \in Nat
  BY DEF GraySpec, Scales
<1>3. \A i \in 1..Len(s.targets) : TasksOf(j, s, first)[i] \in Task
  BY <1>1, <1>2 DEF TasksOf, Task
<1>4. Len(s.targets) \in Nat
  OBVIOUS
<1>5. TasksOf(j, s, first) \in [1..Len(s.targets) -> Task]
  BY <1>3 DEF TasksOf
<1>. QED  BY <1>4, <1>5

-----------------------------------------------------------------------------
(* Type correctness of the runs.                                           *)

\* The initial state is well typed: users only save specs.
LEMMA InitType == Init => TypeOK
<1>. SUFFICES ASSUME Init PROVE TypeOK
  OBVIOUS
<1>1. saved \in [Jobs -> GraySpec]
  BY RunAssumption DEF Init, SaveableWorkflows
<1>2. options \in [Jobs -> Seq(Target)]
  BY <1>1 DEF Init, GraySpec
<1>3. 1 \in 1..(N + 1) /\ NoTasks \in [Jobs -> Seq(Task)]
  BY OrderFacts DEF NoTasks
<1>. QED  BY <1>1, <1>2, <1>3 DEF Init, TypeOK

\* The job an update or compile step handles is a job.
LEMMA StepJob ==
    ASSUME IInv, pc \in {"update", "compile"}
    PROVE  idx \in 1..N /\ JobOrder[idx] \in Jobs
BY OrderFacts DEF IInv

\* Every step keeps the types, given the run's position (IInv).
LEMMA NextType ==
    ASSUME IInv, TypeOK, [Next]_vars
    PROVE  TypeOK'
<1>1. ASSUME NEW W \in SaveableWorkflows, SaveWorkflow(W)
      PROVE  TypeOK'
  BY <1>1, RunAssumption DEF SaveWorkflow, SaveableWorkflows, TypeOK
<1>2. CASE OpenRun
  BY <1>2 DEF OpenRun, TypeOK, GraySpec
<1>3. ASSUME NEW j \in Jobs, NEW ts \in SubSeqs(options[j]), SelectTargets(j, ts)
      PROVE  TypeOK'
  <2>1. ts \in Seq(Target)
    BY SubSeqsType DEF TypeOK
  <2>2. MergeArgs(held[j], ts) \in GraySpec
    BY <2>1, MergeArgsType DEF TypeOK
  <2>. QED  BY <1>3, <2>2 DEF SelectTargets, TypeOK
<1>4. CASE StartRun
  BY <1>4, OrderFacts DEF StartRun, TypeOK, NoTasks
<1>5. CASE UpdateStep
  <2>. DEFINE j == JobOrder[idx]
  <2>1. idx \in 1..N /\ j \in Jobs
    BY <1>5, StepJob DEF UpdateStep
  <2>2. UpdateWithLatestSetting(run[j], saved[j]) \in GraySpec
    BY <2>1, UpdateType DEF TypeOK
  <2>3. idx' \in 1..(N + 1)
    BY <1>5, <2>1, OrderFacts DEF UpdateStep
  <2>. QED  BY <1>5, <2>2, <2>3 DEF UpdateStep, TypeOK
<1>6. CASE CompileStep
  <2>. DEFINE j == JobOrder[idx]
              s == CompiledSpec(j, run, Live)
  <2>1. idx \in 1..N /\ j \in Jobs
    BY <1>6, StepJob DEF CompileStep
  <2>2. s \in GraySpec
    BY <1>6, <2>1, CompiledType DEF CompileStep, TypeOK
  <2>3. TasksOf(j, s, run[j].from = NoFrom) \in Seq(Task)
    BY <2>1, <2>2, TasksType
  <2>4. idx' \in 1..(N + 1)
    BY <1>6, <2>1, OrderFacts DEF CompileStep
  <2>. QED  BY <1>6, <2>2, <2>3, <2>4 DEF CompileStep, TypeOK
<1>7. CASE CompileFails
  BY <1>7 DEF CompileFails, TypeOK
<1>8. CASE Reset
  BY <1>8 DEF Reset, TypeOK
<1>9. CASE UNCHANGED vars
  BY <1>9 DEF vars, TypeOK
<1>. QED  BY <1>1, <1>2, <1>3, <1>4, <1>5, <1>6, <1>7, <1>8, <1>9 DEF Next

\* Every state of a gray-release run is well typed: the saved specs, the
\* dialog's options, the caller's copy and the compiled workflow are specs,
\* and every task ToJobs produces is a task, its canary count one of the
\* replica counts 0..MaxReplica (UpdateWithLatestSetting's merge loop,
\* MergeArgs, ToJobs, job_gray_release.go).  CanaryBounded below compares
\* each canary count with the replica count its task read.
THEOREM GrayTypeCorrect == Spec => []TypeOK
<1>1. Init => IInv /\ TypeOK
  BY InitIInv, InitType
<1>2. IInv /\ TypeOK /\ [Next]_vars => IInv' /\ TypeOK'
  BY NextIInv, NextType
<1>. QED  BY <1>1, <1>2, PTL DEF Spec


-----------------------------------------------------------------------------
(* The canary count against the replica count read.                        *)

\* Every task carries the count math.Ceil gives for its own replica count
\* and percentage, and the percentage is one a saved spec can hold.
TasksCanary ==
    \A j \in Jobs : \A i \in DOMAIN tasks[j] :
        /\ tasks[j][i].scale \in 0..100
        /\ tasks[j][i].total \in Nat
        /\ tasks[j][i].gray = GrayReplica(tasks[j][i].total, tasks[j][i].scale)

\* The tasks ToJobs builds from a spec carry such counts (job_gray_release.go
\* 256-282: one task per target, gray computed from that target's replica).
LEMMA TasksOfCanary ==
    ASSUME NEW j \in Jobs, NEW s \in GraySpec, NEW first \in BOOLEAN,
           NEW i \in DOMAIN TasksOf(j, s, first)
    PROVE  /\ TasksOf(j, s, first)[i].scale \in 0..100
           /\ TasksOf(j, s, first)[i].total \in Nat
           /\ TasksOf(j, s, first)[i].gray
                = GrayReplica(TasksOf(j, s, first)[i].total, TasksOf(j, s, first)[i].scale)
<1>1. i \in 1..Len(s.targets)
  BY DEF TasksOf
<1>2. s.targets[i].replica \in 0..MaxReplica
  BY <1>1, TargetFields
<1>3. s.scale \in 0..100
  BY DEF GraySpec, Scales
<1>4. TasksOf(j, s, first)[i].scale = s.scale
      /\ TasksOf(j, s, first)[i].total = s.targets[i].replica
      /\ TasksOf(j, s, first)[i].gray = GrayReplica(s.targets[i].replica, s.scale)
  BY <1>1 DEF TasksOf
<1>5. TasksOf(j, s, first)[i].total \in Nat
  <2>0. MaxReplica \in Nat
    BY GrayReleaseAssumption
  <2>1. s.targets[i].replica \in Nat
    BY <1>2, <2>0
  <2>. QED  BY <1>4, <2>1, Zenon
<1>6. TasksOf(j, s, first)[i].gray
        = GrayReplica(TasksOf(j, s, first)[i].total, TasksOf(j, s, first)[i].scale)
  BY <1>4, Zenon
<1>. QED  BY <1>3, <1>4, <1>5, <1>6

\* Before a run compiles anything there are no tasks.
LEMMA InitCanary == Init => TasksCanary
BY DEF Init, NoTasks, TasksCanary

\* Only StartRun, which clears the tasks, and CompileStep, which stores the
\* tasks of one job, change them.
LEMMA NextCanary ==
    ASSUME IInv, TypeOK, TasksCanary, [Next]_vars
    PROVE  TasksCanary'
<1>1. CASE UNCHANGED tasks
  BY <1>1 DEF TasksCanary
<1>2. CASE StartRun
  BY <1>2 DEF StartRun, NoTasks, TasksCanary
<1>3. CASE CompileStep
  <2>. DEFINE j == JobOrder[idx]
              s == CompiledSpec(j, run, Live)
              ts == TasksOf(j, s, run[j].from = NoFrom)
  <2>1. j \in Jobs /\ ToJobsOK(j, run, Live)
    BY <1>3, StepJob DEF CompileStep
  <2>2. s \in GraySpec
    BY <2>1, CompiledType DEF TypeOK
  <2>3. tasks' = [tasks EXCEPT ![j] = ts]
    BY <1>3 DEF CompileStep
  <2>4. \A i \in DOMAIN ts :
           /\ ts[i].scale \in 0..100 /\ ts[i].total \in Nat
           /\ ts[i].gray = GrayReplica(ts[i].total, ts[i].scale)
    BY <2>1, <2>2, TasksOfCanary
  <2>5. DOMAIN tasks = Jobs
    BY DEF TypeOK
  <2>. QED  BY <2>3, <2>4, <2>5 DEF TasksCanary
<1>. QED
  BY <1>1, <1>2, <1>3
  DEF Next, vars, SaveWorkflow, OpenRun, SelectTargets, UpdateStep, CompileFails, Reset

\* The counts TasksCanary records are bounded as math.Ceil promises.
LEMMA CanaryFromTasks == TasksCanary => CanaryWithinReplicas
<1> SUFFICES ASSUME TasksCanary, NEW j \in Jobs, NEW i \in DOMAIN tasks[j]
             PROVE  /\ tasks[j][i].gray <= tasks[j][i].total
                    /\ (tasks[j][i].total > 0 /\ tasks[j][i].scale > 0) => tasks[j][i].gray > 0
  BY DEF CanaryWithinReplicas
<1>1. tasks[j][i].scale \in 0..100 /\ tasks[j][i].total \in Nat
      /\ tasks[j][i].gray = GrayReplica(tasks[j][i].total, tasks[j][i].scale)
  BY DEF TasksCanary
<1>2. \A r \in Nat, sc \in 0..100 :
         /\ GrayReplica(r, sc) <= r
         /\ (r > 0 /\ sc > 0) => GrayReplica(r, sc) > 0
  <2>. SUFFICES ASSUME NEW r \in Nat, NEW sc \in 0..100
                PROVE  /\ GrayReplica(r, sc) <= r
                       /\ (r > 0 /\ sc > 0) => GrayReplica(r, sc) > 0
    OBVIOUS
  <2>1. GrayReplica(r, sc) \in 0..r /\ ((r > 0 /\ sc > 0) => GrayReplica(r, sc) >= 1)
    BY GrayReplicaBounds
  <2>. QED  BY <2>1
<1>. QED  BY <1>1, <1>2

\* In every run, every task ToJobs compiles, of a first job or of a chained
\* one, asks for at most the replica count it read and for at least one pod
\* when it read some and its percentage is positive (the math.Ceil of
\* job_gray_release.go:257, over the saves and compile failures that
\* interleave with the run).
THEOREM CanaryBounded == Spec => []CanaryWithinReplicas
<1>1. Init => IInv /\ TypeOK /\ TasksCanary
  BY InitIInv, InitType, InitCanary
<1>2. IInv /\ TypeOK /\ TasksCanary /\ [Next]_vars => IInv' /\ TypeOK' /\ TasksCanary'
  BY NextIInv, NextType, NextCanary
<1>3. TasksCanary => CanaryWithinReplicas
  BY CanaryFromTasks
<1>. QED  BY <1>1, <1>2, <1>3, PTL DEF Spec

=============================================================================

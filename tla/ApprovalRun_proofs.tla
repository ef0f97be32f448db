------------------------- MODULE ApprovalRun_proofs -------------------------
(***************************************************************************)
(* Proofs about ApprovalRun for every value of its constants.  The lint    *)
(* of a spec is checked against the group members of the moment it runs,  *)
(* and members change; what a run can rely on later is the part of         *)
(* LintJob that does not read members, SpecLint.                           *)
(***************************************************************************)
EXTENDS ApprovalRun, TLAPS

\* The Lark / DingTalk node checks of LintJob, on a vendor struct v of type t.
VendorNodesOK(t, v) ==
    /\ v # Nil
    /\ Len(v.nodes) > 0
    /\ \A i \in DOMAIN v.nodes : NodeOK(v.nodes[i])
    /\ t = "dingtalk" =>
          /\ Len(v.nodes) <= NodeCap
          /\ IsInjective(FlattenSeq([i \in DOMAIN v.nodes |-> v.nodes[i].users]))

\* The part of LintJob that does not depend on group members: a native spec
\* has its approval struct, a Lark or DingTalk spec passes the node checks.
SpecLint(s) ==
    /\ s.type = "native" => s.native # Nil
    /\ s.type \in {"lark", "dingtalk"} => VendorNodesOK(s.type, s.vendor)

\* A compiled gate that CompiledVendorGatesWellFormed accepts.
GateWellFormed(g) ==
    g.type \in {"lark", "dingtalk"} => VendorNodesOK(g.type, g.vendor)

\* The inductive invariant.  Every saved spec is a candidate that passes
\* SpecLint; during a run every job of the run's workflow does (the held
\* copy linted at StartRun, each job replaced by a saved one since); the
\* jobs UpdateWithLatestSetting already replaced are candidates; and every
\* compiled gate is well formed.
IInv ==
    /\ TypeOK
    /\ \A j \in Jobs : saved[j] \in Candidates /\ SpecLint(saved[j])
    /\ pc \in {"update", "compile", "done"} => \A j \in Jobs : SpecLint(run[j])
    /\ pc = "update" => \A i \in 1..(idx - 1) : run[JobOrder[i]] \in Candidates
    /\ pc \in {"compile", "done"} => \A i \in 1..N : run[JobOrder[i]] \in Candidates
    /\ \A j \in Jobs : gates[j] # Nil => GateWellFormed(gates[j])

\* Every WorkWX spec a user can save carries its WorkWX approval struct.
WorkWXStructsPresent ==
    \A s \in Candidates : s.type = "workwx" => s.vendor # Nil

-----------------------------------------------------------------------------
(* Lemmas on the operators of Approval.                                    *)

\* A spec that passes LintJob, with any members, passes SpecLint.
LEMMA LintJobSpecLint ==
    ASSUME NEW s, NEW m, LintJob(s, m)
    PROVE  SpecLint(s)
BY DEF LintJob, SpecLint, VendorNodesOK

\* Flattening a list of users and groups yields users.
LEMMA FlatUsersType ==
    ASSUME NEW m \in [Groups -> Memberships], NEW E \in SUBSET (Users \cup Groups)
    PROVE  FlatUsers(E, m) \subseteq Users
BY RunAssumption DEF FlatUsers

\* ToJobs with outcome "ok" resolves a FromJob reference to a job of the
\* workflow of the same type whose approval struct is there.
LEMMA ResolvedOrigin ==
    ASSUME TypeOK, NEW j \in Jobs, ToJobsOutcome(j, run) = "ok",
           run[j].source = "fromjob"
    PROVE  /\ run[j].origin \in Jobs
           /\ run[run[j].origin].type = run[j].type
           /\ run[j].type # "native" => run[run[j].origin].vendor \in VendorSpec
           /\ run[j].type = "native" => run[run[j].origin].native \in NativeSpec
<1>1. ~ReferenceError(run[j], run) /\ ~ReferencePanics(run[j], run)
  BY DEF ToJobsOutcome
<1>2. run[j].origin \in Jobs
  BY <1>1 DEF ReferenceError, TypeOK, ApprovalSpec
<1>3. QED BY <1>1, <1>2 DEF ReferenceError, ReferencePanics, TypeOK, ApprovalSpec

\* The node checks read only the nodes of a vendor struct.
LEMMA VendorNodesOKByNodes ==
    ASSUME NEW t, NEW v, NEW w, w # Nil, v.nodes = w.nodes, VendorNodesOK(t, v)
    PROVE  VendorNodesOK(t, w)
<1> DEFINE ns == v.nodes
<1>1. VendorNodesOK(t, v) <=>
        /\ Len(ns) > 0
        /\ \A i \in DOMAIN ns : NodeOK(ns[i])
        /\ t = "dingtalk" =>
              Len(ns) <= NodeCap /\ IsInjective(FlattenSeq([i \in DOMAIN ns |-> ns[i].users]))
  BY DEF VendorNodesOK
<1>2. VendorNodesOK(t, w) <=>
        /\ w # Nil
        /\ Len(ns) > 0
        /\ \A i \in DOMAIN ns : NodeOK(ns[i])
        /\ t = "dingtalk" =>
              Len(ns) <= NodeCap /\ IsInjective(FlattenSeq([i \in DOMAIN ns |-> ns[i].users]))
  BY DEF VendorNodesOK
<1>3. QED BY <1>1, <1>2

\* The gate ToJobs compiles with outcome "ok" is a well-typed gate.
LEMMA CompiledGateType ==
    ASSUME TypeOK, NEW j \in Jobs, ToJobsOutcome(j, run) = "ok"
    PROVE  CompiledGate(j, run, members) \in Gate
<1> DEFINE s == run[j]
<1>1. s \in ApprovalSpec
  BY DEF TypeOK
<1>2. members \in [Groups -> Memberships]
  BY DEF TypeOK
<1>3. s.type = "native" => NativeGate(s, run, members) \in [users : SUBSET Users, needed : Nat] \cup {Nil}
  <2>1. CASE s.source # "fromjob"
    BY <1>1, <1>2, <2>1, FlatUsersType DEF NativeGate, ApprovalSpec, NativeSpec
  <2>2. CASE s.source = "fromjob"
    BY <1>1, <1>2, <2>2, ResolvedOrigin, FlatUsersType DEF NativeGate, ApprovalSpec, NativeSpec
  <2>3. QED BY <2>1, <2>2
<1>4. s.type # "native" => VendorGate(s, run) \in VendorSpec \cup {Nil}
  <2>1. CASE s.source # "fromjob" \/ s.vendor = Nil
    BY <1>1, <2>1 DEF VendorGate, ApprovalSpec
  <2>2. CASE s.source = "fromjob" /\ s.vendor # Nil
    BY <1>1, <2>2, ResolvedOrigin DEF VendorGate, ApprovalSpec, VendorSpec
  <2>3. QED BY <2>1, <2>2
<1>5. QED BY <1>1, <1>3, <1>4 DEF CompiledGate, Gate, ApprovalSpec

\* When every job of the run's workflow passes SpecLint, the gate ToJobs
\* compiles with outcome "ok" is well formed: a FromJob gate carries the
\* nodes of an origin of the same type, which pass the same checks.
LEMMA CompiledGateWellFormed ==
    ASSUME TypeOK, NEW j \in Jobs, ToJobsOutcome(j, run) = "ok",
           \A k \in Jobs : SpecLint(run[k])
    PROVE  GateWellFormed(CompiledGate(j, run, members))
<1> DEFINE s == run[j]
<1> SUFFICES ASSUME s.type \in {"lark", "dingtalk"}
             PROVE  VendorNodesOK(s.type, VendorGate(s, run))
  BY DEF GateWellFormed, CompiledGate
<1>1. CASE s.source # "fromjob" \/ s.vendor = Nil
  BY <1>1 DEF VendorGate, SpecLint
<1>2. CASE s.source = "fromjob" /\ s.vendor # Nil
  <2> DEFINE o == run[j].origin
  <2>1. o \in Jobs /\ run[o].type = s.type /\ run[o].vendor \in VendorSpec
    BY <1>2, ResolvedOrigin
  <2>2. VendorNodesOK(s.type, run[o].vendor)
    BY <2>1 DEF SpecLint
  <2>3. VendorGate(s, run) = [id |-> s.vendor.id, nodes |-> run[o].vendor.nodes]
    BY <1>2 DEF VendorGate
  <2>4. VendorGate(s, run) \in VendorSpec
    BY <1>2, <2>1, <2>3 DEF TypeOK, ApprovalSpec, VendorSpec
  <2>5. VendorGate(s, run) # Nil
    BY <2>4, ApprovalAssumption
  <2>6. VendorGate(s, run).nodes = run[o].vendor.nodes
    BY <2>3
  <2>7. QED BY <2>2, <2>5, <2>6, VendorNodesOKByNodes
<1>3. QED BY <1>1, <1>2

-----------------------------------------------------------------------------
(* The inductive invariant.                                                *)

\* Every spec of a workflow that passes LintWorkflow passes SpecLint.
LEMMA LintWorkflowSpecLint ==
    ASSUME NEW W, LintWorkflow(W)
    PROVE  \A j \in Jobs : SpecLint(W[j])
BY LintJobSpecLint DEF LintWorkflow

\* The initial state satisfies the inductive invariant.
LEMMA InitIInv == Init => IInv
<1> SUFFICES ASSUME Init PROVE IInv
  OBVIOUS
<1>1. \A j \in Jobs : SpecLint(saved[j])
  BY LintWorkflowSpecLint DEF Init
<1>2. TypeOK
  BY RunAssumption DEF Init, TypeOK, N
<1>3. QED BY <1>1, <1>2 DEF Init, IInv

\* Every step of a run, save or membership change keeps the inductive invariant.
LEMMA NextIInv == IInv /\ [Next]_vars => IInv'
<1> SUFFICES ASSUME IInv, [Next]_vars PROVE IInv'
  OBVIOUS
<1> USE RunAssumption
<1>1. ASSUME NEW j \in Jobs, NEW s \in Candidates, SaveWorkflow(j, s)
      PROVE  IInv'
  <2>1. \A k \in Jobs : SpecLint(saved'[k])
    BY <1>1, LintWorkflowSpecLint DEF SaveWorkflow
  <2>2. \A k \in Jobs : saved'[k] \in Candidates
    BY <1>1 DEF SaveWorkflow, IInv, TypeOK
  <2>3. QED BY <1>1, <2>1, <2>2 DEF SaveWorkflow, IInv, TypeOK, GateWellFormed
<1>2. ASSUME NEW g \in Groups, NEW us \in Memberships, ChangeMembers(g, us)
      PROVE  IInv'
  BY <1>2 DEF ChangeMembers, IInv, TypeOK, GateWellFormed
<1>3. CASE OpenRun
  BY <1>3 DEF OpenRun, IInv, TypeOK, N
<1>4. ASSUME NEW j \in Jobs, NEW s \in ArgCandidates, PassArgs(j, s)
      PROVE  IInv'
  BY <1>4 DEF PassArgs, MergeArgs, IInv, TypeOK
<1>5. CASE StartRun
  <2>1. CASE LintWorkflow(held)
    <3>1. \A k \in Jobs : SpecLint(run'[k])
      BY <1>5, <2>1, LintWorkflowSpecLint DEF StartRun
    <3>2. QED BY <1>5, <2>1, <3>1 DEF StartRun, IInv, TypeOK, N
  <2>2. CASE ~LintWorkflow(held)
    BY <1>5, <2>2 DEF StartRun, IInv, TypeOK
  <2>3. QED BY <2>1, <2>2
<1>6. CASE UpdateStep
  <2> DEFINE j == JobOrder[idx]
  <2>1. pc = "update" /\ idx \in 1..N /\ j \in Jobs
    BY <1>6 DEF UpdateStep, IInv, TypeOK, N
  <2>2. run' = [run EXCEPT ![j] = saved[j]]
    BY <1>6 DEF UpdateStep, UpdateWithLatestSetting
  <2>3. \A k \in Jobs : SpecLint(run'[k]) /\ run'[k] \in ApprovalSpec
    BY <2>1, <2>2 DEF IInv, TypeOK
  <2>4. \A i \in 1..idx : run'[JobOrder[i]] \in Candidates
    BY <2>1, <2>2 DEF IInv, TypeOK, N
  <2>5. CASE idx = N
    BY <1>6, <2>1, <2>3, <2>4, <2>5 DEF UpdateStep, IInv, TypeOK, N
  <2>6. CASE idx # N
    BY <1>6, <2>1, <2>3, <2>4, <2>6 DEF UpdateStep, IInv, TypeOK, N
  <2>7. QED BY <2>5, <2>6
<1>7. CASE CompileStep
  <2> DEFINE j == JobOrder[idx]
  <2>1. pc = "compile" /\ idx \in 1..N /\ j \in Jobs
    BY <1>7 DEF CompileStep, IInv, TypeOK, N
  <2>2. CASE ToJobsOutcome(j, run) = "ok"
    <3>1. CompiledGate(j, run, members) \in Gate
      BY <2>1, <2>2, CompiledGateType DEF IInv
    <3>2. GateWellFormed(CompiledGate(j, run, members))
      BY <2>1, <2>2, CompiledGateWellFormed DEF IInv
    <3>3. gates' = [gates EXCEPT ![j] = CompiledGate(j, run, members)]
      BY <1>7, <2>2 DEF CompileStep
    <3>4. gates' \in [Jobs -> Gate \cup {Nil}] /\ \A k \in Jobs : gates'[k] # Nil => GateWellFormed(gates'[k])
      BY <2>1, <3>1, <3>2, <3>3 DEF IInv, TypeOK
    <3>5. /\ pc' \in {"compile", "done"} /\ idx' \in 1..N
          /\ UNCHANGED <<saved, members, held, run>>
      BY <1>7, <2>1, <2>2 DEF CompileStep, N
    <3>6. QED BY <2>1, <3>4, <3>5 DEF IInv, TypeOK
  <2>3. CASE ToJobsOutcome(j, run) # "ok"
    BY <1>7, <2>1, <2>3 DEF CompileStep, IInv, TypeOK
  <2>4. QED BY <2>2, <2>3
<1>8. CASE UNCHANGED vars
  BY <1>8 DEF vars, IInv, TypeOK, GateWellFormed, SpecLint, VendorNodesOK
<1>9. QED BY <1>1, <1>2, <1>3, <1>4, <1>5, <1>6, <1>7, <1>8 DEF Next

\* Every reachable state of a workflow's approval runs satisfies IInv.
THEOREM InvariantHolds == Spec => []IInv
BY InitIInv, NextIInv, PTL DEF Spec

\* Every state of a run is well typed: saved and run specs, the run's
\* position in the job order and the compiled gates keep their types through
\* saves, membership changes, MergeArgs, UpdateWithLatestSetting and ToJobs.
THEOREM RunTypeCorrect == Spec => []TypeOK
<1>1. IInv => TypeOK
  BY DEF IInv
<1>2. QED BY <1>1, InvariantHolds, PTL

-----------------------------------------------------------------------------
(* Theorems.                                                               *)

\* Every Lark or DingTalk gate a run compiles passes the node checks of
\* LintJob, whatever saves and membership changes interleave with the run:
\* FromJob gates take the nodes of an origin of the same type in the
\* run's workflow, and every job of that workflow was linted.
THEOREM VendorGatesWellFormed == Spec => []CompiledVendorGatesWellFormed
<1>1. IInv => CompiledVendorGatesWellFormed
  BY DEF IInv, CompiledVendorGatesWellFormed, Compiled, GateWellFormed, VendorNodesOK
<1>2. QED BY <1>1, InvariantHolds, PTL

\* ToJobs dereferences no nil approval struct (lines 171-172 and 198) when
\* no ToJobs panics on a compiled job: a native spec and its origin carry
\* their approval (the lint), a Lark or DingTalk spec its struct (the
\* lint), and a WorkWX spec its struct by the hypothesis.
LEMMA NoPanicStep ==
    ASSUME WorkWXStructsPresent, IInv, pc = "compile"
    PROVE  ToJobsOutcome(JobOrder[idx], run) # "panic"
<1> DEFINE j == JobOrder[idx]
           s == run[j]
<1>1. idx \in 1..N /\ j \in Jobs /\ s \in Candidates /\ s \in ApprovalSpec
  BY RunAssumption DEF IInv, TypeOK, N
<1>2. SpecLint(s)
  BY <1>1 DEF IInv
<1> SUFFICES ASSUME s.source = "fromjob", ~ReferenceError(s, run)
             PROVE  ~ReferencePanics(s, run)
  BY DEF ToJobsOutcome
<1>3. s.origin \in Jobs /\ run[s.origin].type = s.type
  BY <1>1 DEF ReferenceError, ApprovalSpec
<1>4. SpecLint(run[s.origin])
  BY <1>3 DEF IInv
<1>5. CASE s.type = "native"
  BY <1>2, <1>3, <1>4, <1>5 DEF ReferencePanics, SpecLint
<1>6. CASE s.type \in {"lark", "dingtalk"}
  BY <1>2, <1>6 DEF ReferencePanics, SpecLint, VendorNodesOK
<1>7. CASE s.type = "workwx"
  BY <1>1, <1>7 DEF ReferencePanics, WorkWXStructsPresent
<1>8. QED BY <1>1, <1>5, <1>6, <1>7 DEF ApprovalSpec, Kinds

\* When every WorkWX spec users can save carries its WorkWX struct, no run
\* ever panics in ToJobs: the WorkWX spec without its struct, which LintJob
\* lets through, is the only way to reach the nil dereference.
THEOREM OnlyWorkWXPanics ==
    ASSUME WorkWXStructsPresent
    PROVE  Spec => []NoNilDereference
<1>1. Init => NoNilDereference
  BY DEF Init, NoNilDereference
<1>2. IInv /\ NoNilDereference /\ [Next]_vars => NoNilDereference'
  <2> SUFFICES ASSUME IInv, NoNilDereference, [Next]_vars
               PROVE  NoNilDereference'
    OBVIOUS
  <2>1. CASE CompileStep
    <3>0. pc = "compile"
      BY <2>1 DEF CompileStep
    <3>1. ToJobsOutcome(JobOrder[idx], run) # "panic"
      BY <3>0, NoPanicStep
    <3>2. ToJobsOutcome(JobOrder[idx], run) \in {"ok", "error", "panic"}
      BY DEF ToJobsOutcome
    <3>3. QED BY <2>1, <3>1, <3>2 DEF CompileStep, NoNilDereference
  <2>2. CASE ~CompileStep
    BY <2>2 DEF Next, vars, NoNilDereference, SaveWorkflow, ChangeMembers, OpenRun,
                PassArgs, StartRun, UpdateStep
  <2>3. QED BY <2>1, <2>2
<1>3. QED BY <1>1, <1>2, InvariantHolds, PTL DEF Spec

=============================================================================

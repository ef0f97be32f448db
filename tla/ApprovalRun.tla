---------------------------- MODULE ApprovalRun ----------------------------
(***************************************************************************)
(* A workflow's approval jobs from edit to compiled gates.  Users save new *)
(* specs (a save is refused unless every job lints), administrators may    *)
(* change the members of approver groups, and a run compiles the caller's  *)
(* copy: the run is refused unless the copy lints, then every job is       *)
(* replaced by UpdateWithLatestSetting and compiled by ToJobs, one job at  *)
(* a time in the order JobOrder.                                           *)
(***************************************************************************)
EXTENDS Approval

CONSTANTS
    JobOrder,           \* the jobs in stage order
    Candidates,         \* the specs users may save
    ArgCandidates,      \* the specs a caller may pass as run arguments
    Memberships,        \* the member sets a group may have
    MembershipChanges   \* whether group members change while the system runs

ASSUME RunAssumption ==
    /\ JobOrder \in Seq(Jobs) /\ Len(JobOrder) > 0
    /\ \A i, k \in 1..Len(JobOrder) : JobOrder[i] = JobOrder[k] => i = k
    /\ Candidates \subseteq ApprovalSpec /\ ArgCandidates \subseteq ApprovalSpec
    /\ Memberships \subseteq SUBSET Users
    /\ MembershipChanges \in BOOLEAN

VARIABLES
    saved,    \* the latest saved workflow
    members,  \* the current members of each group
    held,     \* the caller's copy of the workflow, passed to the run
    run,      \* the workflow being compiled
    pc,       \* "idle", "update", "compile", "done", "failed" or "panicked"
    idx,      \* position in JobOrder of the job being processed
    gates     \* the compiled gate of each job, or Nil

vars == <<saved, members, held, run, pc, idx, gates>>

N == Len(JobOrder)

TypeOK ==
    /\ saved \in [Jobs -> ApprovalSpec]
    /\ members \in [Groups -> Memberships]
    /\ held \in [Jobs -> ApprovalSpec]
    /\ run \in [Jobs -> ApprovalSpec]
    /\ pc \in {"idle", "update", "compile", "done", "failed", "panicked"}
    /\ idx \in 1..N
    /\ gates \in [Jobs -> Gate \cup {Nil}]

LintWorkflow(W) == \A j \in Jobs : LintJob(W[j], members)

-----------------------------------------------------------------------------
\* A user saves a new spec for job j; the save path lints every job.
SaveWorkflow(j, s) ==
    /\ LintWorkflow([saved EXCEPT ![j] = s])
    /\ saved' = [saved EXCEPT ![j] = s]
    /\ UNCHANGED <<members, held, run, pc, idx, gates>>

\* An administrator changes the members of group g.
ChangeMembers(g, us) ==
    /\ MembershipChanges
    /\ members' = [members EXCEPT ![g] = us]
    /\ UNCHANGED <<saved, held, run, pc, idx, gates>>

\* The run dialog loads the saved workflow (SetPreset); what the previous
\* run compiled is dropped.
OpenRun ==
    /\ pc \in {"idle", "done", "failed", "panicked"}
    /\ held' = saved
    /\ run' = saved
    /\ pc' = "idle"
    /\ idx' = 1
    /\ gates' = [j \in Jobs |-> Nil]
    /\ UNCHANGED <<saved, members>>

\* The caller passes spec s as the arguments of job j (MergeArgs).
PassArgs(j, s) ==
    /\ pc = "idle"
    /\ held' = [held EXCEPT ![j] = MergeArgs(held[j], s)]
    /\ UNCHANGED <<saved, members, run, pc, idx, gates>>

\* A run of the caller's copy starts if the copy lints, and is refused
\* otherwise.
StartRun ==
    /\ pc = "idle"
    /\ IF LintWorkflow(held)
       THEN /\ run' = held /\ pc' = "update" /\ idx' = 1
            /\ gates' = [j \in Jobs |-> Nil]
       ELSE /\ pc' = "failed" /\ UNCHANGED <<run, idx, gates>>
    /\ UNCHANGED <<saved, members, held>>

\* UpdateWithLatestSetting of the next job, against the saved workflow as it
\* is at this moment.
UpdateStep ==
    /\ pc = "update"
    /\ LET j == JobOrder[idx] IN
       run' = [run EXCEPT ![j] = UpdateWithLatestSetting(run[j], saved[j])]
    /\ IF idx = N THEN pc' = "compile" /\ idx' = 1 ELSE pc' = pc /\ idx' = idx + 1
    /\ UNCHANGED <<saved, members, held, gates>>

\* ToJobs of the next job: a gate, an error that ends the run, or a nil
\* dereference.
CompileStep ==
    /\ pc = "compile"
    /\ LET j == JobOrder[idx]
           out == ToJobsOutcome(j, run)
       IN \/ /\ out = "ok"
             /\ gates' = [gates EXCEPT ![j] = CompiledGate(j, run, members)]
             /\ IF idx = N THEN pc' = "done" /\ idx' = idx ELSE pc' = pc /\ idx' = idx + 1
          \/ /\ out # "ok"
             /\ pc' = IF out = "error" THEN "failed" ELSE "panicked"
             /\ UNCHANGED <<idx, gates>>
    /\ UNCHANGED <<saved, members, held, run>>

-----------------------------------------------------------------------------
Init ==
    /\ members \in [Groups -> Memberships]
    /\ saved \in {W \in [Jobs -> Candidates] : LintWorkflow(W)}
    /\ held = saved
    /\ run = saved
    /\ pc = "idle"
    /\ idx = 1
    /\ gates = [j \in Jobs |-> Nil]

Next ==
    \/ \E j \in Jobs, s \in Candidates : SaveWorkflow(j, s)
    \/ \E g \in Groups, us \in Memberships : ChangeMembers(g, us)
    \/ OpenRun
    \/ \E j \in Jobs, s \in ArgCandidates : PassArgs(j, s)
    \/ StartRun \/ UpdateStep \/ CompileStep

Spec == Init /\ [][Next]_vars

-----------------------------------------------------------------------------
(* Properties.                                                             *)

\* The compiled gates of a finished run.
Compiled == {gates[j] : j \in {k \in Jobs : gates[k] # Nil}}

\* Every compiled Lark or DingTalk gate is one their lint accepts: at least
\* one node, each with approvers and an AND / OR rule, and for DingTalk at
\* most NodeCap nodes and no approver in two places.  The gate of a FromJob
\* job carries the origin's nodes, resolved in the run's own workflow.
CompiledVendorGatesWellFormed ==
    pc = "done" =>
        \A g \in Compiled :
            g.type \in {"lark", "dingtalk"} =>
                /\ g.vendor # Nil
                /\ Len(g.vendor.nodes) > 0
                /\ \A i \in DOMAIN g.vendor.nodes : NodeOK(g.vendor.nodes[i])
                /\ g.type = "dingtalk" =>
                      /\ Len(g.vendor.nodes) <= NodeCap
                      /\ IsInjective(FlattenSeq([i \in DOMAIN g.vendor.nodes |->
                                                     g.vendor.nodes[i].users]))

\* Every compiled native gate can be approved: it lists at least as many
\* approvers as it needs (the lint of native approvals, section 4.2).
NativeGatesSatisfiable ==
    pc = "done" =>
        \A g \in Compiled :
            g.type = "native" => Cardinality(g.native.users) >= g.native.needed

\* ToJobs never dereferences a missing approval struct.
NoNilDereference == pc # "panicked"

=============================================================================

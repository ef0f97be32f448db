------------------------------ MODULE Approval ------------------------------
(***************************************************************************)
(* The approval job variant, job_approval.go, as operators on a workflow's *)
(* approval job specs: LintJob, UpdateWithLatestSetting, MergeArgs and     *)
(* ToJobs with the resolution of a FromJob reference                       *)
(* (getOriginReferedJobSpec).  A workflow is a function from job names to  *)
(* specs.  A spec keeps the approval of its own type only: the code reads  *)
(* NativeApproval for a native job and the vendor struct (Lark, DingTalk   *)
(* or WorkWX) of its type otherwise, so one optional `vendor` field stands *)
(* for the three.  Nil is a missing (nil) approval struct.                 *)
(***************************************************************************)
EXTENDS Naturals, Sequences, SequencesExt, FiniteSets

CONSTANTS
    Jobs,        \* names of the approval jobs of the workflow
    Users,       \* approver user ids
    Groups,      \* approver groups (native approvals may list groups)
    VendorIds,   \* external approval-process ids
    Rules,       \* node types a spec may carry; "AND" and "OR" are the valid ones
    NodeCap,     \* the DingTalk node limit (20)
    Licensed,    \* whether the professional license check passes
    NoOrigin,    \* an empty or unknown origin job name
    Nil          \* a nil approval struct

Kinds == {"native", "lark", "dingtalk", "workwx"}
VendorKinds == Kinds \ {"native"}

Node == [users : Seq(Users), rule : Rules]
NativeSpec == [entries : SUBSET (Users \cup Groups), needed : Nat]
VendorSpec == [id : VendorIds, nodes : Seq(Node)]

ASSUME ApprovalAssumption ==
    /\ {"AND", "OR"} \subseteq Rules
    /\ NodeCap \in Nat
    /\ Licensed \in BOOLEAN
    /\ NoOrigin \notin Jobs
    /\ Users \cap Groups = {}
    /\ Nil \notin VendorSpec

\* An approval job spec (ApprovalJobSpec).
ApprovalSpec == [type : Kinds, source : {"direct", "fromjob"}, origin : Jobs \cup {NoOrigin},
                 native : NativeSpec \cup {Nil}, vendor : VendorSpec \cup {Nil}]

\* A compiled approval gate (JobTaskApprovalSpec).
Gate == [type : Kinds, native : [users : SUBSET Users, needed : Nat] \cup {Nil},
         vendor : VendorSpec \cup {Nil}]

\* GeneFlatUsers: the individual approvers of a list of users and groups,
\* with each group replaced by its current members.
FlatUsers(entries, members) ==
    (entries \cap Users) \cup UNION {members[g] : g \in entries \cap Groups}

-----------------------------------------------------------------------------
(* LintJob.                                                                *)

\* A node has approvers and an AND / OR rule (Lark and DingTalk lint).
NodeOK(n) == Len(n.users) > 0 /\ n.rule \in {"AND", "OR"}

\* Variant: the DingTalk checks of node count and duplicate approvers left out.
LintJobNoDingTalkLimits(s, members) ==
    /\ Licensed \/ s.type = "native"
    /\ s.type = "native" =>
          s.native # Nil /\ Cardinality(FlatUsers(s.native.entries, members)) >= s.native.needed
    /\ s.type \in {"lark", "dingtalk"} =>
          /\ s.vendor # Nil
          /\ Len(s.vendor.nodes) > 0
          /\ \A i \in DOMAIN s.vendor.nodes : NodeOK(s.vendor.nodes[i])

\* Variant: a Lark spec without its approval struct is not refused.
LintJobNoLarkNilCheck(s, members) ==
    /\ Licensed \/ s.type = "native"
    /\ s.type = "native" =>
          s.native # Nil /\ Cardinality(FlatUsers(s.native.entries, members)) >= s.native.needed
    /\ s.type = "lark" /\ s.vendor # Nil =>
          Len(s.vendor.nodes) > 0 /\ \A i \in DOMAIN s.vendor.nodes : NodeOK(s.vendor.nodes[i])
    /\ s.type = "dingtalk" =>
          /\ s.vendor # Nil
          /\ 0 < Len(s.vendor.nodes) /\ Len(s.vendor.nodes) <= NodeCap
          /\ \A i \in DOMAIN s.vendor.nodes : NodeOK(s.vendor.nodes[i])
          /\ IsInjective(FlattenSeq([i \in DOMAIN s.vendor.nodes |-> s.vendor.nodes[i].users]))

\* LintJob of spec s, with the groups' current members.  The vendor types
\* need the license; WorkWX is not linted (a TODO in the code).
LintJob(s, members) ==
    /\ Licensed \/ s.type = "native"
    /\ s.type = "native" =>
          s.native # Nil /\ Cardinality(FlatUsers(s.native.entries, members)) >= s.native.needed
    /\ s.type = "lark" =>
          /\ s.vendor # Nil
          /\ Len(s.vendor.nodes) > 0
          /\ \A i \in DOMAIN s.vendor.nodes : NodeOK(s.vendor.nodes[i])
    /\ s.type = "dingtalk" =>
          /\ s.vendor # Nil
          /\ 0 < Len(s.vendor.nodes) /\ Len(s.vendor.nodes) <= NodeCap
          /\ \A i \in DOMAIN s.vendor.nodes : NodeOK(s.vendor.nodes[i])
          /\ IsInjective(FlattenSeq([i \in DOMAIN s.vendor.nodes |-> s.vendor.nodes[i].users]))

-----------------------------------------------------------------------------
(* UpdateWithLatestSetting and MergeArgs.                                  *)

\* The job's spec is replaced by the latest saved one ("just use the latest
\* config"); the held spec is dropped.
UpdateWithLatestSetting(cur, latest) == latest

\* The caller's spec replaces the job's.
MergeArgs(cur, args) == args

-----------------------------------------------------------------------------
(* ToJobs.                                                                 *)

\* The origin spec a FromJob reference resolves to fails to qualify
\* (getOriginReferedJobSpec and the checks of ToJobs that return an error).
ReferenceError(s, W) ==
    \/ s.origin = NoOrigin
    \/ W[s.origin].source = "fromjob"
    \/ W[s.origin].type # s.type
    \/ s.type # "native" /\ W[s.origin].vendor = Nil
    \/ s.type # "native" /\ s.vendor # Nil /\ W[s.origin].vendor.id # s.vendor.id

\* ToJobs dereferences a nil approval struct: the origin's or this job's
\* NativeApproval (lines 171-172), or this job's vendor struct (its ID).
ReferencePanics(s, W) ==
    IF s.type = "native" THEN W[s.origin].native = Nil \/ s.native = Nil
    ELSE s.vendor = Nil

\* The outcome of ToJobs of job j in workflow W: "ok", "error" or "panic".
ToJobsOutcome(j, W) ==
    LET s == W[j] IN
    IF s.source # "fromjob" THEN "ok"
    ELSE IF ReferenceError(s, W) THEN "error"
    ELSE IF ReferencePanics(s, W) THEN "panic"
    ELSE "ok"

\* Variant: the direct native approvers compiled without GeneFlatUsers.
NativeGateUnflattened(s, W, members) ==
    IF s.native = Nil THEN Nil
    ELSE IF s.source # "fromjob"
    THEN [users |-> s.native.entries, needed |-> s.native.needed]
    ELSE [users |-> FlatUsers(W[s.origin].native.entries, members), needed |-> s.native.needed]

\* The native approval of the gate: a direct job's own approvers, a FromJob
\* job's origin approvers, flattened with the current members; the number
\* of approvals needed stays this job's own.
NativeGate(s, W, members) ==
    IF s.native = Nil THEN Nil
    ELSE IF s.source # "fromjob"
    THEN [users |-> FlatUsers(s.native.entries, members), needed |-> s.native.needed]
    ELSE [users |-> FlatUsers(W[s.origin].native.entries, members), needed |-> s.native.needed]

\* The vendor approval of the gate: a FromJob job takes the origin's nodes.
VendorGate(s, W) ==
    IF s.source # "fromjob" \/ s.vendor = Nil THEN s.vendor
    ELSE [id |-> s.vendor.id, nodes |-> W[s.origin].vendor.nodes]

\* The gate ToJobs compiles for job j when its outcome is "ok".
CompiledGate(j, W, members) ==
    LET s == W[j] IN
    [type |-> s.type,
     native |-> IF s.type = "native" THEN NativeGate(s, W, members) ELSE Nil,
     vendor |-> IF s.type = "native" THEN Nil ELSE VendorGate(s, W)]

=============================================================================

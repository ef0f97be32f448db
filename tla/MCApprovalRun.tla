--------------------------- MODULE MCApprovalRun ---------------------------
(***************************************************************************)
(* Two approval jobs: p, and q which may reference p.  Two users, one      *)
(* group whose members are u1 alone or both users, two approval-process    *)
(* ids, a DingTalk node limit of 1 (standing for 20), and a node rule      *)
(* "XOR" that is neither AND nor OR.                                       *)
(***************************************************************************)
EXTENDS ApprovalRun, TLC

CONSTANTS p, q, u1, u2, g1, v1, v2

MCJobs == {p, q}
MCJobOrder == <<p, q>>
MCMemberships == {{u1}, {u1, u2}}

\* Native approvals: two named users, one user, the group alone (one or two
\* approvals needed).
NatBoth == [entries |-> {u1, u2}, needed |-> 2]
NatOne == [entries |-> {u1}, needed |-> 1]
NatGroup1 == [entries |-> {g1}, needed |-> 1]
NatGroup2 == [entries |-> {g1}, needed |-> 2]

\* Approval nodes: valid ones, one without approvers, one with a bad rule.
NodeA == [users |-> <<u1>>, rule |-> "AND"]
NodeB == [users |-> <<u1>>, rule |-> "OR"]
NodeC == [users |-> <<u2>>, rule |-> "OR"]
NodeEmpty == [users |-> <<>>, rule |-> "OR"]
NodeBadRule == [users |-> <<u2>>, rule |-> "XOR"]

Direct(t, nat, ven) ==
    [type |-> t, source |-> "direct", origin |-> NoOrigin, native |-> nat, vendor |-> ven]
FromP(t, nat, ven) ==
    [type |-> t, source |-> "fromjob", origin |-> p, native |-> nat, vendor |-> ven]

DirectVendors(kinds) ==
    {Direct(t, Nil, v) : t \in kinds,
        v \in {[id |-> v1, nodes |-> <<NodeA>>], [id |-> v2, nodes |-> <<NodeA, NodeB>>]}}
FromPVendors(kinds) ==
    {FromP(t, Nil, v) : t \in kinds, v \in {Nil, [id |-> v1, nodes |-> <<NodeC>>]}}

\* The pass run: native, Lark and DingTalk jobs, direct or referencing p.
MCCandidates ==
    {Direct("native", NatGroup2, Nil), FromP("native", NatOne, Nil)}
    \cup DirectVendors({"lark", "dingtalk"}) \cup FromPVendors({"lark", "dingtalk"})

\* A FromJob native job whose own approvers outnumber its origin's.
MCCandidatesFromJobNative ==
    {Direct("native", n, Nil) : n \in {NatOne, NatBoth}} \cup {FromP("native", NatBoth, Nil)}

\* Direct native jobs that approve through the group.
MCCandidatesGroup ==
    {Direct("native", n, Nil) : n \in {NatOne, NatGroup1, NatGroup2}}

\* WorkWX jobs, direct or referencing p.
MCCandidatesWorkWX ==
    {Direct("workwx", Nil, [id |-> v1, nodes |-> <<NodeA>>])} \cup FromPVendors({"workwx"})

\* A caller's arguments: a well-formed spec and a malformed one.
MCArgCandidates ==
    {Direct("lark", Nil, [id |-> v1, nodes |-> <<NodeA>>]),
     Direct("dingtalk", Nil, [id |-> v1, nodes |-> <<NodeEmpty, NodeBadRule>>])}

=============================================================================

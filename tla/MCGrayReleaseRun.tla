-------------------------- MODULE MCGrayReleaseRun --------------------------
(***************************************************************************)
(* A workflow of three gray-release jobs: first job f in stage 1, chained *)
(* jobs a and b in stages 2 and 3.  Three workloads and one image; live   *)
(* replica counts 2 and 1 (a 40% canary of 1 rounds up to all of it), and  *)
(* a third workload the cluster does not have.                             *)
(***************************************************************************)
EXTENDS GrayReleaseRun, TLC

CONSTANTS f, a, b, c1, c2, n1, w1, w2, w3, i1

MCJobs == {f, a, b}
MCJobOrder == <<f, a, b>>
MCStageOf == (f :> 1) @@ (a :> 2) @@ (b :> 3)
MCTimeouts == {0, 10}

\* A saved target: its replica count is what the first job last recorded.
T(w) == [key |-> w, image |-> i1, replica |-> 0]

\* The saved specs users choose between: the first job's cluster, scale,
\* timeout and target list vary, the chained jobs' cluster and scales vary.
FirstSpecs(cs) ==
    [cluster : cs, ns : {n1}, from : {NoFrom}, scale : {0, 40}, timeout : MCTimeouts,
     targets : {<<T(w1)>>, <<T(w1), T(w2)>>, <<T(w2), T(w1)>>, <<T(w3)>>}]
ChainedSpecs(cs) ==
    [cluster : cs, ns : {n1}, from : {f}, scale : {40, 100}, timeout : {0},
     targets : {<<>>}]

\* One cluster: no save ever changes a job's cluster or namespace.
MCCandidates == FirstSpecs({c1}) \cup ChainedSpecs({c1})
\* Two clusters: a save may move a chained job to another cluster (one
\* first-job spec is enough for that).
MCCandidatesTwoClusters ==
    {s \in FirstSpecs({c1}) : s.scale = 40 /\ s.timeout = 0 /\ s.targets = <<T(w1)>>}
        \cup ChainedSpecs({c1, c2})

MCLive ==
    [c \in {c1, c2} |-> [n \in {n1, NoNamespace} |->
        IF n = n1 THEN (w1 :> 2) @@ (w2 :> 1) @@ (w3 :> Absent)
                ELSE [w \in {w1, w2, w3} |-> Absent]]]

=============================================================================

CONSTANTS
    f = f
    a = a
    b = b
    c1 = c1
    c2 = c2
    n1 = n1
    w1 = w1
    w2 = w2
    w3 = w3
    i1 = i1
    NoFrom = NoFrom
    NoNamespace = NoNamespace
    Absent = Absent
    Jobs <- MCJobs
    JobOrder <- MCJobOrder
    StageOf <- MCStageOf
    Clusters = {c1, c2}
    Namespaces = {n1}
    Workloads = {w1, w2, w3}
    Images = {i1}
    MaxReplica = 2
    Timeouts <- MCTimeouts
    Candidates <- MCCandidatesTwoClusters
    Live <- MCLive
INIT Init
NEXT Next
INVARIANT ChainEndsInFullRelease

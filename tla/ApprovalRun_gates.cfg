CONSTANTS
    p = p
    q = q
    u1 = u1
    u2 = u2
    g1 = g1
    v1 = v1
    v2 = v2
    NoOrigin = NoOrigin
    Nil = Nil
    Jobs <- MCJobs
    JobOrder <- MCJobOrder
    Users = {u1, u2}
    Groups = {g1}
    VendorIds = {v1, v2}
    Rules = {"AND", "OR", "XOR"}
    NodeCap = 1
    Licensed = TRUE
    Memberships <- MCMemberships
    ArgCandidates <- MCArgCandidates
    Candidates <- MCCandidates
    MembershipChanges = TRUE
INIT Init
NEXT Next
INVARIANT TypeOK CompiledVendorGatesWellFormed NoNilDereference

SPECIFICATION Spec
CONSTANTS
    None = None
    Tasks = {t1}
    Bodies <- MCThreeBodies
    Hashes <- MCHashes
    HashPlan <- MCHashPlan
    Decide <- MCDecide
    Ttls = {0}
    Txs <- MCTxs
    MaxPlans = 1
    MaxGrants = 1
    MaxTime = 0
    MaxEdits = 1
    MaxForces = 0
CHECK_DEADLOCK FALSE
INVARIANT SubmittedBytesAreApproved

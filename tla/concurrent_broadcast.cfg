SPECIFICATION Spec
CONSTANTS
    None = None
    Tasks = {t1, t2}
    Bodies <- MCTwoBodies
    Hashes <- MCHashes
    HashPlan <- MCHashPlan
    Decide <- MCDecide
    Ttls = {0}
    Txs = {None}
    MaxPlans = 1
    MaxGrants = 1
    MaxTime = 0
    MaxEdits = 0
    MaxForces = 0
CHECK_DEADLOCK FALSE
INVARIANT SubmitOncePerGrant

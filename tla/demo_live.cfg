SPECIFICATION ScriptSpec
CONSTANTS
    None = None
    Host = host
    Tasks = {host}
    Bodies <- MCBodies
    LaunchPlans <- MCBodies
    ClusterOf <- MCClusterOf
    Malformed <- MCMalformed
    Hashes <- MCHashes
    HashPlan <- MCHashPlan
    Decide <- MCDecide
    Ttls = {1}
    Txs <- MCTxs
    MaxPlans = 1
    MaxGrants = 1
    MaxTime = 2
    MaxEdits = 0
    MaxForces = 1
CHECK_DEADLOCK FALSE
PROPERTY
    OnlyTheNodeFailsABroadcast

SPECIFICATION FairSpec
CONSTANTS
    None = None
    Tasks = {t1}
    Bodies <- MCBodies
    Hashes <- MCHashes
    HashPlan <- MCHashPlan
    Decide <- MCDecide
    Ttls = {1}
    Txs <- MCTxs
    MaxPlans = 2
    MaxGrants = 2
    MaxTime = 2
    MaxEdits = 0
    MaxForces = 0
CHECK_DEADLOCK FALSE
INVARIANTS
    SubmitOnlySimulated
    SubmitMatchesApproval
    SubmitOncePerGrant
    SignedRunIsApproved
    ExecutionReceiptsAreTrue
    IdempotencyKeysAreUnique
PROPERTIES
    TerminalIsFinal
    Settles
    ImplementsGate

SPECIFICATION Spec
CONSTANTS
    None = None
    Tasks = {t1, t2}
    Bodies <- MCTwoBodies
    Hashes <- MCHashes
    HashPlan <- MCHashPlan
    Decide <- MCDecide
    Ttls = {0}
    Txs = {None}
    MaxPlans = 2
    MaxGrants = 1
    MaxTime = 1
    MaxEdits = 1
    MaxForces = 1
CHECK_DEADLOCK FALSE
SYMMETRY Symmetry
CONSTRAINT MeddlesOnlyAtFirst
INVARIANTS
    IInv
    ApprovalIsSingleUse
    SignedOnlyAsGranted
    PolicyBoundsSigning
    LedgerTellsLifecycle

SPECIFICATION Spec
CONSTANTS
    None = None
    Undefined = Undefined
\* the policy engine
    Clusters = {"devnet", "testnet", "mainnet-beta"}
    Instructions <- MCInstructions
    Profiles <- MCProfiles
    MaxInstructions = 3
\* tokens and nonce stores
    Verifiers = {"first", "second", "alone"}
    Stores = {"database", "memory"}
    StoreOf <- MCStoreOf
    Durable = {"database"}
    Hashes = {h1, h2}
    Ttls = {0}
    MaxIssued = 2
    MaxTime = 1
    MaxAccepted = 2
    MaxLosses = 1
\* the ledger and the explorer
    Bodies <- MCBodies
    Contents <- MCContents
    Values <- MCValues
    Renders = {r1, r2}
    Undrawable <- MCUndrawable
    MaxReceipts = 3
    MaxWrites = 3
    MaxMoves = 1
\* mission contracts
    CapabilityIds = {"research", "email"}
    BoundaryIds = {"public", "operator"}
    NodeIds = {"intent"}
    InitialContract <- MCContract
    MaxEdits = 3
CHECK_DEADLOCK FALSE
SYMMETRY Symmetry
CONSTRAINT LedgerFirst
INVARIANTS
    DecisionIsStrictest
    AcceptedOncePerLife
    ReuseIsBounded
    VerifyFindsFirst
    AlteringTakesThreeWrites
    BadgeTellsCards
    VerifiedPageIsPrefix
    ExportKeepsVerdict
    CorpusIsStricter
    AcceptedIsGated
PROPERTY DecisionsOnlyTighten

SPECIFICATION Spec
CONSTANTS
    Accounts <- MCAccounts
    Contracts <- MCContracts
    None <- MCNone
    CodeHash <- MCCodeHash
    Selectors <- MCSelectors
    MAX_ACTIONS = 2
    MAX_EXTENSIONS = 2
    MAX_EXTENSIONS_BYTES = 2
    MaxUint256 = 1000000
    AssetToken = "token"
    InitialAuthority = "eoa"
    Mandates <- PerimeterMandates
    Revocable <- NoMandates
    Candidates <- Nobody
    Batches <- PerimeterBatches
    Nonces = {}
    Thresholds = {}
    Amounts = {1, 2}
    MaxAssets = 2
    MaxSupply = 0
    MaxEth = 1
    MaxTime = 2
    MaxEpoch = 0
    MaxPeriods = 1
    MaxExecutions = 1
INVARIANTS
    SignedPerimeter
PROPERTIES
    NativeKept

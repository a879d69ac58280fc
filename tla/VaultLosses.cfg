SPECIFICATION Spec
CONSTANTS
    Accounts <- MCAccounts
    Contracts <- MCContracts
    None <- MCNone
    CodeHash <- MCCodeHash
    Selectors <- MCSelectors
    MAX_ACTIONS = 2
    MAX_EXTENSIONS = 2
    MAX_EXTENSIONS_BYTES = 2
    MaxUint256 = 39999
    AssetToken = "token"
    InitialAuthority = "hook"
    Mandates <- LossMandates
    Revocable <- NoMandates
    Candidates <- Nobody
    Batches <- LossBatches
    Nonces = {}
    Thresholds = {}
    Amounts = {1}
    MaxAssets = 4
    MaxSupply = 1
    MaxEth = 0
    MaxTime = 1
    MaxEpoch = 0
    MaxPeriods = 2
    MaxExecutions = 2
INVARIANTS
    NoThousandCuts
    BaselineProtected
PROPERTIES
    ShareValueKept
    ImplementsCustody

SPECIFICATION Spec
CONSTANTS
    Accounts <- MCAccounts
    Contracts <- MCContracts
    None <- MCNone
    CodeHash <- MCCodeHash
    Selectors <- MCSelectors
    MAX_ACTIONS = 2
    MAX_EXTENSIONS = 2
    MAX_EXTENSIONS_BYTES = 2
    MaxUint256 = 1000000
    AssetToken = "token"
    InitialAuthority = "eoa"
    Mandates <- PeakMandates
    Revocable <- NoMandates
    Candidates <- Nobody
    Batches <- TransferOnly
    Nonces = {}
    Thresholds = {}
    Amounts = {1,2,4}
    MaxAssets = 4
    MaxSupply = 0
    MaxEth = 0
    MaxTime = 1
    MaxEpoch = 0
    MaxPeriods = 1
    MaxExecutions = 2
INVARIANTS
    PeakCovered

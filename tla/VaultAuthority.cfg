SPECIFICATION Spec
CONSTANTS
    Accounts <- TwoAccounts
    Contracts <- OneContract
    None <- MCNone
    CodeHash <- MCCodeHash
    Selectors <- MCSelectors
    MAX_ACTIONS = 2
    MAX_EXTENSIONS = 2
    MAX_EXTENSIONS_BYTES = 2
    MaxUint256 = 1000000
    AssetToken = "hook"
    InitialAuthority = "eoa"
    Mandates <- AuthorityMandates
    Revocable <- AuthorityMandates
    Candidates <- Anybody
    Batches <- AuthorityBatches
    Nonces = {0}
    Thresholds = {1, 2}
    Amounts = {1}
    MaxAssets = 0
    MaxSupply = 0
    MaxEth = 0
    MaxTime = 1
    MaxEpoch = 2
    MaxPeriods = 1
    MaxExecutions = 3
INVARIANTS
    EpochBarrier
    ExecutedOnceThenRetired
    VaultInv
PROPERTIES
    RetiredForever

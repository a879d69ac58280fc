SPECIFICATION ClientSpec
CONSTANTS
    Tools = {"vault_bootstrap", "vault_health_check", "factory_create_vault_prepare"}
    Required = {"vault_health_check", "factory_create_vault_prepare"}
    Bootstrap = {"vault_bootstrap"}
    Preparing = {"factory_create_vault_prepare"}
    MaxServers = 2
    MaxRequests = 6
    MaxNoise = 1
    None = None
INVARIANTS
    BridgeInv
    AnswersMatch
    IdleIsClean
PROPERTIES
    CallsAreOffered
    CallsEnd
CHECK_DEADLOCK FALSE

\* Wallet calls, network switches and reloads that overlap; submissions on one page.
SPECIFICATION Spec
CONSTANTS
    testnet = testnet
    mainnet = mainnet
    Networks = {testnet, mainnet}
    Home = testnet
    NONE = NONE
    Pages <- MCPages
    Remembered <- MCRemembered
    Scenarios <- MCScenarios
    MaxEvents = 3
    MaxCalls = 2
    Retries = 1
    MaxPolls = 2
INVARIANTS SignerIsShown DisconnectHolds SubmissionsLandOnce
PROPERTIES OnlyTheCurrentRunShows PageSettles
CHECK_DEADLOCK FALSE

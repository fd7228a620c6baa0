\* Every method of the three clients, retried twice, beside other senders or cached reads; every listener.
SPECIFICATION Spec
CONSTANTS
    Retries = 2
    MaxAttempts = 2
    BaseFee = 1
    ResourceFee = 2
    MaxFeeCap = 5
    MinFees = {4, 8}
    Readers = {1, 2}
    Budgets <- MCBudgets
    EventLog <- MCEventLog
    PageLimit = 3
    Kinds = {"none", "subscribeEvents", "onMint", "onTransfer", "onVaultDeposit", "pollEvents"}
    StartLedgers <- MCStartLedgers
    MaxFailures = 1
    MaxThrows = 1
INVARIANTS SendsAreJustified ResultIsTheOutcome ReadYourWrites InterfaceMatchesContracts DeliveredInOrder
PROPERTY AppProgresses
CHECK_DEADLOCK FALSE

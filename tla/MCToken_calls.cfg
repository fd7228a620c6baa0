\* Lists, locks, the pause and the cap; allowances that expire and roles that change.
SPECIFICATION Spec
CONSTANTS
    alice = alice
    bob = bob
    Addr = {alice, bob}
    NoAdmin = NoAdmin
    RolesInPlay = {"Pauser"}
    MaxInt = 3
    MaxBatchOps = 2
    Amounts = {0, 1, 2}
    Expirations = {0, 1}
    UnlockTimes = {2}
    Caps = {2}
    Spenders = {bob}
    MaxSeq = 3
    MaxNonce = 1
CONSTRAINT Explored
INVARIANTS IndInv Conservation BatchTransferFunded
PROPERTIES LedgerSpec DebitsAreAuthorized
CHECK_DEADLOCK FALSE

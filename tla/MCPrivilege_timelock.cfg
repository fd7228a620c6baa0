\* The timelock while roles, the pool and the admin change.
SPECIFICATION PrivilegeSpec
CONSTANTS
    alice = alice
    bob = bob
    Addr = {alice, bob}
    NoAdmin = NoAdmin
    RolesInPlay = {"Admin", "SuperAdmin"}
    SetFeeConfigAction = SetFeeConfigAction
    PrivilegeDelay = 1
    Fees <- MCFees
    PoolsInPlay <- MCPools
    MaxNow = 2
    MaxProposed = 2
INVARIANT IndInv
PROPERTIES LiveUntilConsumed OwnershipMoves
CHECK_DEADLOCK FALSE

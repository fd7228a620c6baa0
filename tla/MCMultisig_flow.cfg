\* The whole proposal life cycle: two proposals, three signers, rotating pools.
SPECIFICATION Spec
CONSTANTS
    alice = alice
    bob = bob
    carol = carol
    Addr = {alice, bob, carol}
    NoAdmin = NoAdmin
    Founders = {alice}
    Grantees = {carol}
    RolesInPlay = {"Minter"}
    Pools <- MCPools
    Expiry = 2
    Delay = 1
    SecsPerLedger = 1
    NoGrant = NoGrant
    MaxProps = 2
    MaxSeq = 3
INVARIANT ExecutedAsProposed
PROPERTIES ProposalsMoveForward UpgradesWait
CHECK_DEADLOCK FALSE

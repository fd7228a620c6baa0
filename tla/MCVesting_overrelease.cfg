\* Does a schedule ever pay out more than its total?
SPECIFICATION Spec
CONSTANTS
    alice = alice
    bob = bob
    Addr = {alice, bob}
    NoAdmin = NoAdmin
    Founders = {alice}
    Delegations <- MCDelegations
    Amounts <- MCAmounts
    Cliffs = {0, 1}
    Durations = {2}
    MilestoneLists <- MCMilestones
    MaxSchedules = 2
    MaxSeq = 3
INVARIANT NeverOverReleases
CHECK_DEADLOCK FALSE

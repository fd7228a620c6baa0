\* Two schedules with tranches, claims, delegates and revocations.
SPECIFICATION Spec
CONSTANTS
    alice = alice
    bob = bob
    Addr = {alice, bob}
    NoAdmin = NoAdmin
    Founders = {alice}
    Delegations <- MCDelegations
    Amounts <- MCAmounts
    Cliffs = {0, 2}
    Durations = {2}
    MilestoneLists <- MCMilestones
    MaxSchedules = 2
    MaxSeq = 3
INVARIANTS Consistent RevocationDivides PageIsBacked
CHECK_DEADLOCK FALSE

\* Two invoices that share one balance, releases, retries and re-created ids.
SPECIFICATION SplitSpec
CONSTANTS
    alice = alice
    bob = bob
    Ids = {1, 2}
    Payees = {alice, bob}
    RecipientLists <- MCLists
    Totals = {0, 3}
    Deposits = {1, 2}
    MaxFunds = 5
    MaxCreates = 2
    MaxReleases = 5
INVARIANTS PaidOrOnRecord FullMeansPaid
CHECK_DEADLOCK FALSE

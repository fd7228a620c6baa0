\* Restarts, faults, a reorganisation and a manual cursor reset; webhooks and paging.
SPECIFICATION ServiceSpec
CONSTANTS
    alice = alice
    bob = bob
    t1 = t1
    t2 = t2
    w1 = w1
    m1 = m1
    m2 = m2
    m3 = m3
    NoTx = NoTx
    NoHash = NoHash
    Accounts = {alice, bob}
    Txs = {t1, t2, w1, m1, m2, m3}
    EventsOf <- MCEventsOf
    Batch = 1
    Lookback = 2
    PageLimit = 4
    Scenarios <- MCScenarios
    Urls = {"https://one", "https://two"}
    Asked <- MCAsked
INVARIANTS AggregatesMatchRows CheckpointedIsIndexed ClientsAreServed
PROPERTIES PublishedOnce ServiceProgresses

\* Every read hook: two inputs, renders, refetches, confirmations and answers in any order.
SPECIFICATION Spec
CONSTANTS
    alice = alice
    bob = bob
    NoKey = NoKey
    BadKey = BadKey
    Nothing = Nothing
    Keys = {alice, bob}
    Pairs <- MCPairs
    MaxCalls = 3
    MaxVersion = 1
    MaxRenders = 2
    MaxSharedRenders = 1
INVARIANT ShowsItsInput
PROPERTIES AnswersAreTimely ComesToRest
CHECK_DEADLOCK FALSE

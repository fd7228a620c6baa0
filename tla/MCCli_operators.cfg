\* Two operators, two or three commands besides re-run migrations.
CONSTANTS
  None = None
  Torn = Torn
  Aliases <- MCAliases
  Ids <- MCIds
  Names = {"treasury", "ops"}
  Procs = {p1, p2}
  Accounts = {alice, bob}
  Hashes = {h1, h2}
  Given <- MCGiven
  Named <- MCNamed
  Scenarios <- MCScenarios
  p1 = p1
  p2 = p2
  alice = alice
  bob = bob
  h1 = h1
  h2 = h2
INVARIANTS ReportsAreTrue FilesAreKept
PROPERTIES CommandEnds
SPECIFICATION Spec
CHECK_DEADLOCK FALSE

\* The migration of the repository's own token, run again whenever it fails.
CONSTANTS
  None = None
  Torn = Torn
  Aliases <- MCAliases
  Ids <- MCIds
  Names = {"treasury", "ops"}
  Procs = {p1, p2}
  Accounts = {alice, bob}
  Hashes = {h1, h2}
  Given <- MCGiven
  Named <- MCNamed
  Scenarios <- MCMigration
  p1 = p1
  p2 = p2
  alice = alice
  bob = bob
  h1 = h1
  h2 = h2
PROPERTIES MigrationConverges
SPECIFICATION Spec
CHECK_DEADLOCK FALSE

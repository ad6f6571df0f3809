\* Three runs from no file at all, or from what a user or a crashed run left.
CONSTANTS
  Configurations <- MCConfigurations
  MaxStarts = 3
  MaxEdits = 1
  MaxBuilt = 3
  Nonces = {1, 2}
  Clock = {1, 2}
CHECK_DEADLOCK FALSE
SPECIFICATION Spec
INVARIANTS
  StartUpInv
  RunsOnUserConfig
  OnlyBadWalletsFail
  LandingsAreAttributable
  TransactionsAreDistinct

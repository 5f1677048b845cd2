SPECIFICATION IdentitySpec
CONSTANTS
  MaxSecret = 5
  MaxKills = 4
  ReadErrors = FALSE
INVARIANTS MultiaddrIsStable PublishedIsRestartable IdentityInv
PROPERTY SecretsAreKept

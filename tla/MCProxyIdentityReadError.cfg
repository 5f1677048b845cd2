SPECIFICATION IdentitySpec
CONSTANTS
  MaxSecret = 4
  MaxKills = 1
  ReadErrors = TRUE
INVARIANT MultiaddrIsStable
\* Every read may fail, so the bound on secrets may be used up.
CHECK_DEADLOCK FALSE

SPECIFICATION Spec
CONSTANTS
  Apps <- MCApps
  Authors <- MCAuthors
  Claims <- MCClaims
  Bundles <- MCBundles
  MaxSlots = 2
  NInstalls = 4
INVARIANTS
  BooksAgree
  NothingLeaks
  GuardsHold
CHECK_DEADLOCK FALSE

CONSTANTS
  MaxPages = 2
  Handles = {h1, h2}
  None = None
  MaxCrashes = 1
SPECIFICATION Spec
INVARIANT CacheAssertHolds

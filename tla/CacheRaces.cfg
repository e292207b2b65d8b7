SPECIFICATION FairSpec
CONSTANTS
  Req = {r1, r2}
  Gone = Gone
  DetailTtl = 2
  MaxWrites = 2
  MaxFaults = 1
INVARIANTS StaleExplained BlockTakesEffect
PROPERTIES GoneStaysGone EventuallyFresh

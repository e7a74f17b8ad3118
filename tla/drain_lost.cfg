SPECIFICATION Spec
CONSTANTS
  MaxConns = 2
  MaxWishes = 2
  MaxOffers = 0
  MaxFaults = 0
INVARIANT DrainIntentKept
CHECK_DEADLOCK FALSE

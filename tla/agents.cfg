SPECIFICATION Spec
CONSTANTS
  Slots = {1, 2}
  None = none
  MaxCerts = 2
  MaxFaults = 2
  MaxConns = 2
  MaxWishes = 2
  MaxOffers = 2
  n1 = n1
  n2 = n2
  q1 = q1
  b1 = b1
  b2 = b2
INVARIANTS TransportSafe RoutingSafe
PROPERTIES TransportSettles HealthFollows
CHECK_DEADLOCK FALSE

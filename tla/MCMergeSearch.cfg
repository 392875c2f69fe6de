SPECIFICATION FairSpec
CONSTANTS
  Callers = {p1, p2, p3}
  Keys = {k1, k2}
  MaxFlights = 4
INVARIANTS TypeOK SingleFlight NobodyForgotten OwnFlight
PROPERTIES CallsReturn

SPECIFICATION AMSpec
CONSTANTS
  Addr = {a1, a2}
  Req = {r1, r2}
PROPERTIES
  FalseMeansNotWatched

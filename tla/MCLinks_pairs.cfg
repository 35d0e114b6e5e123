SPECIFICATION LinkSpec
CONSTANTS
  LinkIds = {l1}
  Forms = {f1,f2}
  Keypairs = {k1}
  MaxPair = 2
  Runs = {r1,r2}
  MaxAttempts = 2
  Nothing = Nothing
INVARIANT LatestKept PairHeard KeyCanGo
SYMMETRY Alike
CHECK_DEADLOCK FALSE

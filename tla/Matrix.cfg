SPECIFICATION StoreSpec
CONSTANTS
  Count = 3
  TraceOf <- TwoShareOne
  EmptyTraces = {2}
  Limits = {0, 1}
  MaxTrouble = 2
  MaxDamage = 1
INVARIANT TotalsHonest
PROPERTY CommitsOnce
PROPERTY RepeatCompletes

CONSTANTS
  Days <- MCDays
  Taxes <- MCTaxes
  Shown <- MCShown
  OldLinks = {"taxyear"}
  Batches <- MCBatches
  Movable <- MCMovable
  MovedTo <- MCMovedTo
  Plans <- MCPlans
  Accounts <- MCAccounts
  Fx <- MCFx
  Habits <- MCHabits
  MaxPaged = 3
  Horizon = 45
SPECIFICATION Spec
INVARIANTS Whole Conserved PlanAdds LineMeets Recovered

SPECIFICATION MCSpec
CONSTANTS
  Docs = {1, 2, 3}
  Txs = {1, 2, 3}
  Labels = {1, 2, 3}
  Payees = {1, 2}
  Types <- MCTypes
  Legs <- MCLegs
  MaxSimilar = 1
  Catalog <- MCCatalog
  Names <- MCNames
  Folded <- MCFolded
  Hands = {"page", "chat"}
  None = None
  Gone = Gone
  Words = {1, 2, 3, 4, 5}
  Volatile = {5}
  Boilerplate = {4}
  MaxTokens = 2
  debit = debit
  transfer = transfer
  food = food
  rent = rent
  Food = Food
  Rent = Rent
  trip = trip
  Trip = Trip
  Day <- MCDay
  Amount <- MCAmount
  Filters <- MCFilters
  Limits = {1, 2}
  MaxPages = 3
INVARIANTS OneActive AsListed NothingMissed PagesWhole
PROPERTIES NothingLost Taught
CHECK_DEADLOCK FALSE

SPECIFICATION TickSpec
CONSTANTS
  Prices = {12, 24}
  Amounts = {1}
  EditAmounts = {1}
  HalfSpread = 6
  Requests <- OneLot
  MaxOrders = 2
  MaxCandles = 2
  MaxEdits = 1
CHECK_DEADLOCK FALSE
INVARIANTS
  ScriptKnowsItsOrders
  NoLookAhead

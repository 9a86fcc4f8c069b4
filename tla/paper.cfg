SPECIFICATION PaperSpec
CONSTANTS
  m1 = m1
  m2 = m2
  m3 = m3
  live = live
  Prices = {12, 24}
  Amounts = {1, 2}
  EditAmounts = {1}
  HalfSpread = 6
  Requests <- SomeRequests
  MaxOrders = 3
  Traders = {m1, m2, m3, live}
  Trades <- FourTrades
  MockBounds <- OrdersOrStarts
CHECK_DEADLOCK FALSE
VIEW BookView
INVARIANTS
  BookFollowsFills
  OrdersGoHome
  UpdatesHeardOnce
PROPERTIES
  CrossedOrdersMatched
  ReduceOnlyReduces

SPECIFICATION FairSpec
CONSTANTS
  ticker = ticker
  book = book
  binance = binance
  a = a
  b = b
  c = c
  Keys = {ticker, book}
  Sdks = {binance}
  Feeds = {f1, f2, f3}
  NoFeed = NoFeed
  Subscribers = {a, b, c}
  KeyOf <- TwoKeys
  SdkOf <- OneExchange
  Throwers = {c}
  MaxSequence <- FiveAndOne
  MaxFailures = 2
CHECK_DEADLOCK FALSE
INVARIANTS
  OneLoopUnlessStopped
  SubscriberInFeed
PROPERTIES
  FeedDelivers

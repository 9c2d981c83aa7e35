CONSTANTS
  N = 2
  Feeds = {tradeFeed}
  Streams = {"Trade"}
  FeedStream <- MCFeedStream
  Subs = {t1, o2}
  SubActor <- MCSubActor
  SubStream <- MCSubStream
  Critical = {t1}
  Capacity = 1
  MaxEvents <- MCMaxEvents
  Free = Free
  Run = Run
  t1 = t1
  b1 = b1
  o2 = o2
  tradeFeed = tradeFeed
  bookFeed = bookFeed

SPECIFICATION FairSpec
INVARIANTS
  WindDownExclusive
  ReadyBeforeEvents
  WindDownOnce
PROPERTIES
  ImplementsLifecycle
  ShutdownCompletes
  EveryEventHandled

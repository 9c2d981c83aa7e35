CONSTANTS
  N = 1
  Feeds = {tradeFeed, bookFeed}
  Streams = {"Trade", "BookUpdate"}
  FeedStream <- MCFeedStream
  Subs = {t1, b1}
  SubActor <- MCSubActor
  SubStream <- MCSubStream
  Critical = {t1}
  Capacity = 1
  MaxEvents <- MCMaxEvents
  Free = Free
  Run = Run
  t1 = t1
  b1 = b1
  o2 = o2
  tradeFeed = tradeFeed
  bookFeed = bookFeed

SPECIFICATION FairSpec
INVARIANTS
  TypeOK
  CriticalContiguous
  LossIsReported
  Exclusive
PROPERTIES
  LagStopsRun

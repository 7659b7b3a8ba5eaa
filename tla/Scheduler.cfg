CONSTANTS
  Streams = {s1, s2, s3}
  Null = Null
  RateLimited = {s1}
  MaxFrames = 2
SPECIFICATION FairSpec
INVARIANTS OneRing DataIsScheduled
PROPERTIES  RefinesRoundRobin ReturnsUnlessLimited

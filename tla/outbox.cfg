SPECIFICATION FairSpec
CONSTANTS
  Events = {1, 2}
  Workers = {w1}
  MaxAttempts = 2
  MaxCrashes = 1
  MaxFailures = 2
INVARIANTS TypeOK NothingLost EffectsBounded
PROPERTIES ChannelHolds EveryEventProcessed

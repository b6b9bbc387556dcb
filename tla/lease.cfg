SPECIFICATION FairSpec
CONSTANTS
  Workers = {w1, w2}
  Lease = 4
  Stale = 4
  MaxPrepare = 3
  MaxAttempts = 2
  MaxTries = 2
  MaxCrashes = 1
  MaxOutages = 1
INVARIANTS TypeOK OneTranscriber
PROPERTY TranscriptionEnds

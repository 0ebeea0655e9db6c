SPECIFICATION Spec
CONSTANTS
  Keys <- MCKeys
  CACHE_SIZE = 3
  CacheEntries = 2
  Slots = 3
  MaxKeys = 4
INVARIANTS TypeOK DecoderInStep RingKeepsOrder ShiftHeldIsSeen LatestIsListed
PROPERTIES TakenInOrder KeysAreTaken

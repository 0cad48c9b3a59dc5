SPECIFICATION FairSpec
CONSTANTS
  u1 = u1
  u2 = u2
  None = None
  User <- TwoUsers
  Feed <- TwoFeeds
  Slot <- TwoSlots
  Cap = 2
INVARIANTS
  NoStrayStream
  StreamsAreOwn
  NothingAfterLogout
  ConnectedHasFeeds
PROPERTIES
  KeepsPromise
CHECK_DEADLOCK FALSE

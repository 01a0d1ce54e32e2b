SPECIFICATION FairSpec
CONSTANTS
  c1 = c1
  c2 = c2
  Conns = {c1, c2}
  Ids = {1, 2}
  Contents = {"p", "q"}
  ClipsOf <- OwnClip
  Hello <- TwoSnapshots
  None = None
  NoId = NoId
  InitialVersion = 1
  MaxVersion = 2
  RingCapacity = 1
  QueueCapacity = 1
  SnapshotBudget = 2
  WindowOverAtStart = FALSE
  MaxSends = 2
  MaxSendsEach = 1
INVARIANTS TypeOK EveryClipAnswered EveryoneWelcomed SavedBeforeAnnounced BestCandidateRestored
PROPERTIES EventuallyWelcomed EventuallyAnswered
CHECK_DEADLOCK FALSE

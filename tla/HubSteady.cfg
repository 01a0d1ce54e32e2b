SPECIFICATION Spec
SYMMETRY Symmetry
CONSTANTS
  c1 = c1
  c2 = c2
  Conns = {c1, c2}
  Ids = {i1, i2, i3}
  Contents = {"p"}
  ClipsOf <- AnyClip
  Hello <- NoSnapshots
  None = None
  NoId = NoId
  InitialVersion = 0
  MaxVersion = 9
  RingCapacity = 2
  QueueCapacity = 1
  SnapshotBudget = 2
  WindowOverAtStart = TRUE
  MaxSends = 3
  MaxSendsEach = 3
INVARIANTS TypeOK Converged EveryClipAnswered EveryoneWelcomed GaplessVersions RepeatKeepsVersion
PROPERTIES ImplementsSerial
CHECK_DEADLOCK FALSE

SPECIFICATION FairSystemSpec
CONSTANTS
  Users = {alice}
  User = alice
  Savers = {closer, loop}
  Closer = closer
  Loop = loop
  MaxVersion = 2
INVARIANTS SystemTypeOK NothingForgotten WriterBetween NoVersionReused StopKeepsTold
PROPERTIES ImplementsLedger ReachesFile

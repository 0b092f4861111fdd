SPECIFICATION JobsFairSpec
CONSTANTS
  Jobs = {"settlement", "odds-sync"}
  Listed <- MCListed
  Hung <- MCHung
  MaxRequests = 1
INVARIANTS
  TypeOK
PROPERTIES
  NothingAfterTheContext
  ShutdownEnds
  EachItemIsAsked
CHECK_DEADLOCK FALSE

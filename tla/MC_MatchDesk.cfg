SPECIFICATION FairSpec
CONSTANTS
  Admins = {a1, a2}
  derby = derby
  poll = poll
  lineless = lineless
  Events = {derby, poll, lineless}
  Markets = {1, 2, 3, 4, 5}
  Outcomes = {1, 2, 3, 4, 5, 6}
  SourceOf <- MCSourceOf
  EventOf <- MCEventOf
  TypeOf <- MCTypeOf
  LineOf <- MCLineOf
  MarketOf <- MCMarketOf
  CodeOf <- MCCodeOf
  Prices = {1000, 1500}
  Edits <- MCEdits
  Scores <- MCScores
  MaxFaults = 1
PROPERTIES EveryCallReturns
INVARIANTS TypeOK BoardTellsOneStory
CHECK_DEADLOCK FALSE

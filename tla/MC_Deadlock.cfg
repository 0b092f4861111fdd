SPECIFICATION PlacedSpec
CONSTANTS
  u1 = u1
  u2 = u2
  Users = {u1, u2}
  Requests = {r1}
  Worker = worker
  None = none
  match = match
  poll = poll
  homeWin = homeWin
  yes = yes
  Events = {match, poll}
  Markets = {1, 2}
  Outcomes = {homeWin, yes}
  SourceOf <- MCSourceOf
  EventOf <- MCEventOf
  TypeOf <- MCTypeOf
  LineOf <- MCLineOf
  MarketOf <- MCMarketOf
  CodeOf <- MCCodeOf
  OddsOf <- MCOddsOf
  SignupBonus = 2
  BetMin = 1
  BetMax = 1
  Stakes = {1}
  Amounts = {}
  Scores <- MCScores
  MaxBets = 4
  MaxAdjust = 0
  MaxFaults = 1
PROPERTIES EveryRequestReturns PendingBetsAreDecided EveryCommitIsALedgerStep
CHECK_DEADLOCK FALSE

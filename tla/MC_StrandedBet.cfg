SPECIFICATION Spec
CONSTANTS
  Users = {u1}
  Requests = {r1}
  Worker = worker
  None = none
  match = match
  derby = derby
  awayWin = awayWin
  over = over
  Events = {match, derby}
  Markets = {1, 2}
  Outcomes = {awayWin, over}
  SourceOf <- MCSourceOf
  EventOf <- MCEventOf
  TypeOf <- MCTypeOf
  LineOf <- MCLineOf
  MarketOf <- MCMarketOf
  CodeOf <- MCCodeOf
  OddsOf <- MCOddsOf
  SignupBonus = 3
  BetMin = 1
  BetMax = 2
  Stakes = {2}
  Amounts <- MCAmounts
  Scores <- MCScores
  MaxBets = 1
  MaxAdjust = 1
  MaxFaults = 0
INVARIANTS NoStrandedBet
CHECK_DEADLOCK FALSE

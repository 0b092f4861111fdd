SPECIFICATION Spec
CONSTANTS
  Users = {u1, u2}
  Requests = {r1, r2}
  Worker = worker
  None = none
  poll = poll
  derby = derby
  yes = yes
  homeWin = homeWin
  Events = {poll, derby}
  Markets = {1, 2}
  Outcomes = {yes, homeWin}
  SourceOf <- MCSourceOf
  EventOf <- MCEventOf
  TypeOf <- MCTypeOf
  LineOf <- MCLineOf
  MarketOf <- MCMarketOf
  CodeOf <- MCCodeOf
  OddsOf <- MCOddsOf
  SignupBonus = 3
  BetMin = 1
  BetMax = 3
  Stakes = {3}
  Amounts = {}
  Scores <- MCScores
  MaxBets = 2
  MaxAdjust = 0
  MaxFaults = 0
PROPERTIES TerminalStatusIsFinal
CHECK_DEADLOCK FALSE

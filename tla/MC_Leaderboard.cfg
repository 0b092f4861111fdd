SPECIFICATION Spec
CONSTANTS
  NULL = NULL
  BetOf <- MCBetOf
  Users = {1, 2}
  Readers = {r1, r2}
  Queries <- MCQueries
  SignupBonus = 4
  MinBets = 1
  PageSize = 1
  TTL = 1
  MaxQuery = 1
  MaxTime = 3
SYMMETRY Symmetric
INVARIANTS ProfitIsWalletGain LeaderboardAgrees ServedIsRecent HistoryIsComplete
CHECK_DEADLOCK FALSE

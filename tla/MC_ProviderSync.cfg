SPECIFICATION FairSpec
CONSTANTS
  derby = derby
  football = football
  Matches = {derby}
  Sports = {football}
  SportOf <- MCSportOf
  Scores <- MCScores
  LiveScores = {}
  Answers <- MCAnswers
  KickOffs = {0, 1}
  LastTick = 2
  Window = 3
  MaxCancels = 1
  Types = {"TOTALS"}
  Backed = {"over"}
INVARIANTS SettledMatchIsDecided PaidAsShown
PROPERTIES ChecksPrecedeKickOff EndedMatchStaysOver 

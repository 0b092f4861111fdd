SPECIFICATION RulesSpec
CONSTANTS
  Boards <- MCBoards
  Payloads <- MCPayloads
  Slips <- MCSlips
  Answers <- MCAnswers
INVARIANTS WinnersFollowTheScore CreditIsExact PricedTotalsHaveALine TotalsShowTheMainLine OpenMeansQuoted
PROPERTIES UsableScoresDecide
CHECK_DEADLOCK FALSE

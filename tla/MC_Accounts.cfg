SPECIFICATION FairSpec
CONSTANTS
  Sessions = {s1, s2}
  Emails = {e1, e2}
  ExternalIds = {vk}
  signupBonus = 1000
  MaxUsers = 2
  MaxTokens = 1
  MaxFaults = 1
INVARIANTS TypeOK EveryUserHasOneBonus KeysNameOneUser CallbackLogsInTheOwner TokensHaveOwners
PROPERTIES EveryRequestEnds
CHECK_DEADLOCK FALSE

SPECIFICATION FairSpec
CONSTANTS
  NULL = NULL
  Admins = {a1, a2}
  Visitors = {v1}
  MaxLeague = 2
  Matches = {1, 2}
  Imported = {1}
  Names = {"Cup", "Final"}
  Sports = {"football"}
  Requests <- MCRequests
  Filters <- MCFilters
  PageSize = 1

PROPERTIES TitleIsEdited
CHECK_DEADLOCK FALSE

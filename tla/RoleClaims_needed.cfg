SPECIFICATION RolesSpec
CHECK_DEADLOCK FALSE
CONSTANTS
  Players = {"ann", "bob"}
  Rosters = {"first", "second"}
  MaxLineups = 2
  MaxSignups = 3
  MaxRoleFaults = 0
INVARIANTS
  NeededRoleIsKept

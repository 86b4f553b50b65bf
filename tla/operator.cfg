SPECIFICATION FairSpec
CONSTANTS
  Namespaces = {n1}
  MaxEdits = 2
  Broken = {1}
  MaxUpsets = 2
INVARIANTS TypeOK NothingBeforeEnforce StatusIsTrue
PROPERTIES Enforced
CHECK_DEADLOCK FALSE

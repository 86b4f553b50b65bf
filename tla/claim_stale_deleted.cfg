SPECIFICATION FairSpec
CONSTANTS
  Namespaces = {n1}
  MaxEdits = 0
  Broken = {}
  MaxUpsets = 2
PROPERTIES StaleIsDeleted
CHECK_DEADLOCK FALSE

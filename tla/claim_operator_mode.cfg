SPECIFICATION Spec
CONSTANTS
  Namespaces = {n1}
  MaxEdits = 1
  Broken = {}
  MaxUpsets = 1
PROPERTIES ModeIsTheHumans
CHECK_DEADLOCK FALSE

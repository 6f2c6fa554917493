SPECIFICATION Spec
CONSTANTS
  left = left
  right = right
  Earbud = {left, right}
  PREPARES = {left, right}
  MAX_QUEUE = 2
  MAX_LINKS = 2
  MAX_FINDS = 2
  MAX_UPSETS = 1
  TIMEOUTS = {TRUE}
SYMMETRY Symmetry
INVARIANTS TypeOK  OppositeRoles  AloneWhenTimedOut
CHECK_DEADLOCK FALSE

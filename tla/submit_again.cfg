SPECIFICATION Spec
CONSTANTS
  Boxes = {"a", "b", "c", "d", "e"}
  Contents <- Files
  ScriptBodies <- Posted
  MaxBody = 3
  MaxDrops = 2
  MaxRequests = 2
  Budget <- Once
INVARIANTS
  ResubmissionAddsNoRow
CHECK_DEADLOCK FALSE

SPECIFICATION Spec
CONSTANTS
  Chunk = 4
  EntrySize = 1
  Apps <- MCApps
INVARIANTS TypeOK PreservedIsIntact AsIfUndisturbed CountsTrackProgram CallsReturn

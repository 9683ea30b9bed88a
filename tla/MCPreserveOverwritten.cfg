SPECIFICATION Spec
CONSTANTS
  Chunk = 4
  EntrySize = 1
  Apps <- UnalignedApps
INVARIANT PreservedIsIntact

SPECIFICATION Spec
CONSTANTS
  Path <- MCPath
  Scopes <- MCScopes
  Change <- MCChange
  Modes <- MCModes
  OutputIgnored = TRUE
  MaxEdits = 2
  Short = {"create", "cleanup", "collect", "policy", "complete"}
INVARIANTS
  TypeOK
  PassWithinScope
  ParallelDisjoint
  RegistryComplete
PROPERTIES
  PipelinePasses
  WorkKept

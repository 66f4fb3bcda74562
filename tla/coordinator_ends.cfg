SPECIFICATION Spec
CONSTANTS
  Path <- MCPath
  Scopes <- MCScopes
  Change <- MCChange
  Modes <- MCModes
  OutputIgnored = TRUE
  MaxEdits = 0
  Short = {"create", "finalize", "collect", "policy", "complete", "prompts"}
INVARIANTS
  DoneImpliesCompleted
PROPERTIES
  DispatchEnds

SPECIFICATION Spec
CONSTANTS
  Path <- MCPath
  Scopes <- MCScopes
  Change <- MCRename
  Modes <- MCModes
  OutputIgnored = TRUE
  MaxEdits = 1
  Short = {"create", "cleanup", "collect", "policy", "complete"}
INVARIANTS
  OutsideChangeFails

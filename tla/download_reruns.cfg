SPECIFICATION Spec
CONSTANTS
  Repos = {"ops-nn", "ops-math"}
  Dirs = {"gelu", "add", "dot"}
  RepoOf <- MCRepoOf
  Tags = {"8.5.0", "9.0.0"}
  Names = {"a", "b"}
  Upstream <- MCUpstream
  Overrides = {}
  MaxRuns = 3
  None = None
INVARIANTS
  TypeOK
  StampTrue
CHECK_DEADLOCK FALSE

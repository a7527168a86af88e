SPECIFICATION FairSpec
CONSTANTS
    repo = repo
    nested = nested
    worktree = worktree
    Paths <- McPaths
    Ancestor <- McAncestor
    Jobs = {j1}
    NoJob = NoJob
    MaxTokens = 3
INVARIANTS NoOverlap
PROPERTIES ExternalNeverReclaimed AbandonedReclaimed

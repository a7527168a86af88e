---------------------------- MODULE MCWriterLease ----------------------------
(* A repository, a directory inside it and a sibling worktree. *)
EXTENDS WriterLease

CONSTANTS repo, nested, worktree

McPaths == {repo, nested, worktree}
McAncestor == {<<repo, nested>>}
=============================================================================

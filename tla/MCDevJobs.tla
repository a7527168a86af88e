------------------------------ MODULE MCDevJobs ------------------------------
(* A job in a repository and another writer who wants it or a directory in it. *)
EXTENDS DevJobs

CONSTANTS worker, watchdog, reaper, stop, retry, repo, nested, job

McReapers == {reaper}
McStoppers == {stop}
McRetriers == {retry}
NoCaller == {}
McHome == {worker, watchdog}
McPaths == {repo, nested}
McAncestor == {<<repo, nested>>}
=============================================================================

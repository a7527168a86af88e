-------------------------- MODULE MCOwnerPermission --------------------------
(* An owner and a reaper in the worker's process, an owner and a stop        *)
(* outside it; the second of two requests can only be rejected.              *)
EXTENDS OwnerPermission

CONSTANTS homeOwner, otherOwner, stop, homeReaper

McOwners == {homeOwner, otherOwner}
McStoppers == {stop}
McReapers == {homeReaper}
McHome == {homeOwner, homeReaper}
McRejectOnly == {2}
=============================================================================

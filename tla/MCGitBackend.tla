---------------------------- MODULE MCGitBackend ----------------------------
(* Instances of GitBackend.                                                *)
EXTENDS GitBackend
=============================================================================

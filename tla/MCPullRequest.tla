--------------------------- MODULE MCPullRequest ---------------------------
(* Small instances of PullRequest for TLC; every value is in the .cfg files. *)
EXTENDS PullRequest
=============================================================================

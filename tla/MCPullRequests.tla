---------------------------- MODULE MCPullRequests ----------------------------
(* Instances of PullRequests for TLC: tool calls are model values. *)
EXTENDS PullRequests

CONSTANTS o1, o2
=============================================================================

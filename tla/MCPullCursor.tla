---------------------------- MODULE MCPullCursor ----------------------------
(* Small instances of PullCursor: two overlapping pulls of one device.     *)
EXTENDS PullCursor, TLC
=============================================================================

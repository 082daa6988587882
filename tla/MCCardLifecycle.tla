-------------------------- MODULE MCCardLifecycle --------------------------
(* A small instance of CardWire, and with it of CardLifecycle.  Money is   *)
(* in units of the hourly rate (2,000), check-in asks for 1 unit instead   *)
(* of 5 and a card holds 4 instead of 8,000; an hour has 3 seconds and     *)
(* clocks are 1 second off, so that the fee of a stay may exceed what the  *)
(* card holds.  The fields are as tight as in the code: the amount of a    *)
(* log entry holds one unit more than a card may.                          *)
EXTENDS CardWire
MCIssued  == {1}
MCAmounts == {0, 2, 3}
MCLocalChanges == {"blocked"}
MCTenants == {"ours", "theirs"}
=============================================================================

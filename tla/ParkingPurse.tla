---------------------------- MODULE ParkingPurse ----------------------------
(***************************************************************************)
(* What the card promises to its holder, with no log, clock or device: a   *)
(* purse that is never overdrawn nor overfilled, charged whole hours when  *)
(* its holder leaves and at no other time, and that is of no use at a gate *)
(* or a terminal while it is frozen.  CardLifecycle implements it.         *)
(***************************************************************************)
EXTENDS Naturals

CONSTANTS Rate, MinBeforeCheckin, MaxBalance

VARIABLES balance, parked, frozen

purse == <<balance, parked, frozen>>

Init == balance \in 0..MaxBalance /\ parked = FALSE /\ frozen = FALSE

Enter ==
    /\ ~frozen /\ ~parked /\ balance >= MinBeforeCheckin
    /\ parked' = TRUE
    /\ UNCHANGED <<balance, frozen>>

Leave ==
    /\ ~frozen /\ parked
    /\ \E hours \in 0..balance :
          /\ hours * Rate <= balance
          /\ balance' = balance - hours * Rate
    /\ parked' = FALSE
    /\ UNCHANGED frozen

Add ==
    /\ balance' \in (balance + 1)..MaxBalance
    /\ UNCHANGED <<parked, frozen>>

Freeze ==
    /\ ~frozen
    /\ frozen' = TRUE
    /\ UNCHANGED <<balance, parked>>

Reset ==
    /\ parked' = FALSE /\ frozen' = FALSE
    /\ UNCHANGED balance

Next == Enter \/ Leave \/ Add \/ Freeze \/ Reset

Spec == Init /\ [][Next]_purse
=============================================================================

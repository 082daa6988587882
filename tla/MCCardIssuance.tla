---------------------------- MODULE MCCardIssuance ----------------------------
(* Small instances of CardSection: a card whose serial number is its id and *)
(* one whose serial number is longer.                                       *)
EXTENDS CardSection

CONSTANTS c1, c2

Careful == [swaps |-> FALSE, hurries |-> FALSE, calls |-> 3]
Hasty   == [swaps |-> FALSE, hurries |-> TRUE, calls |-> 2]
Moving  == [swaps |-> TRUE, hurries |-> FALSE, calls |-> 2]

AllProfiles == {Careful, Hasty, Moving}
OneSixByte  == {c1}

(* A careful visit with failures, two hurried ones, and two with edits and a *)
(* pull.                                                                    *)
Left(t, e, n, r, p, f) == [topups |-> t, edits |-> e, scans |-> n, renders |-> r, pulls |-> p, faults |-> f]
Calm     == [hurries |-> FALSE, known |-> {c1, c2}, left |-> Left(2, 0, 3, 1, 0, 2)]
Rushed   == [hurries |-> TRUE,  known |-> {c1, c2}, left |-> Left(2, 0, 2, 0, 0, 0)]
Clumsy   == [hurries |-> TRUE,  known |-> {c1, c2}, left |-> Left(1, 0, 2, 0, 0, 1)]
Editing  == [hurries |-> FALSE, known |-> {c1}, left |-> Left(1, 1, 1, 0, 1, 0)]
Changing == [hurries |-> FALSE, known |-> {c1, c2}, left |-> Left(0, 2, 0, 0, 1, 1)]
AllVisits == {Calm, Rushed, Clumsy, Editing, Changing}
===============================================================================

---------------------------- MODULE MCEntitySync ----------------------------
(* Small instances of EntitySync: two devices, and what may happen there.  *)
EXTENDS EntitySync, TLC

CONSTANTS d1, d2

Both(rows)  == [d \in {d1, d2} |-> rows]
Ones(r1, r2) == d1 :> r1 @@ d2 :> r2
Calm(rows)  == [ahead |-> Both(0), overlap |-> FALSE, editsInPush |-> FALSE, edits |-> rows, known |-> TRUE,
                maxEdits |-> 2, maxTries |-> 1]

Offices  == [Calm(Both({"member"})) EXCEPT !.known = FALSE, !.maxTries = 2]
ParkSite == [Calm(Ones({"member"}, {"chip"})) EXCEPT !.maxEdits = 1]
NewCards == [Calm(Ones({"chip"}, {"card"})) EXCEPT !.known = FALSE, !.overlap = TRUE, !.maxEdits = 1]
Hurry    == [Calm(Both({"member"})) EXCEPT !.ahead = Ones(1, 0), !.editsInPush = TRUE, !.overlap = TRUE, !.known = FALSE, !.maxTries = 2]
(* As the offices, with one clock ahead of the others.                      *)
FastClock == [Offices EXCEPT !.ahead = Ones(1, 0)]

AllSites == {Offices, ParkSite, NewCards, Hurry, FastClock}
=============================================================================

---------------------------- MODULE MCSyncEngine ----------------------------
(* Small instances of DeviceSync: two overlapping cycles on two days; three *)
(* statuses of a card, two pulls and two writes under way.                  *)
EXTENDS DeviceSync, TLC

Idle == [mutations |-> 0, faults |-> 0, requests |-> 0, leaves |-> 0]
Busy == [mutations |-> 1, faults |-> 2, requests |-> 1, leaves |-> 0]
Gone == [mutations |-> 1, faults |-> 1, requests |-> 0, leaves |-> 1]
SomeDays == {Idle, Busy, Gone}

Rest   == [faults |-> 0, offs |-> 0]
Broken == [faults |-> 3, offs |-> 0]
Off    == [faults |-> 1, offs |-> 1]
SomeLucks == {Rest, Broken, Off}
=============================================================================

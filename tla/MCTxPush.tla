------------------------------ MODULE MCTxPush ------------------------------
(* Small instances of TxPush.  Devices are not interchangeable: Issued     *)
(* names one of them.                                                      *)
EXTENDS TxPush

Quiet == [refused |-> {}, registered |-> FALSE, fork |-> FALSE, edit |-> FALSE,
          expire |-> FALSE, dbErrors |-> FALSE, clocksAhead |-> FALSE, maxBatch |-> 2,
          maxFaults |-> 0, writes |-> 2]

Faulty  == [Quiet EXCEPT !.refused = {2}, !.expire = TRUE, !.dbErrors = TRUE, !.maxFaults = 1]
Batched == [Quiet EXCEPT !.maxBatch = 1, !.expire = TRUE]
Forking == [Quiet EXCEPT !.registered = TRUE, !.fork = TRUE]
Created == [Quiet EXCEPT !.edit = TRUE, !.clocksAhead = TRUE, !.writes = 1]
Edited  == [Created EXCEPT !.registered = TRUE]

FaultsForksAndEdits == {Faulty, Batched, Forking, Created, Edited}
CrashAtServer == {[Quiet EXCEPT !.registered = TRUE, !.maxFaults = 1]}
=============================================================================

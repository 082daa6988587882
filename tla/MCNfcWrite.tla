----------------------------- MODULE MCNfcWrite -----------------------------
(* Small instances of NfcWrite: a kiosk with two cards, where nothing      *)
(* disturbs the pipeline, and a station with one, where everything may.    *)
EXTENDS NfcWrite
CONSTANTS c1, c2

Kiosk == [mayCancel |-> FALSE, tapDuringSave |-> FALSE, saveMayFail |-> FALSE,
          cards |-> {c1, c2}, ops |-> 3]
Station == [mayCancel |-> TRUE, tapDuringSave |-> TRUE, saveMayFail |-> TRUE,
            cards |-> {c1}, ops |-> 2]
BothCards == {c1, c2}
KioskAndStation == {Kiosk, Station}
=============================================================================

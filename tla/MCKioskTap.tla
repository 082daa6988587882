----------------------------- MODULE MCKioskTap -----------------------------
(* Small instances of NfcScreens: two cards of the kiosk, one of them broke; *)
(* three of the scanner; and three uses of the scanner.                      *)
EXTENDS NfcScreens, TLC

Inline    == [drawer |-> FALSE, autoScan |-> TRUE, continuous |-> TRUE, autoClose |-> FALSE, skips |-> TRUE,
              raw |-> FALSE]
Drawer    == [Inline EXCEPT !.drawer = TRUE, !.continuous = FALSE, !.autoClose = TRUE]
Inspector == [Inline EXCEPT !.raw = TRUE, !.autoScan = FALSE]
Uses      == {Inline, Drawer, Inspector}

Genuine == [ndef |-> TRUE, data |-> TRUE, magic |-> TRUE, sound |-> TRUE, genuine |-> TRUE]
TagsHere  == [member |-> Genuine, forged |-> [Genuine EXCEPT !.genuine = FALSE],
            ticket |-> [Genuine EXCEPT !.magic = FALSE, !.sound = FALSE, !.genuine = FALSE]]
=============================================================================

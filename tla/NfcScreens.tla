------------------------------ MODULE NfcScreens ------------------------------
(* A browser tab that reads cards shows a kiosk's section or a page with the *)
(* unified scanner, and stays with it; neither touches the other's state.    *)
EXTENDS KioskTap

CONSTANTS Tags, Content, Slots, Pages, NoTag

VARIABLES
    tab,        \* which of the two is shown
    page, shown, session, hook, tapped, landed

Scanner == INSTANCE UnifiedNfc

ASSUME ScreensAssumption == Scanner!ScannerBounds

scannerVars == <<page, shown, session, hook, tapped, landed>>
screenVars  == <<vars, scannerVars>>

(* A section that is not shown has not read a card; a scanner that is not   *)
(* shown has not been opened.                                               *)
KioskIsShown == page = (CHOOSE p \in Pages : TRUE) /\ session = "valid"
ScannerIsShown ==
    /\ role = (CHOOSE r \in Roles : TRUE)
    /\ {c \in Cards : parked[c] \/ frozen[c] \/ db[c] = "blocked"} = {}

ScreensInit ==
    /\ Init /\ Scanner!Init
    /\ \/ tab = "kiosk" /\ KioskIsShown
       \/ tab = "scanner" /\ ScannerIsShown

ScreensNext ==
    /\ \/ tab = "kiosk" /\ Next /\ UNCHANGED scannerVars
       \/ tab = "scanner" /\ Scanner!Next /\ UNCHANGED vars
    /\ UNCHANGED tab

ScreensSpec == ScreensInit /\ [][ScreensNext]_<<screenVars, tab>> /\ Fairness /\ Scanner!Fairness

-----------------------------------------------------------------------------
(* The scanner shows what was read (UnifiedNfc).                            *)
ScreenIsTrue == Scanner!ScreenIsTrue

(* The scanner writes only what it shows (UnifiedNfc).                      *)
WritesAreShown == Scanner!WritesAreShown

(* The scanner waits for ever for nothing but cards (UnifiedNfc).           *)
WaitsEnd == Scanner!WaitsEnd

(* What a document or a comment says of the scanner and the code does not do *)
(* (UnifiedNfc).                                                             *)
RawGetsReady      == Scanner!RawGetsReady
OpensScanning     == Scanner!OpensScanning
DrawersShowWrites == Scanner!DrawersShowWrites
WritesNeedSession == Scanner!WritesNeedSession
=============================================================================

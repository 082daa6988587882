------------------------------ MODULE UnifiedNfc ------------------------------
(***************************************************************************)
(* The scanner that any page can use: useUnifiedNfc over GenericNfcLayer    *)
(* and WebNfcAdapter, with the buttons and timers of UnifiedNfcScanner.     *)
(* Every call of scan, write or retryWrite is an operation of its own with  *)
(* an AbortController; a later call aborts the one before, but what that    *)
(* has already set in motion ends when it ends, and finds its signal set.   *)
(* The screen follows a reducer which ignores the actions that do not fit   *)
(* its phase; the operation that dispatched them goes on all the same.      *)
(*                                                                         *)
(* A reading card is read twice: the adapter's reader classifies it, then   *)
(* readAndValidateCard opens a reader of its own and waits for a tap, which *)
(* may be of another card.  The browser's NDEFReader is external: starting  *)
(* one may be refused, aborting one that starts rejects its promise, and    *)
(* aborting a running one only silences it.                                 *)
(*                                                                         *)
(* Bound: Slots operations in flight (aborted ones included).               *)
(***************************************************************************)
EXTENDS Naturals, FiniteSets

CONSTANTS
    Tags,      \* cards that come near the reader
    Content,   \* what is on them, see TagContent
    Slots,     \* operations in flight
    Pages,     \* how the scanner is used, see Page
    NoTag

Page == [drawer: BOOLEAN, autoScan: BOOLEAN, continuous: BOOLEAN, autoClose: BOOLEAN, skips: BOOLEAN,
         raw: BOOLEAN]

(* NDEF records, data in one of them, the magic number, a fitting size,     *)
(* version, type and card id; accepted by the pipeline's checks.            *)
TagContent == [ndef: BOOLEAN, data: BOOLEAN, magic: BOOLEAN, sound: BOOLEAN, genuine: BOOLEAN]

ScannerBounds ==
    /\ NoTag \notin Tags /\ Content \in [Tags -> TagContent]
    /\ Slots \subseteq Nat \ {0} /\ IsFiniteSet(Slots) /\ Pages \subseteq Page

VARIABLES
    page,          \* props of the scanner; they never change
    shown,         \* mounted, or the drawer open
    session,       \* the grant: "valid", "expired" or "none"
    hook,          \* what the hook keeps: see TypeOK
    tapped, landed \* history: cards read since scanning began; bytes have
                   \* reached a card since the screen last went to "writing"

scannerVars == <<page, shown, session, hook, tapped, landed>>

Waiting == {"scanning", "validating", "writing"}
Active  == Waiting \cup {"write_pending_retry"}

Blank == [phase |-> "idle", raw |-> NoTag, payload |-> NoTag, recoverable |-> FALSE]
Free  == [at |-> "free", card |-> NoTag, ok |-> FALSE, aborted |-> FALSE]
NoHook == [screen |-> Blank, ops |-> [i \in Slots |-> Free], current |-> 0, pending |-> NoTag, timer |-> FALSE]

(* ops: the calls in flight; current: whose controller abortRef holds;      *)
(* pending: whose bytes pendingWriteRef keeps; timer: the 30 seconds run.   *)
TypeOK ==
    /\ page \in Pages /\ shown \in BOOLEAN /\ session \in {"valid", "expired", "none"}
    /\ hook.screen \in [phase: Active \cup {"idle", "ready", "success", "error"}, raw: Tags \cup {NoTag},
                        payload: Tags \cup {NoTag}, recoverable: BOOLEAN]
    /\ hook.ops \in [Slots -> [at: {"free", "starting", "listening", "second", "checking", "preparing",
                                    "writing", "answer", "refused"},
                               card: Tags \cup {NoTag}, ok: BOOLEAN, aborted: BOOLEAN]]
    /\ hook.current \in Slots \cup {0} /\ hook.pending \in Tags \cup {NoTag} /\ hook.timer \in BOOLEAN
    /\ tapped \subseteq Tags /\ landed \in BOOLEAN

Init ==
    /\ page \in Pages /\ session \in {"valid", "none"}
    /\ shown = FALSE /\ hook = NoHook /\ tapped = {} /\ landed = FALSE

-----------------------------------------------------------------------------
Classify(c) ==
    LET t == Content[c]
    IN  CASE ~t.ndef  -> "empty"
          [] t.ndef /\ ~t.data -> "unknown"
          [] t.data /\ ~t.magic -> "foreign"
          [] t.magic /\ ~t.sound -> "invalid_format"
          [] OTHER -> "valid_payload"

IsPayload(c) == Classify(c) = "valid_payload"

(* The reducer.  Classifying ends in the same turn as it begins.            *)
Goes(s, from, to) == IF s.phase \in from THEN [s EXCEPT !.phase = to] ELSE s

StartScan(s)  == IF s.phase \in {"idle", "error"} THEN [Blank EXCEPT !.phase = "scanning"] ELSE s
Classified(s, c) ==
    IF s.phase # "scanning" THEN s
    ELSE [s EXCEPT !.phase = IF IsPayload(c) THEN "validating" ELSE "ready", !.raw = c]
Validated(s, c) == IF s.phase = "validating" THEN [s EXCEPT !.phase = "ready", !.payload = c] ELSE s
StartWrite(s) == Goes(s, {"ready", "write_pending_retry"}, "writing")
Erred(s, recoverable) ==
    IF s.phase \in Active THEN [s EXCEPT !.phase = "error", !.recoverable = recoverable] ELSE s
Cancelled(s)  == IF s.phase \in Active THEN Blank ELSE s

-----------------------------------------------------------------------------
(* Operations, each a function of what the hook keeps.                      *)

(* An operation throws, or answers with an error: nothing is shown of one   *)
(* that was aborted.                                                        *)
Fail(h, i, recoverable) ==
    [h EXCEPT !.ops[i] = Free, !.screen = IF h.ops[i].aborted THEN @ ELSE Erred(@, recoverable)]

Scanning(h) == {i \in Slots : h.ops[i].at \in {"starting", "listening"}}

(* A reader that could not start takes the layer's current scan with it:    *)
(* the adapter drops the listeners and the layer rejects its pending scan,  *)
(* whichever they are.                                                      *)
RejectScan(h, i) ==
    LET others == Scanning(h) \ {i}
    IN  Fail(IF others = {} THEN h ELSE Fail(h, CHOOSE j \in others : TRUE, TRUE), i, TRUE)

(* Aborting what waits for a tap ends it; the rejection of a reader that    *)
(* starts, a calculation and an answer on its way come later.               *)
Aborted(op) ==
    IF op.at \in {"listening", "second", "writing", "free"} THEN Free
    ELSE [op EXCEPT !.aborted = TRUE, !.at = IF @ = "starting" THEN "refused" ELSE @]

Abort(h) == IF h.current = 0 THEN h ELSE [h EXCEPT !.current = 0, !.ops[h.current] = Aborted(@)]

(* After the turn of the event that aborted it, and before the next event.  *)
Rejections(h) ==
    LET refused == {i \in Slots : h.ops[i].at = "refused"}
    IN  IF refused = {} THEN h ELSE RejectScan(h, CHOOSE i \in refused : TRUE)

HasSlot(h) == \E i \in Slots : Abort(h).ops[i].at = "free"

(* Abort the operation before and begin one at the given point.             *)
Begin(h, at, screen, card) ==
    LET a == Abort(h)
        i == CHOOSE j \in Slots : a.ops[j].at = "free"
    IN  [a EXCEPT !.current = i, !.ops[i] = [Free EXCEPT !.at = at, !.card = card], !.screen = screen]

Scan(h) == Begin(h, "starting", StartScan(h.screen), NoTag)

Forget(h) == [Abort(h) EXCEPT !.pending = NoTag, !.timer = FALSE]
Reset(h)  == [Forget(h) EXCEPT !.screen = Blank]
Cancel(h) == [Forget(h) EXCEPT !.screen = Cancelled(@)]

Write(h) == Begin(h, "preparing", StartWrite(h.screen), h.screen.payload)

(* Mutant: the timer is left running until the write has an answer.         *)
RetryWriteKeepsTimer(h) == Begin(h, "writing", StartWrite(h.screen), h.pending)

(* The timer is cleared first, so that it does not fire while the writer    *)
(* waits for the card.                                                      *)
RetryWrite(h) == Begin([h EXCEPT !.timer = FALSE], "writing", StartWrite(h.screen), h.pending)

-----------------------------------------------------------------------------
(* Events.  One that resets the screen begins the history anew.             *)
Becomes(h) ==
    LET next == Rejections(h) IN
    /\ hook' = next
    /\ tapped' = IF next.screen.phase \in {"idle", "scanning"} THEN {} ELSE tapped
    /\ landed' = (landed /\ ~(next.screen.phase = "writing" /\ hook.screen.phase # "writing"))

Turn(h) == Becomes(h) /\ UNCHANGED <<page, shown, session>>

(* autoScan starts a scan when the scanner is mounted or its drawer opened. *)
Open ==
    /\ ~shown /\ HasSlot(hook)
    /\ shown' = TRUE
    /\ IF page.autoScan THEN Becomes(Scan(hook)) ELSE UNCHANGED <<hook, tapped, landed>>
    /\ UNCHANGED <<page, session>>

(* Swiped away, or closed by the timer after a success.  Nothing is         *)
(* cancelled.                                                               *)
Close ==
    /\ shown /\ page.drawer
    /\ shown' = FALSE /\ UNCHANGED <<page, session, hook, tapped, landed>>

AutoClose == page.autoClose /\ hook.screen.phase = "success" /\ Close

PressScan == shown /\ hook.screen.phase = "idle" /\ HasSlot(hook) /\ Turn(Scan(hook))

(* "Coba Lagi", and the end of the countdown after a success.               *)
RetryScan ==
    /\ shown /\ HasSlot(hook)
    /\ \/ hook.screen.phase = "error" /\ hook.screen.recoverable
       \/ hook.screen.phase = "success" /\ page.continuous
    /\ Turn(Scan(Reset(hook)))

Skip == shown /\ page.skips /\ hook.screen.phase = "error" /\ Turn(Reset(hook))

PressCancel == shown /\ hook.screen.phase \in Active /\ Turn(Cancel(hook))

(* An action of the page on the card that is shown.                         *)
PressWrite ==
    /\ shown /\ hook.screen.phase = "ready" /\ hook.screen.payload # NoTag
    /\ session # "none" /\ HasSlot(hook)
    /\ Turn(Write(hook))

TapAgain ==
    /\ shown /\ hook.screen.phase = "write_pending_retry" /\ hook.pending # NoTag /\ HasSlot(hook)
    /\ Turn(RetryWrite(hook))

-----------------------------------------------------------------------------
(* What the browser answers.                                                *)
At(i, point) == hook.ops[i].at = point
Done(h, i) == [h EXCEPT !.ops[i] = Free]

Started(i) ==
    /\ At(i, "starting")
    /\ \/ Turn([hook EXCEPT !.ops[i].at = "listening"])
       \/ Turn(RejectScan(hook, i))

(* The adapter's reader has read a card, or failed.  The session is looked  *)
(* at before the second tap.                                                *)
AfterClassification(i, c) ==
    LET h == [hook EXCEPT !.screen = Classified(@, c)]
    IN  IF ~IsPayload(c) \/ page.raw THEN Done(h, i)
        ELSE IF session = "valid" THEN [h EXCEPT !.ops[i].at = "second"]
        ELSE Fail(h, i, session = "expired")

TapScan(i, c) ==
    /\ At(i, "listening")
    /\ \/ /\ hook' = AfterClassification(i, c)
          /\ tapped' = tapped \cup {c}
          /\ UNCHANGED <<page, shown, session, landed>>
       \/ Turn(Fail(hook, i, TRUE))

TapSecond(i, c) ==
    /\ At(i, "second")
    /\ IF IsPayload(c) THEN hook' = [hook EXCEPT !.ops[i].at = "checking", !.ops[i].card = c]
                     ELSE hook' = Fail(hook, i, FALSE)
    /\ tapped' = tapped \cup {c}
    /\ UNCHANGED <<page, shown, session, landed>>

(* Mutant: the signal is not looked at after the card has been checked.     *)
CheckedAnyway(i) ==
    /\ At(i, "checking")
    /\ LET op == hook.ops[i] IN
       Turn(IF ~Content[op.card].genuine THEN Fail(hook, i, FALSE)
            ELSE [Done(hook, i) EXCEPT !.screen = Validated(@, op.card)])

(* What handlePayloadScan makes of the check.                               *)
AfterCheck(i, op) ==
    IF op.aborted THEN Done(hook, i)
    ELSE IF ~Content[op.card].genuine THEN Fail(hook, i, FALSE)
    ELSE [Done(hook, i) EXCEPT !.screen = Validated(@, op.card)]

Checked(i) ==
    /\ At(i, "checking")
    /\ Turn(AfterCheck(i, hook.ops[i]))

(* prepareWrite has signed the bytes, or thrown.                            *)
Prepared(i) ==
    /\ At(i, "preparing")
    /\ \/ Turn(IF hook.ops[i].aborted THEN Done(hook, i)
               ELSE [hook EXCEPT !.ops[i].at = "writing", !.pending = hook.ops[i].card])
       \/ Turn(Fail(hook, i, TRUE))

(* Some card takes the bytes, and the answer is on its way; or the write    *)
(* fails, with or without bytes on the card.                                *)
TapWrite(i) ==
    /\ At(i, "writing")
    /\ \E ok, reached \in BOOLEAN :
         /\ ok => reached
         /\ hook' = [hook EXCEPT !.ops[i].at = "answer", !.ops[i].ok = ok]
         /\ landed' = (landed \/ reached)
    /\ UNCHANGED <<page, shown, session, tapped>>

Answered(i) ==
    /\ At(i, "answer")
    /\ LET op == hook.ops[i]
           h == Done(hook, i)
       IN  Turn(IF op.aborted THEN h
                ELSE IF op.ok
                     THEN [h EXCEPT !.pending = NoTag, !.timer = FALSE, !.screen = Goes(@, {"writing"}, "success")]
                     ELSE [h EXCEPT !.timer = TRUE, !.screen = Goes(@, {"writing"}, "write_pending_retry")])

(* Mutant: the bytes are dropped and the screen is not told.                *)
PendingExpiresQuietly == hook.timer /\ Turn([hook EXCEPT !.timer = FALSE, !.pending = NoTag])

(* Thirty seconds have passed.                                              *)
PendingExpires ==
    /\ hook.timer
    /\ Turn([hook EXCEPT !.timer = FALSE, !.pending = NoTag, !.screen = Erred(@, TRUE)])

SessionChanges ==
    /\ session' = IF session = "valid" THEN "expired" ELSE "valid"
    /\ UNCHANGED <<page, shown, hook, tapped, landed>>

Next ==
    \/ Open \/ Close \/ AutoClose \/ PressScan \/ RetryScan \/ Skip \/ PressCancel \/ PressWrite \/ TapAgain
    \/ PendingExpires \/ SessionChanges
    \/ \E i \in Slots : \/ Started(i) \/ Checked(i) \/ Prepared(i) \/ TapWrite(i) \/ Answered(i)
                        \/ \E c \in Tags : TapScan(i, c) \/ TapSecond(i, c)

Spec == Init /\ [][Next]_scannerVars

(* The browser answers, timers fire, and cards keep coming near the reader. *)
Fairness ==
    /\ WF_scannerVars(PendingExpires)
    /\ \A i \in Slots :
         /\ WF_scannerVars(Started(i)) /\ WF_scannerVars(Checked(i)) /\ WF_scannerVars(Prepared(i))
         /\ WF_scannerVars(TapWrite(i)) /\ WF_scannerVars(Answered(i))
         /\ WF_scannerVars(\E c \in Tags : TapScan(i, c)) /\ WF_scannerVars(\E c \in Tags : TapSecond(i, c))

FairSpec == Spec /\ Fairness

-----------------------------------------------------------------------------
(* Properties.                                                             *)

(* What the screen shows was read since it began to scan, whatever earlier  *)
(* operations answer after a cancel or a retry; "success" means that bytes  *)
(* have reached a card since the screen said "writing"; and a screen that   *)
(* asks for another tap has the bytes and a timer, as no other has.         *)
ScreenIsTrue ==
    /\ TypeOK
    /\ {hook.screen.raw, hook.screen.payload} \subseteq tapped \cup {NoTag}
    /\ hook.screen.phase = "success" => landed
    /\ hook.screen.phase = "write_pending_retry" => hook.timer /\ hook.pending # NoTag

(* "Clear the 30-second timeout FIRST so it doesn't fire ERROR mid-write"   *)
(* (useUnifiedNfc.ts:354): a card is only written while the screen says so  *)
(* and its bytes are the ones kept, so after a cancel, a reset or an expiry *)
(* nothing is written.  In a drawer it is otherwise: opened anew while the  *)
(* timer runs, it scans, and nothing stops the timer.                       *)
WriteIsShown ==
    \A i \in Slots : At(i, "writing") /\ hook'.ops[i].at = "answer"
        => hook.screen.phase = "writing" /\ hook.pending = hook.ops[i].card

WritesAreShown == [][~page.drawer => WriteIsShown]_scannerVars
DrawersShowWrites == [][WriteIsShown]_scannerVars

(* On a page that reads payloads, without a drawer, no phase waits for      *)
(* ever if cards keep coming.                                               *)
WaitsEnd ==
    \A p \in Active : ~page.drawer /\ ~page.raw /\ hook.screen.phase = p ~> hook.screen.phase # p

(* "For non-payload classifications or raw mode, the state machine already  *)
(* transitioned to "ready"" (useUnifiedNfc.ts:250).                         *)
RawGetsReady == page.raw /\ hook.screen.phase = "validating" ~> hook.screen.phase = "ready"

(* Requirement 11.1 of unified-nfc-scanner (requirements.md:174): with      *)
(* autoScan the scanner is scanning when it opens.                          *)
OpensScanning == [][~shown /\ shown' /\ page.autoScan => hook'.screen.phase = "scanning"]_scannerVars

(* Requirement 7.1 of unified-nfc-scanner: no write without a valid grant.  *)
WritesNeedSession ==
    [][\A i \in Slots : hook.ops[i].at # "preparing" /\ hook'.ops[i].at = "preparing"
         => session = "valid"]_scannerVars
=============================================================================

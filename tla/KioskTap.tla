------------------------------ MODULE KioskTap ------------------------------
(***************************************************************************)
(* One tap at a kiosk, GateSection, TerminalSection or ScoutSection, as    *)
(* React runs it: the NFC hook, the lookup of blocked cards in the local   *)
(* database (useBlockedCheck), the automatic write and the automatic       *)
(* restart of the scan (useKioskAutoScan).                                 *)
(*                                                                         *)
(* An event sets state and causes a commit; after a commit the effects     *)
(* whose dependencies changed run in the order of their declaration, and   *)
(* all of them see the values of that commit, not what an earlier effect   *)
(* of the same commit has just set.  React runs them before it lets the    *)
(* next event in.  How a write reaches the card is the subject of          *)
(* NfcWrite; here it succeeds or fails.                                    *)
(***************************************************************************)
EXTENDS Naturals, FiniteSets

CONSTANTS
    Roles,       \* the kiosks looked at: "gate", "terminal", "scout"
    Cards,
    Broke,       \* cards whose balance does not suffice
    Attended,    \* kiosks where somebody presses "Coba Lagi" after an error
    Renewing,    \* kiosks whose session grant is renewed while they run
    NoCard

ASSUME KioskAssumption ==
    /\ Roles \subseteq {"gate", "terminal", "scout"} /\ Attended \cup Renewing \subseteq Roles
    /\ Broke \subseteq Cards /\ NoCard \notin Cards

VARIABLES
    role,               \* which section this kiosk runs; it never changes
    phase, card,        \* state of useNfcCard: phase and payload
    blk,                \* state of useBlockedCheck
    seen,               \* the values of the last commit whose effects ran
    checks,             \* database lookups in flight, by card
    copies,             \* a scout's copies of cards into the database in flight
    triggered,          \* autoCheckinTriggered / autoCheckoutTriggered
    rejected,           \* cardRejectionReason / insufficientBalance is set
    lastTx,             \* the terminal has a checkout to show
    loading, restart,   \* the grant is being renewed; the timer of the next scan is set
    op,                 \* the write in progress
    parked, frozen,     \* on the cards: CHECKED_IN, status not ACTIVE
    db,                 \* local database: blocked or not
    verdict, wrote      \* history of this tap: result of its lookup, a write was begun

nfc   == <<phase, card>>
cardsAndDb == <<parked, frozen, db>>
loop  == <<loading, restart>>
vars  == <<role, nfc, blk, seen, checks, copies, triggered, rejected, lastTx, loop, op, cardsAndDb, verdict, wrote>>

BlkInitial == [checking |-> FALSE, blocked |-> FALSE, ready |-> FALSE]
NoOp == [card |-> NoCard, kind |-> "none"]

TypeOK ==
    /\ phase \in {"idle", "scanning", "ready", "writing", "success", "error"}
    /\ card \in Cards \cup {NoCard}
    /\ blk \in [checking: BOOLEAN, blocked: BOOLEAN, ready: BOOLEAN]
    /\ checks \subseteq Cards /\ copies \subseteq [card: Cards, blocked: BOOLEAN]
    /\ {triggered, rejected, lastTx, loading, restart, wrote} \subseteq BOOLEAN
    /\ op \in [card: Cards, kind: {"checkin", "checkout", "block"}] \cup {NoOp}
    /\ parked \in [Cards -> BOOLEAN] /\ frozen \in [Cards -> BOOLEAN]
    /\ db \in [Cards -> {"active", "blocked"}]
    /\ verdict \in {"none", "clear", "blocked"} /\ role \in Roles

(* autoStart has begun the first scan.                                     *)
Init ==
    /\ role \in Roles
    /\ phase = "scanning" /\ card = NoCard /\ blk = BlkInitial
    /\ seen = [phase |-> phase, card |-> card, blk |-> blk]
    /\ checks = {} /\ copies = {} /\ op = NoOp /\ verdict = "none"
    /\ triggered = FALSE /\ rejected = FALSE /\ lastTx = FALSE /\ wrote = FALSE
    /\ loading = FALSE /\ restart = FALSE
    /\ parked \in [Cards -> BOOLEAN] /\ frozen \in [Cards -> BOOLEAN]
    /\ db \in [Cards -> {"active", "blocked"}]

-----------------------------------------------------------------------------
(* Effects.                                                                *)
Committed == [phase |-> phase, card |-> card, blk |-> blk]
Settled == seen = Committed
CardChanged == card # seen.card
PhaseChanged == phase # seen.phase

StartsCheck == (PhaseChanged \/ CardChanged) /\ phase = "ready"

(* The effect of useBlockedCheck.                                          *)
CheckEffect ==
    /\ blk' = IF PhaseChanged /\ phase = "idle" THEN BlkInitial
              ELSE IF StartsCheck THEN [blk EXCEPT !.checking = TRUE, !.ready = FALSE]
              ELSE blk
    /\ checks' = IF StartsCheck THEN checks \cup {card} ELSE checks

(* A section calls write(); a block is also put into the database at once, *)
(* before anything is on the card.                                         *)
Begin(kind) ==
    /\ op' = [card |-> card, kind |-> kind]
    /\ phase' = "writing"
    /\ wrote' = TRUE
    /\ db' = IF kind = "block" THEN [db EXCEPT ![card] = "blocked"] ELSE db

NoWrite == UNCHANGED <<op, phase, wrote, db>>

(* The gate's automatic check-in.  The transition table refuses a parked   *)
(* card, the balance rule a broke one.                                     *)
GateRefuses(c) == frozen[c] \/ parked[c] \/ c \in Broke
GateActs == phase = "ready" /\ ~triggered /\ (frozen[card] \/ ~blk.checking)
GateEffect ==
    /\ triggered' = (triggered \/ GateActs)
    /\ IF ~GateActs THEN NoWrite /\ UNCHANGED rejected
       ELSE IF ~frozen[card] /\ blk.blocked THEN Begin("block") /\ UNCHANGED rejected
       ELSE IF GateRefuses(card)
              THEN NoWrite /\ rejected' = TRUE
              ELSE Begin("checkin") /\ rejected' = FALSE
    /\ UNCHANGED <<lastTx, copies>>

(* Mutants: the checkout waits for "not checking", as the gate does, not   *)
(* for isReady; its effect runs at every commit and forgets triggered.     *)
CheckoutActsAlways    == blk.ready /\ card # NoCard

(* The terminal's two effects: the automatic checkout, which asks for the  *)
(* lookup's isReady but not for the phase, and the block written back.     *)
(* isReady and isBlocked are never both set.                               *)
CheckoutActs ==
    /\ blk.ready /\ card # NoCard /\ ~triggered
    /\ CardChanged \/ ~seen.blk.ready
BlockActs == blk.blocked /\ ~blk.checking /\ phase = "ready" /\ ~frozen[card]
CheckoutIsValid(c) == parked[c] /\ ~frozen[c]
TerminalEffect ==
    /\ triggered' = (triggered \/ CheckoutActs)
    /\ IF CheckoutActs /\ CheckoutIsValid(card)
         THEN IF card \in Broke
                THEN NoWrite /\ rejected' = TRUE /\ UNCHANGED lastTx
                ELSE Begin("checkout") /\ lastTx' = TRUE /\ UNCHANGED rejected
         ELSE /\ IF BlockActs THEN Begin("block") ELSE NoWrite
              /\ UNCHANGED <<rejected, lastTx>>
    /\ UNCHANGED copies

(* The scout writes nothing on the card, but copies what it read.          *)
ScoutEffect ==
    /\ copies' = IF StartsCheck THEN copies \cup {[card |-> card, blocked |-> frozen[card]]} ELSE copies
    /\ NoWrite /\ UNCHANGED <<triggered, rejected, lastTx>>

ClearCycle == /\ triggered' = FALSE /\ rejected' = FALSE /\ lastTx' = FALSE
              /\ NoWrite /\ UNCHANGED copies

(* useKioskAutoScan: an idle phase that begins while no renewal of the     *)
(* grant is under way sets the timer.                                      *)
RestartEffect == restart' = IF PhaseChanged THEN phase = "idle" /\ ~loading ELSE restart

Effects ==
    /\ ~Settled
    /\ CheckEffect /\ RestartEffect
    /\ CASE phase = "idle" -> ClearCycle
         [] phase # "idle" /\ role = "gate" -> GateEffect
         [] phase # "idle" /\ role = "terminal" -> TerminalEffect
         [] phase # "idle" /\ role = "scout" -> ScoutEffect
    /\ seen' = Committed
    /\ UNCHANGED <<role, card, loading, parked, frozen, verdict>>

-----------------------------------------------------------------------------
(* Events.                                                                 *)
Show(ph, c) == phase' = ph /\ card' = c

Unchanged == UNCHANGED <<blk, seen, checks, copies>>

(* The timer of useKioskAutoScan.                                          *)
AutoScan ==
    /\ Settled /\ phase = "idle" /\ restart
    /\ restart' = FALSE
    /\ Show("scanning", NoCard)
    /\ UNCHANGED <<role, loading, triggered, rejected, lastTx, op, cardsAndDb, verdict, wrote>> /\ Unchanged

(* A renewal of the grant begins or ends.  Either gives the effect of      *)
(* useKioskAutoScan new dependencies: its cleanup clears the timer, and    *)
(* the effect itself finds that the phase was idle before.                 *)
GrantRefresh ==
    /\ role \in Renewing /\ Settled
    /\ loading' = ~loading
    /\ restart' = FALSE
    /\ UNCHANGED <<role, nfc, blk, seen, checks, copies, triggered, rejected, lastTx, op, cardsAndDb, verdict, wrote>>

Tap(c) ==
    /\ Settled /\ phase = "scanning"
    /\ Show("ready", c)
    /\ verdict' = "none" /\ wrote' = FALSE
    /\ UNCHANGED <<role, loop, triggered, rejected, lastTx, op, cardsAndDb>> /\ Unchanged

TapFails ==
    /\ Settled /\ phase = "scanning"
    /\ Show("error", card)
    /\ UNCHANGED <<role, loop, triggered, rejected, lastTx, op, cardsAndDb, verdict, wrote>> /\ Unchanged

(* A lookup answers (an IndexedDB error counts as "not blocked"); the      *)
(* answer is discarded unless the kiosk still shows that card as ready.    *)
Resolve(c, failed) ==
    LET isBlocked == ~failed /\ db[c] = "blocked"
        current   == phase = "ready" /\ card = c IN
    /\ Settled /\ c \in checks
    /\ checks' = checks \ {c}
    /\ blk' = IF current THEN [checking |-> FALSE, blocked |-> isBlocked, ready |-> ~isBlocked] ELSE blk
    /\ verdict' = IF ~current THEN verdict ELSE IF isBlocked THEN "blocked" ELSE "clear"
    /\ UNCHANGED <<role, nfc, loop, seen, copies, triggered, rejected, lastTx, op, cardsAndDb, wrote>>

(* updateLocalCardRecord gives the row the status the card was read with,  *)
(* as late as it likes; it may fail, which nobody is told.                 *)
CopyLands(failed) == \E r \in copies :
    /\ Settled
    /\ copies' = copies \ {r}
    /\ db' = IF failed THEN db ELSE [db EXCEPT ![r.card] = IF r.blocked THEN "blocked" ELSE "active"]
    /\ UNCHANGED <<role, nfc, loop, blk, seen, checks, triggered, rejected, lastTx, op,
                   parked, frozen, verdict, wrote>>

(* The written payload is on the card and, after recordCardWrite, in the   *)
(* database: a card written as ACTIVE becomes active there.                *)
WriteSucceeds ==
    /\ Settled /\ phase = "writing"
    /\ Show("success", card)
    /\ op' = NoOp
    /\ IF op.kind = "block"
         THEN frozen' = [frozen EXCEPT ![op.card] = TRUE] /\ UNCHANGED parked
         ELSE parked' = [parked EXCEPT ![op.card] = (op.kind = "checkin")] /\ UNCHANGED frozen
    /\ db' = [db EXCEPT ![op.card] = IF op.kind = "block" THEN "blocked" ELSE "active"]
    /\ UNCHANGED <<role, loop, triggered, rejected, lastTx, verdict, wrote>> /\ Unchanged

WriteFails ==
    /\ Settled /\ phase = "writing"
    /\ Show("error", card)
    /\ op' = NoOp
    /\ UNCHANGED <<role, loop, triggered, rejected, lastTx, cardsAndDb, verdict, wrote>> /\ Unchanged

(* "Coba Lagi": a new scan without an idle phase in between; a scout's is a *)
(* plain reset (below).                                                    *)
HandleRetry ==
    /\ role \in Attended \ {"scout"} /\ Settled /\ phase = "error"
    /\ triggered' = FALSE /\ rejected' = FALSE
    /\ Show("scanning", NoCard)
    /\ UNCHANGED <<role, loop, lastTx, op, cardsAndDb, verdict, wrote>> /\ Unchanged

(* The error of a deferred write that timed out, and of a read shortly     *)
(* after a write, resets by itself.                                        *)
ErrorResets ==
    /\ Settled /\ phase = "error"
    /\ Show("idle", NoCard)
    /\ UNCHANGED <<role, loop, triggered, rejected, lastTx, op, cardsAndDb, verdict, wrote>> /\ Unchanged

(* Mutant: only a checkout's success closes by itself.                     *)
SuccessClosesCheckout == phase = "success" /\ lastTx

(* FeedbackCard's autoClose; the terminal renders one only for a checkout, *)
(* a scout none.                                                           *)
SuccessCloses == role # "scout" /\ phase = "success" /\ (role = "terminal" => lastTx)

(* A card that is shown but gets no write: the section resets after three  *)
(* seconds, or at "Selesai" before, which is offered at the same time.     *)
GateShows     == ~blk.checking /\ (blk.blocked \/ rejected)
TerminalShows ==
    \/ ~blk.checking /\ blk.blocked
    \/ rejected
    \/ blk.ready /\ ~parked[card]

\* A scout shows what it read, blocked or not, for five seconds.
ScoutShows == ~blk.checking

ReadyCloses ==
    /\ phase = "ready"
    /\ \/ role = "gate" /\ GateShows
       \/ role = "terminal" /\ TerminalShows
       \/ role = "scout" /\ ScoutShows

Reset ==
    /\ Settled
    /\ SuccessCloses \/ ReadyCloses
    /\ Show("idle", NoCard)
    /\ UNCHANGED <<role, loop, triggered, rejected, lastTx, op, cardsAndDb, verdict, wrote>> /\ Unchanged

(* Elsewhere, a card is checked in or out, blocked or unblocked, and this  *)
(* device's database learns of a change of status.                         *)
Elsewhere(c) ==
    /\ Settled /\ c # card /\ op.card # c
    /\ \/ /\ \/ parked' = [parked EXCEPT ![c] = ~@] /\ UNCHANGED frozen
             \/ frozen' = [frozen EXCEPT ![c] = ~@] /\ UNCHANGED parked
          /\ UNCHANGED db
       \/ /\ db' = [db EXCEPT ![c] = IF @ = "active" THEN "blocked" ELSE "active"]
          /\ UNCHANGED <<parked, frozen>>
    /\ UNCHANGED <<role, nfc, loop, blk, seen, checks, copies, triggered, rejected, lastTx, op, verdict, wrote>>

Next ==
    \/ Effects \/ AutoScan \/ GrantRefresh \/ TapFails
    \/ WriteSucceeds \/ WriteFails \/ HandleRetry \/ ErrorResets \/ Reset
    \/ \E c \in Cards : \/ Tap(c) \/ Elsewhere(c)
                        \/ \E failed \in BOOLEAN : Resolve(c, failed)
    \/ \E failed \in BOOLEAN : CopyLands(failed)

Spec == Init /\ [][Next]_vars

(* React runs the effects, IndexedDB answers, writes end, timers fire, a   *)
(* renewal of the grant ends.                                              *)
Fairness ==
    /\ WF_vars(Effects) /\ WF_vars(AutoScan) /\ WF_vars(Reset)
    /\ WF_vars(WriteSucceeds \/ WriteFails) /\ WF_vars(loading /\ GrantRefresh)
    /\ \A c \in Cards : WF_vars(\E failed \in BOOLEAN : Resolve(c, failed))

FairSpec == Spec /\ Fairness

-----------------------------------------------------------------------------
(* Properties.                                                             *)

Begins(kinds) == op' # op /\ op'.kind \in kinds

(* Requirement 7.4 of gate-terminal-scout-ux-stabilization: a tap begins at *)
(* most one write, however often the effects run and whatever callbacks    *)
(* answer late (and the state is well typed).  And requirement 5.1: the    *)
(* lookup of this tap has answered before.  A terminal keeps to it: it     *)
(* checks a card out after a "not blocked" and blocks one after a          *)
(* "blocked", never on the answer for the card before.                     *)
OneAllowedWritePerTap ==
    /\ []TypeOK
    /\ [][/\ Begins({"checkin", "checkout", "block"}) => ~wrote
          /\ Begins({"checkout"}) => verdict = "clear"
          /\ role = "terminal" /\ Begins({"block"}) => verdict = "blocked"]_vars

(* A gate should, says GateSection.tsx:130, "wait for blocked check to     *)
(* complete (eliminates race condition)".                                  *)
CheckedBeforeCheckin == [][Begins({"checkin"}) => verdict = "clear"]_vars

(* Requirements 6.1 and 8.5: a gate goes back to scanning by itself, from  *)
(* every phase but an error, and so does a scout.                          *)
ReturnsToScanning ==
    role \in {"gate", "scout"} /\ phase \in {"idle", "ready", "writing", "success"} ~> phase \in {"scanning", "error"}

(* ScoutSection.tsx:49: the copy of a card a scout reads is there to make  *)
(* "accurate blocked-status checks" possible; it takes no block away.      *)
KeepsBlocks ==
    [][\A r \in copies \ copies' : db[r.card] = "blocked" => db'[r.card] = "blocked"]_vars
=============================================================================

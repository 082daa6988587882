--------------------------- MODULE Browser_proofs ---------------------------
(***************************************************************************)
(* Proofs about a browser: the tab that reads cards, its access to its     *)
(* tenants, and the tables it keeps of tenants and accounts.  A kiosk's    *)
(* tap begins at most one write, which the lookup of that tap allows; the  *)
(* scanner shows and writes only what was read; a page that has lost its   *)
(* context is left, a blocked device is silent, a grant is kept; and the   *)
(* local tables agree - for any cards, tags, kiosks, tenants, users, plans *)
(* and number of requests, operations and jobs in flight.                  *)
(***************************************************************************)
EXTENDS NfcScreens, Browser, FiniteSetTheorems, SequenceTheorems, TLAPS

-----------------------------------------------------------------------------
(* The kiosk.  A write takes the phase away from "ready", to which only a   *)
(* tap leads; the terminal, whose checkout does not look at the phase, is   *)
(* stopped by triggered, by the lookup's answer or by having no card.       *)
WroteOnce ==
    wrote => /\ phase # "ready"
             /\ role = "terminal" => card = NoCard \/ triggered \/ ~blk.ready

(* Where nobody retries, every scan comes after an idle phase, which has    *)
(* reset the answer of the lookup; what it says now it says of this tap.    *)
AnswerIsNew ==
    role = "terminal" =>
        /\ phase = "scanning" => blk = BlkInitial
        /\ phase = "idle" /\ seen.phase = "idle" => blk = BlkInitial
        /\ blk.ready => verdict = "clear"
        /\ blk.blocked => verdict = "blocked"

KioskInv ==
    /\ TypeOK
    /\ phase \in {"idle", "scanning"} => card = NoCard
    /\ phase = "ready" => card \in Cards
    /\ ~(blk.ready /\ blk.blocked)
    /\ WroteOnce /\ AnswerIsNew

-----------------------------------------------------------------------------
(* The scanner.  A call is live while it runs and nobody has aborted it.    *)
Live(h, i) == h.ops[i].at # "free" /\ ~h.ops[i].aborted

Screens == [phase: Scanner!Active \cup {"idle", "ready", "success", "error"}, raw: Tags \cup {NoTag},
            payload: Tags \cup {NoTag}, recoverable: BOOLEAN]
Calls   == [at: {"free", "starting", "listening", "second", "checking", "preparing", "writing", "answer", "refused"},
            card: Tags \cup {NoTag}, ok: BOOLEAN, aborted: BOOLEAN]
Hooks   == [screen: Screens, ops: [Slots -> Calls], current: Slots \cup {0}, pending: Tags \cup {NoTag},
            timer: BOOLEAN]

(* A live call is the current one, and what it has come to fits the screen: *)
(* T are the cards read since the scan began, L says that bytes landed.     *)
LiveFits(h, T, L) ==
    \A i \in Slots : Live(h, i) =>
        /\ i = h.current /\ h.screen.phase # "idle" /\ h.ops[i].at # "refused"
        /\ h.screen.phase = "scanning" => h.ops[i].at \in {"starting", "listening"}
        /\ h.ops[i].at = "checking" => h.ops[i].card \in T
        /\ h.ops[i].at = "answer" /\ h.ops[i].ok => L
        /\ h.ops[i].at = "preparing" => h.ops[i].card # NoTag
        /\ h.ops[i].at \in {"writing", "answer"} /\ h.screen.phase = "writing" => h.pending # NoTag
        /\ h.screen.phase = "write_pending_retry" => h.ops[i].at \notin {"preparing", "writing", "answer"}

ShownIsTrue(h, T, L) ==
    /\ h.screen.raw \in T \cup {NoTag} /\ h.screen.payload \in T \cup {NoTag}
    /\ h.screen.phase \in {"idle", "scanning"} => h.screen.raw = NoTag /\ h.screen.payload = NoTag
    /\ h.screen.phase = "success" => L
    /\ h.screen.phase = "write_pending_retry" => h.timer /\ h.pending # NoTag

HookInv(h, T, L) == h \in Hooks /\ LiveFits(h, T, L) /\ ShownIsTrue(h, T, L)

(* Without a drawer the screen is the one of the live call, the timer runs  *)
(* only while it asks for another tap, and the bytes that are being written *)
(* are those it keeps.                                                      *)
InlineFits(h) ==
    /\ h.timer => h.screen.phase = "write_pending_retry"
    /\ \A i \in Slots :
         /\ h.ops[i].aborted => h.ops[i].at \in {"checking", "preparing", "answer", "refused"}
         /\ Live(h, i) =>
              /\ h.ops[i].at \in {"starting", "listening"} => h.screen.phase = "scanning"
              /\ h.ops[i].at \in {"second", "checking"} => h.screen.phase = "validating"
              /\ h.ops[i].at \in {"preparing", "writing", "answer"} => h.screen.phase = "writing"
              /\ h.ops[i].at \in {"writing", "answer"} => h.pending = h.ops[i].card

InlineInv ==
    ~page.drawer =>
        /\ InlineFits(hook)
        /\ ~shown => hook.screen.phase = "idle"

ScannerInv == Scanner!TypeOK /\ HookInv(hook, tapped, landed) /\ InlineInv

-----------------------------------------------------------------------------
UnattendedTerminal == "terminal" \notin Attended

(* What an action of the property may do.                                   *)
AllowedWrite ==
    /\ Begins({"checkin", "checkout", "block"}) => ~wrote
    /\ Begins({"checkout"}) => verdict = "clear"
    /\ role = "terminal" /\ Begins({"block"}) => verdict = "blocked"

LEMMA KioskStarts == Init => KioskInv
<1> SUFFICES ASSUME Init PROVE KioskInv
  OBVIOUS
<1>1. TypeOK
  BY KioskAssumption DEF Init, TypeOK, BlkInitial, NoOp
<1>2. QED
  BY <1>1 DEF Init, KioskInv, WroteOnce, AnswerIsNew, BlkInitial

(* The lookup's effect: it starts one, or forgets what the last one said.   *)
LEMMA CheckKept ==
    ASSUME KioskInv, CheckEffect
    PROVE  /\ blk' \in [checking: BOOLEAN, blocked: BOOLEAN, ready: BOOLEAN]
           /\ checks' \subseteq Cards
           /\ blk'.ready => blk.ready
           /\ blk'.blocked => blk.blocked
           /\ phase \notin {"idle", "ready"} => blk' = blk
           /\ phase = "idle" => blk' = IF PhaseChanged THEN BlkInitial ELSE blk
<1>1. blk \in [checking: BOOLEAN, blocked: BOOLEAN, ready: BOOLEAN] /\ checks \subseteq Cards
      /\ (phase = "ready" => card \in Cards)
  BY DEF KioskInv, TypeOK
<1>2. blk' = IF PhaseChanged /\ phase = "idle" THEN BlkInitial
             ELSE IF StartsCheck THEN [blk EXCEPT !.checking = TRUE, !.ready = FALSE] ELSE blk
  BY DEF CheckEffect
<1>3. CASE PhaseChanged /\ phase = "idle"
  <2>1. blk' = BlkInitial /\ ~StartsCheck
    BY <1>2, <1>3 DEF StartsCheck
  <2>2. QED
    BY <1>1, <1>3, <2>1 DEF BlkInitial, CheckEffect
<1>4. CASE ~(PhaseChanged /\ phase = "idle") /\ StartsCheck
  <2>1. blk' = [blk EXCEPT !.checking = TRUE, !.ready = FALSE] /\ phase = "ready" /\ checks' = checks \cup {card}
    BY <1>2, <1>4 DEF StartsCheck, CheckEffect
  <2>2. QED
    BY <1>1, <2>1
<1>5. CASE ~(PhaseChanged /\ phase = "idle") /\ ~StartsCheck
  <2>1. blk' = blk /\ checks' = checks
    BY <1>2, <1>5 DEF CheckEffect
  <2>2. QED
    BY <1>1, <1>5, <2>1
<1>6. QED
  BY <1>3, <1>4, <1>5

(* The rest of a commit's effects: a write that is begun, or none.          *)
LEMMA BeginKept ==
    ASSUME KioskInv, NEW kind \in {"checkin", "checkout", "block"}, Begin(kind), card \in Cards
    PROVE  /\ op' = [card |-> card, kind |-> kind] /\ phase' = "writing" /\ wrote' = TRUE
           /\ op' \in [card: Cards, kind: {"checkin", "checkout", "block"}] \cup {NoOp}
           /\ db' \in [Cards -> {"active", "blocked"}]
  BY DEF Begin, KioskInv, TypeOK

(* The effects of one commit, by the section that runs them.                *)
SectionKept ==
    /\ phase' \in {phase, "writing"}
    /\ op' \in [card: Cards, kind: {"checkin", "checkout", "block"}] \cup {NoOp}
    /\ db' \in [Cards -> {"active", "blocked"}]
    /\ copies' \subseteq [card: Cards, blocked: BOOLEAN]
    /\ triggered' \in BOOLEAN /\ rejected' \in BOOLEAN /\ lastTx' \in BOOLEAN /\ wrote' \in BOOLEAN
    /\ wrote' => \/ wrote /\ phase' = phase /\ (phase # "idle" /\ triggered => triggered')
                 \/ /\ ~wrote /\ phase' = "writing"
                    /\ role = "terminal" => triggered' \/ blk.blocked
    /\ AllowedWrite

LEMMA NoWriteKept ==
    ASSUME KioskInv, NoWrite
    PROVE  /\ phase' = phase /\ wrote' \in BOOLEAN /\ (wrote' => wrote) /\ AllowedWrite
           /\ op' \in [card: Cards, kind: {"checkin", "checkout", "block"}] \cup {NoOp}
           /\ db' \in [Cards -> {"active", "blocked"}]
  BY DEF NoWrite, KioskInv, TypeOK, AllowedWrite, Begins

LEMMA GateKept ==
    ASSUME KioskInv, GateEffect, role = "gate", phase # "idle"
    PROVE  SectionKept
<1>1. /\ copies \subseteq [card: Cards, blocked: BOOLEAN] /\ (phase = "ready" => card \in Cards)
      /\ rejected \in BOOLEAN /\ lastTx \in BOOLEAN
      /\ wrote => phase # "ready"
  BY DEF KioskInv, TypeOK, WroteOnce
<1>2. /\ triggered' \in BOOLEAN /\ (triggered => triggered')
      /\ lastTx' \in BOOLEAN /\ copies' \subseteq [card: Cards, blocked: BOOLEAN]
  <2>1. triggered' = (triggered \/ GateActs) /\ lastTx' = lastTx /\ copies' = copies
    BY DEF GateEffect
  <2>2. triggered' \in BOOLEAN /\ (triggered => triggered')
    BY <2>1, Zenon
  <2>3. QED
    BY <1>1, <2>1, <2>2
<1>3. CASE NoWrite /\ rejected' \in BOOLEAN
  BY <1>1, <1>2, <1>3, NoWriteKept DEF SectionKept
<1>4. ASSUME NEW kind \in {"checkin", "block"}, Begin(kind), rejected' \in BOOLEAN, GateActs
      PROVE  SectionKept
  <2>1. phase = "ready" /\ card \in Cards /\ ~wrote
    BY <1>1, <1>4 DEF GateActs
  <2>2. op'.kind \in {"checkin", "block"}
    <3>1. op' = [card |-> card, kind |-> kind]
      BY <1>4 DEF Begin
    <3>2. QED
      BY <1>4, <3>1
  <2>3. AllowedWrite
    BY <2>1, <2>2 DEF AllowedWrite, Begins
  <2>4. QED
    BY <1>1, <1>2, <1>4, <2>1, <2>3, BeginKept DEF SectionKept
<1>5. CASE ~GateActs
  BY <1>1, <1>3, <1>5 DEF GateEffect
<1>6. CASE GateActs
  BY <1>1, <1>3, <1>4, <1>6 DEF GateEffect
<1>7. QED
  BY <1>5, <1>6

LEMMA TerminalKept ==
    ASSUME KioskInv, TerminalEffect, role = "terminal", phase # "idle"
    PROVE  SectionKept
<1>1. /\ copies \subseteq [card: Cards, blocked: BOOLEAN] /\ (phase = "ready" => card \in Cards)
      /\ rejected \in BOOLEAN /\ lastTx \in BOOLEAN
      /\ card \in Cards \cup {NoCard}
      /\ wrote => phase # "ready" /\ (card = NoCard \/ triggered \/ ~blk.ready)
      /\ blk.ready => verdict = "clear"
      /\ blk.blocked => verdict = "blocked"
  BY DEF KioskInv, TypeOK, WroteOnce, AnswerIsNew
<1>2. /\ triggered' \in BOOLEAN /\ (triggered => triggered') /\ (CheckoutActs => triggered')
      /\ copies' \subseteq [card: Cards, blocked: BOOLEAN]
  <2>1. copies' = copies /\ triggered' = (triggered \/ CheckoutActs)
    BY DEF TerminalEffect
  <2>2. triggered' \in BOOLEAN /\ (triggered => triggered') /\ (CheckoutActs => triggered')
    BY <2>1, Zenon
  <2>3. QED
    BY <1>1, <2>1, <2>2
<1>3. CASE NoWrite /\ rejected' \in BOOLEAN /\ lastTx' \in BOOLEAN
  BY <1>1, <1>2, <1>3, NoWriteKept DEF SectionKept
<1>4. CASE CheckoutActs /\ Begin("checkout") /\ rejected' \in BOOLEAN /\ lastTx' \in BOOLEAN
  <2>1. blk.ready /\ card \in Cards /\ ~wrote /\ verdict = "clear" /\ triggered'
    BY <1>1, <1>2, <1>4 DEF CheckoutActs
  <2>2. AllowedWrite
    BY <2>1, <1>4, BeginKept DEF AllowedWrite, Begins
  <2>3. QED
    BY <1>1, <1>2, <1>4, <2>1, <2>2, BeginKept DEF SectionKept
<1>5. CASE BlockActs /\ Begin("block") /\ rejected' \in BOOLEAN /\ lastTx' \in BOOLEAN
  <2>1. blk.blocked /\ phase = "ready" /\ card \in Cards /\ ~wrote /\ verdict = "blocked"
    BY <1>1, <1>5 DEF BlockActs
  <2>2. AllowedWrite
    BY <2>1, <1>5, BeginKept DEF AllowedWrite, Begins
  <2>3. QED
    BY <1>1, <1>2, <1>5, <2>1, <2>2, BeginKept DEF SectionKept
<1>6. CASE CheckoutActs /\ CheckoutIsValid(card)
  BY <1>1, <1>3, <1>4, <1>6 DEF TerminalEffect
<1>7. CASE ~(CheckoutActs /\ CheckoutIsValid(card))
  BY <1>1, <1>3, <1>5, <1>7 DEF TerminalEffect
<1>8. QED
  BY <1>6, <1>7

LEMMA ScoutKept ==
    ASSUME KioskInv, ScoutEffect
    PROVE  SectionKept
<1>1. /\ copies \subseteq [card: Cards, blocked: BOOLEAN] /\ (phase = "ready" => card \in Cards)
      /\ triggered \in BOOLEAN /\ rejected \in BOOLEAN /\ lastTx \in BOOLEAN /\ frozen \in [Cards -> BOOLEAN]
  BY DEF KioskInv, TypeOK
<1>2. copies' \subseteq [card: Cards, blocked: BOOLEAN]
  BY <1>1 DEF ScoutEffect, StartsCheck
<1>3. QED
  BY <1>1, <1>2, NoWriteKept DEF ScoutEffect, SectionKept

LEMMA EffectsKept ==
    ASSUME KioskInv, Effects
    PROVE  KioskInv' /\ AllowedWrite
<1>1. CheckEffect /\ RestartEffect /\ seen' = Committed /\ UNCHANGED <<role, card, loading, parked, frozen, verdict>>
  BY DEF Effects
<1>2. /\ copies \subseteq [card: Cards, blocked: BOOLEAN] /\ phase \in {"idle", "scanning", "ready", "writing", "success", "error"}
      /\ role \in Roles /\ card \in Cards \cup {NoCard} /\ verdict \in {"none", "clear", "blocked"}
      /\ parked \in [Cards -> BOOLEAN] /\ frozen \in [Cards -> BOOLEAN] /\ loading \in BOOLEAN /\ restart \in BOOLEAN
      /\ phase \in {"idle", "scanning"} => card = NoCard
      /\ phase = "ready" => card \in Cards
      /\ ~(blk.ready /\ blk.blocked) /\ WroteOnce /\ AnswerIsNew
  BY DEF KioskInv, TypeOK
<1>3. role \in {"gate", "terminal", "scout"}
  BY <1>2, KioskAssumption
<1>4. SectionKept /\ (phase = "idle" => phase' = phase)
  <2>1. CASE phase = "idle"
    <3>1. ClearCycle
      BY <2>1 DEF Effects
    <3>2. QED
      BY <1>2, <2>1, <3>1, NoWriteKept DEF ClearCycle, SectionKept
  <2>2. CASE phase # "idle"
    <3>1. SectionKept
      BY <1>3, <2>2, GateKept, TerminalKept, ScoutKept DEF Effects
    <3>2. QED
      BY <2>2, <3>1
  <2>3. QED
    BY <2>1, <2>2
<1>5. TypeOK'
  <2>1. restart' \in BOOLEAN
    BY <1>1, <1>2 DEF RestartEffect
  <2>2. QED
    BY <1>1, <1>2, <1>4, <2>1, CheckKept DEF TypeOK, SectionKept
<1>6. /\ phase' \in {"idle", "scanning"} => card' = NoCard
      /\ phase' = "ready" => card' \in Cards
      /\ ~(blk'.ready /\ blk'.blocked)
  BY <1>1, <1>2, <1>4, CheckKept DEF SectionKept
<1>7. WroteOnce'
  <2> SUFFICES ASSUME wrote'
               PROVE  phase' # "ready" /\ (role = "terminal" => card = NoCard \/ triggered' \/ ~blk'.ready)
    BY <1>1 DEF WroteOnce
  <2>1. CASE wrote /\ phase' = phase /\ (phase # "idle" /\ triggered => triggered')
    BY <1>1, <1>2, <2>1, CheckKept DEF WroteOnce
  <2>2. CASE phase' = "writing" /\ (role = "terminal" => triggered' \/ blk.blocked)
    BY <1>1, <1>2, <2>2, CheckKept
  <2>3. QED
    BY <1>4, <2>1, <2>2 DEF SectionKept
<1>8. AnswerIsNew'
  <2> SUFFICES ASSUME role = "terminal"
               PROVE  /\ phase' = "scanning" => blk' = BlkInitial
                      /\ phase' = "idle" => blk' = BlkInitial
                      /\ blk'.ready => verdict = "clear"
                      /\ blk'.blocked => verdict = "blocked"
    BY <1>1 DEF AnswerIsNew
  <2>1. phase' \in {phase, "writing"}
    BY <1>4 DEF SectionKept
  <2>2. blk'.ready => blk.ready
    BY <1>1, CheckKept
  <2>3. phase = "idle" => blk' = BlkInitial
    BY <1>1, <1>2, CheckKept DEF AnswerIsNew, PhaseChanged
  <2>4. phase = "scanning" => blk' = BlkInitial
    BY <1>1, <1>2, CheckKept DEF AnswerIsNew
  <2>5. QED
    BY <1>1, <1>2, <2>1, <2>2, <2>3, <2>4, CheckKept DEF AnswerIsNew
<1>9. QED
  BY <1>4, <1>5, <1>6, <1>7, <1>8 DEF KioskInv, SectionKept

LEMMA EventsKept ==
    ASSUME KioskInv, UnattendedTerminal, Next \/ UNCHANGED vars
    PROVE  KioskInv' /\ AllowedWrite
<1>1. CASE Effects
  BY <1>1, EffectsKept
<1>2. CASE UNCHANGED vars
  <2>1. AllowedWrite
    BY <1>2 DEF vars, AllowedWrite, Begins
  <2>2. KioskInv'
    BY <1>2 DEF vars, nfc, loop, cardsAndDb, KioskInv, TypeOK, WroteOnce, AnswerIsNew
  <2>3. QED
    BY <2>1, <2>2
<1> USE DEF KioskInv, TypeOK, WroteOnce, AnswerIsNew, Show, Unchanged, cardsAndDb, loop, nfc
<1>3. CASE AutoScan
  <2>1. /\ phase = "idle" /\ seen.phase = "idle" /\ phase' = "scanning" /\ card' = NoCard /\ restart' = FALSE
        /\ UNCHANGED <<role, loading, triggered, rejected, lastTx, op, parked, frozen, db, verdict, wrote, blk, seen,
                        checks, copies>>
    BY <1>3 DEF AutoScan, Settled, Committed
  <2>2. AllowedWrite
    BY <2>1 DEF AllowedWrite, Begins
  <2>3. TypeOK'
    BY <2>1
  <2>4. QED
    BY <2>1, <2>2, <2>3 DEF BlkInitial
<1>4. CASE GrantRefresh
  <2>1. /\ loading' = ~loading /\ restart' = FALSE
        /\ UNCHANGED <<role, phase, card, blk, seen, checks, copies, triggered, rejected, lastTx, op,
                        parked, frozen, db, verdict, wrote>>
    BY <1>4 DEF GrantRefresh
  <2>2. AllowedWrite
    BY <2>1 DEF AllowedWrite, Begins
  <2>3. TypeOK'
    BY <2>1
  <2>4. QED
    BY <2>1, <2>2, <2>3
<1>5. CASE TapFails
  BY <1>5 DEF TapFails, AllowedWrite, Begins
<1>6. CASE WriteSucceeds
  BY <1>6 DEF WriteSucceeds, NoOp, AllowedWrite, Begins
<1>7. CASE WriteFails
  BY <1>7 DEF WriteFails, NoOp, AllowedWrite, Begins
<1>8. CASE HandleRetry
  BY <1>8 DEF HandleRetry, UnattendedTerminal, AllowedWrite, Begins
<1>9. CASE ErrorResets
  BY <1>9 DEF ErrorResets, Settled, Committed, AllowedWrite, Begins
<1>10. CASE Reset
  BY <1>10 DEF Reset, Settled, Committed, SuccessCloses, ReadyCloses, AllowedWrite, Begins
<1>11. ASSUME NEW c \in Cards, Tap(c)
       PROVE  KioskInv' /\ AllowedWrite
  <2>1. /\ phase' = "ready" /\ card' = c /\ verdict' = "none" /\ wrote' = FALSE /\ phase = "scanning"
        /\ UNCHANGED <<role, loading, restart, triggered, rejected, lastTx, op, parked, frozen, db, blk, seen, checks,
                        copies>>
    BY <1>11 DEF Tap
  <2>2. AllowedWrite
    BY <2>1 DEF AllowedWrite, Begins
  <2>3. TypeOK'
    BY <2>1
  <2>4. role = "terminal" => ~blk.ready /\ ~blk.blocked
    BY <2>1 DEF BlkInitial
  <2>5. QED
    BY <2>1, <2>2, <2>3, <2>4
<1>12. ASSUME NEW c \in Cards, Elsewhere(c)
       PROVE  KioskInv' /\ AllowedWrite
  <2>1. AllowedWrite
    BY <1>12 DEF Elsewhere, AllowedWrite, Begins
  <2>2. /\ UNCHANGED <<role, phase, card, loading, restart, blk, seen, checks, copies, triggered, rejected, lastTx,
                        op, verdict, wrote>>
        /\ parked' \in {parked, [parked EXCEPT ![c] = ~parked[c]]}
        /\ frozen' \in {frozen, [frozen EXCEPT ![c] = ~frozen[c]]}
        /\ db' \in {db, [db EXCEPT ![c] = IF db[c] = "active" THEN "blocked" ELSE "active"]}
    <3>1. UNCHANGED <<role, phase, card, loading, restart, blk, seen, checks, copies, triggered, rejected, lastTx,
                      op, verdict, wrote>>
      BY <1>12 DEF Elsewhere
    <3>2. parked' = parked \/ parked' = [parked EXCEPT ![c] = ~parked[c]]
      BY <1>12, Zenon DEF Elsewhere
    <3>3. frozen' = frozen \/ frozen' = [frozen EXCEPT ![c] = ~frozen[c]]
      BY <1>12, Zenon DEF Elsewhere
    <3>4. db' = db \/ db' = [db EXCEPT ![c] = IF db[c] = "active" THEN "blocked" ELSE "active"]
      BY <1>12, Zenon DEF Elsewhere
    <3>5. QED
      BY <3>1, <3>2, <3>3, <3>4, Zenon
  <2>3. /\ [parked EXCEPT ![c] = ~parked[c]] \in [Cards -> BOOLEAN]
        /\ [frozen EXCEPT ![c] = ~frozen[c]] \in [Cards -> BOOLEAN]
        /\ [db EXCEPT ![c] = IF db[c] = "active" THEN "blocked" ELSE "active"] \in [Cards -> {"active", "blocked"}]
    BY DEF KioskInv, TypeOK
  <2>4. parked' \in [Cards -> BOOLEAN] /\ frozen' \in [Cards -> BOOLEAN] /\ db' \in [Cards -> {"active", "blocked"}]
    BY <2>2, <2>3
  <2>5. QED
    BY <2>1, <2>2, <2>4
<1>13. ASSUME NEW c \in Cards, NEW failed \in BOOLEAN, Resolve(c, failed)
       PROVE  KioskInv' /\ AllowedWrite
  <2> DEFINE isBlocked == ~failed /\ db[c] = "blocked"
  <2> DEFINE current == phase = "ready" /\ card = c
  <2>1. /\ blk' = IF current THEN [checking |-> FALSE, blocked |-> isBlocked, ready |-> ~isBlocked] ELSE blk
        /\ verdict' = IF ~current THEN verdict ELSE IF isBlocked THEN "blocked" ELSE "clear"
        /\ checks' = checks \ {c} /\ Settled
        /\ UNCHANGED <<role, nfc, loop, seen, copies, triggered, rejected, lastTx, op, cardsAndDb, wrote>>
    BY <1>13 DEF Resolve
  <2>2. AllowedWrite
    BY <2>1 DEF AllowedWrite, Begins
  <2>3. isBlocked \in BOOLEAN
    OBVIOUS
  <2> HIDE DEF isBlocked
  <2>4. CASE current
    <3>1. blk' = [checking |-> FALSE, blocked |-> isBlocked, ready |-> ~isBlocked]
      BY <2>1, <2>4
    <3>2. blk' \in [checking: BOOLEAN, blocked: BOOLEAN, ready: BOOLEAN] /\ (blk'.blocked => isBlocked) /\ (blk'.ready => ~isBlocked)
      BY <2>3, <3>1, Zenon
    <3>3. ~(blk'.ready /\ blk'.blocked) /\ (blk'.blocked => verdict' = "blocked") /\ (blk'.ready => verdict' = "clear")
          /\ verdict' \in {"none", "clear", "blocked"}
      BY <2>1, <2>4, <3>2
    <3>4. wrote => FALSE
      BY <2>4
    <3>5. QED
      BY <2>1, <2>2, <2>4, <3>2, <3>3, <3>4
  <2>5. CASE ~current
    <3>1. blk' = blk /\ verdict' = verdict
      BY <2>1, <2>5
    <3>2. QED
      BY <2>1, <2>2, <3>1
  <2>6. QED
    BY <2>4, <2>5
<1>14. ASSUME NEW failed \in BOOLEAN, CopyLands(failed)
       PROVE  KioskInv' /\ AllowedWrite
  BY <1>14 DEF CopyLands, AllowedWrite, Begins
<1> QED
  BY <1>1, <1>2, <1>3, <1>4, <1>5, <1>6, <1>7, <1>8, <1>9, <1>10, <1>11, <1>12, <1>13, <1>14 DEF Next

(* A kiosk at which nobody retries by hand begins at most one write for a   *)
(* tap; a terminal's checkout follows a lookup that found the card clear,   *)
(* its block one that found it blocked (KioskTap's property, of the tab).   *)
THEOREM OneAllowedWrite == ASSUME UnattendedTerminal PROVE ScreensSpec => OneAllowedWritePerTap
<1>1. ScreensInit => KioskInv
  BY KioskStarts DEF ScreensInit
<1>2. KioskInv /\ [ScreensNext]_<<screenVars, tab>> => KioskInv' /\ AllowedWrite
  BY UnattendedTerminal, EventsKept DEF ScreensNext, screenVars
<1>3. KioskInv => TypeOK
  BY DEF KioskInv
<1>4. ScreensSpec => ScreensInit /\ [][ScreensNext]_<<screenVars, tab>>
  BY DEF ScreensSpec
<1>5. ScreensSpec => []TypeOK
  BY <1>1, <1>2, <1>3, <1>4, PTL
<1>6. ScreensSpec => [][AllowedWrite]_vars
  BY <1>1, <1>2, <1>4, PTL
<1>7. QED
  BY <1>5, <1>6, PTL DEF OneAllowedWritePerTap, AllowedWrite

-----------------------------------------------------------------------------
(* The scanner's operations.                                                *)
FreeCall == [at |-> "free", card |-> NoTag, ok |-> FALSE, aborted |-> FALSE]

LEMMA SlotsAssumption == 0 \notin Slots /\ NoTag \notin Tags
  BY ScreensAssumption DEF Scanner!ScannerBounds

LEMMA ErredFacts ==
    ASSUME NEW s \in Screens, NEW r \in BOOLEAN
    PROVE  /\ Scanner!Erred(s, r) \in Screens
           /\ Scanner!Erred(s, r).raw = s.raw /\ Scanner!Erred(s, r).payload = s.payload
           /\ Scanner!Erred(s, r).phase = IF s.phase \in Scanner!Active THEN "error" ELSE s.phase
  BY DEF Scanner!Erred, Screens, Scanner!Active, Scanner!Waiting

LEMMA FailFacts ==
    ASSUME NEW h \in Hooks, NEW i \in Slots, NEW r \in BOOLEAN, NEW f, f = Scanner!Fail(h, i, r)
    PROVE  /\ f \in Hooks
           /\ f.current = h.current /\ f.pending = h.pending /\ f.timer = h.timer
           /\ f.ops[i] = FreeCall /\ \A j \in Slots \ {i} : f.ops[j] = h.ops[j]
           /\ f.screen.raw = h.screen.raw /\ f.screen.payload = h.screen.payload
           /\ f.screen.phase = IF ~h.ops[i].aborted /\ h.screen.phase \in Scanner!Active THEN "error"
                               ELSE h.screen.phase
<1>1. h.screen \in Screens /\ h.ops \in [Slots -> Calls] /\ Scanner!Free = FreeCall /\ FreeCall \in Calls
  BY DEF Hooks, Calls, Scanner!Free, FreeCall
<1>2. f = [h EXCEPT !.ops[i] = FreeCall, !.screen = IF h.ops[i].aborted THEN h.screen ELSE Scanner!Erred(h.screen, r)]
  BY <1>1 DEF Scanner!Fail
<1>3. PICK s \in Screens : s = IF h.ops[i].aborted THEN h.screen ELSE Scanner!Erred(h.screen, r)
  BY <1>1, ErredFacts
<1>4. /\ f \in Hooks
      /\ f.current = h.current /\ f.pending = h.pending /\ f.timer = h.timer
      /\ f.ops = [h.ops EXCEPT ![i] = FreeCall]
      /\ f.screen = s
  <2>1. PICK o \in [Slots -> Calls] : o = [h.ops EXCEPT ![i] = FreeCall]
    BY <1>1
  <2>2. f = [h EXCEPT !.ops = o, !.screen = s]
    BY <1>2, <1>3, <2>1
  <2>3. QED
    BY <2>1, <2>2 DEF Hooks
<1>5. QED
  BY <1>1, <1>3, <1>4, ErredFacts

(* What the rejections that follow an event may do to what it has left.     *)
Quieter(f, h) ==
    /\ f.screen.phase \in {h.screen.phase, "error"}
    /\ h.screen.phase = "idle" => f.screen.phase = "idle"
    /\ \A j \in Slots : Live(f, j) => Live(h, j) /\ f.ops[j] = h.ops[j]

LEMMA FailKept ==
    ASSUME NEW h, NEW i \in Slots, NEW r \in BOOLEAN, NEW T, NEW L, HookInv(h, T, L),
           NEW f, f = Scanner!Fail(h, i, r)
    PROVE  /\ HookInv(f, T, L) /\ Quieter(f, h)
           /\ InlineFits(h) /\ h.ops[i].at # "free" => InlineFits(f)
<1>1. h \in Hooks /\ LiveFits(h, T, L) /\ ShownIsTrue(h, T, L)
  BY DEF HookInv
<1>2. /\ f \in Hooks
      /\ f.current = h.current /\ f.pending = h.pending /\ f.timer = h.timer
      /\ f.ops[i] = FreeCall /\ \A j \in Slots \ {i} : f.ops[j] = h.ops[j]
      /\ f.screen.raw = h.screen.raw /\ f.screen.payload = h.screen.payload
      /\ f.screen.phase = IF ~h.ops[i].aborted /\ h.screen.phase \in Scanner!Active THEN "error"
                          ELSE h.screen.phase
  BY <1>1, FailFacts
<1>3. \A j \in Slots : Live(f, j) => Live(h, j) /\ f.ops[j] = h.ops[j]
  BY <1>2 DEF Live, FreeCall
<1>4. f.screen.phase \in {h.screen.phase, "error"} /\ (h.screen.phase = "idle" => f.screen.phase = "idle")
  BY <1>2 DEF Scanner!Active, Scanner!Waiting
<1>5. LiveFits(f, T, L)
  BY <1>1, <1>2, <1>3, <1>4 DEF LiveFits
<1>6. ShownIsTrue(f, T, L)
  BY <1>1, <1>2, <1>4 DEF ShownIsTrue
<1>7. ASSUME InlineFits(h), h.ops[i].at # "free" PROVE InlineFits(f)
  <2>1. \A j \in Slots : f.ops[j].aborted => f.ops[j].at \in {"checking", "preparing", "answer", "refused"}
    BY <1>2, <1>7 DEF InlineFits, FreeCall
  <2>2. CASE h.ops[i].aborted
    BY <1>2, <1>3, <1>7, <2>1, <2>2 DEF InlineFits
  <2>3. CASE ~h.ops[i].aborted
    <3>1. Live(h, i) /\ i = h.current
      BY <1>1, <1>7, <2>3 DEF Live, LiveFits
    <3>2. \A j \in Slots : ~Live(f, j)
      BY <1>1, <1>2, <1>3, <3>1 DEF LiveFits, Live, FreeCall
    <3>3. h.ops[i] \in Calls
      BY <1>1 DEF Hooks
    <3>4. h.screen.phase # "write_pending_retry"
      BY <1>1, <1>7, <3>1, <3>3 DEF InlineFits, LiveFits, Calls, Live
    <3>5. QED
      BY <1>2, <1>7, <2>1, <3>2, <3>4 DEF InlineFits
  <2>4. QED
    BY <2>2, <2>3
<1>8. QED
  BY <1>2, <1>3, <1>4, <1>5, <1>6, <1>7 DEF HookInv, Quieter

LEMMA RejectScanKept ==
    ASSUME NEW h, NEW i \in Slots, NEW T, NEW L, HookInv(h, T, L), h.ops[i].at # "free",
           NEW f, f = Scanner!RejectScan(h, i)
    PROVE  HookInv(f, T, L) /\ Quieter(f, h) /\ (InlineFits(h) => InlineFits(f))
<1> DEFINE others == Scanner!Scanning(h) \ {i}
<1>0. PICK yes \in BOOLEAN : yes = TRUE
  OBVIOUS
<1>1. CASE others = {}
  <2>1. f = Scanner!Fail(h, i, yes)
    BY <1>0, <1>1 DEF Scanner!RejectScan
  <2>2. QED
    BY <2>1, FailKept
<1>2. CASE others # {}
  <2>1. PICK j \in others : f = Scanner!Fail(Scanner!Fail(h, j, yes), i, yes)
    BY <1>0, <1>2 DEF Scanner!RejectScan
  <2>2. PICK g : g = Scanner!Fail(h, j, yes)
    OBVIOUS
  <2>3. j \in Slots /\ j # i /\ h.ops[j].at # "free" /\ f = Scanner!Fail(g, i, yes)
    BY <2>1, <2>2 DEF Scanner!Scanning
  <2>4. HookInv(g, T, L) /\ Quieter(g, h) /\ (InlineFits(h) => InlineFits(g))
    BY <2>2, <2>3, FailKept
  <2>5. g.ops[i] = h.ops[i]
    BY <2>2, <2>3, FailFacts DEF HookInv
  <2>6. HookInv(f, T, L) /\ Quieter(f, g) /\ (InlineFits(g) => InlineFits(f))
    BY <2>3, <2>4, <2>5, FailKept
  <2>7. QED
    BY <2>4, <2>6 DEF Quieter
<1>3. QED
  BY <1>1, <1>2

LEMMA RejectionsKept ==
    ASSUME NEW h, NEW T, NEW L, HookInv(h, T, L), NEW f, f = Scanner!Rejections(h)
    PROVE  HookInv(f, T, L) /\ Quieter(f, h) /\ (InlineFits(h) => InlineFits(f))
<1> DEFINE refused == {i \in Slots : h.ops[i].at = "refused"}
<1>1. CASE refused = {}
  <2>1. f = h
    BY <1>1 DEF Scanner!Rejections
  <2>2. QED
    BY <2>1 DEF Quieter
<1>2. CASE refused # {}
  <2>1. PICK i \in refused : f = Scanner!RejectScan(h, i)
    BY <1>2 DEF Scanner!Rejections
  <2>2. QED
    BY <2>1, RejectScanKept
<1>3. QED
  BY <1>1, <1>2

(* After an event, and the history that begins anew with it.  A screen that *)
(* goes to "writing" leaves no answer of an earlier write behind.           *)
LEMMA BecomesKept ==
    ASSUME NEW h, Scanner!Becomes(h), HookInv(h, tapped, landed), tapped \subseteq Tags, landed \in BOOLEAN,
           h.screen.phase = "writing" => \/ hook.screen.phase = "writing"
                                         \/ \A i \in Slots : Live(h, i) => h.ops[i].at # "answer"
    PROVE  /\ HookInv(hook', tapped', landed') /\ tapped' \subseteq Tags /\ landed' \in BOOLEAN
           /\ InlineFits(h) => InlineFits(hook')
           /\ h.screen.phase = "idle" => hook'.screen.phase = "idle"
<1>1. hook' = Scanner!Rejections(h)
  BY DEF Scanner!Becomes
<1>2. HookInv(hook', tapped, landed) /\ Quieter(hook', h) /\ (InlineFits(h) => InlineFits(hook'))
  BY <1>1, RejectionsKept
<1>3. /\ tapped' = IF hook'.screen.phase \in {"idle", "scanning"} THEN {} ELSE tapped
      /\ landed' = (landed /\ ~(hook'.screen.phase = "writing" /\ hook.screen.phase # "writing"))
  BY <1>1 DEF Scanner!Becomes
<1>4. landed' \in BOOLEAN /\ (landed' => landed)
      /\ (landed => landed' \/ (hook'.screen.phase = "writing" /\ hook.screen.phase # "writing"))
  BY <1>3, Zenon
<1>5. LiveFits(hook', tapped', landed')
  BY <1>2, <1>3, <1>4 DEF LiveFits, HookInv, Quieter
<1>6. ShownIsTrue(hook', tapped', landed')
  BY <1>2, <1>3, <1>4 DEF ShownIsTrue, HookInv
<1>7. QED
  BY <1>2, <1>3, <1>4, <1>5, <1>6 DEF HookInv, Quieter

-----------------------------------------------------------------------------
(* Aborting leaves no live call.                                            *)
LEMMA AbortKept ==
    ASSUME NEW h \in Hooks, NEW T, NEW L, LiveFits(h, T, L), NEW a, a = Scanner!Abort(h)
    PROVE  /\ a \in Hooks
           /\ a.ops = IF h.current = 0 THEN h.ops
                      ELSE [h.ops EXCEPT ![h.current] = Scanner!Aborted(h.ops[h.current])]
           /\ a.screen = h.screen /\ a.pending = h.pending /\ a.timer = h.timer /\ a.current = 0
           /\ \A i \in Slots : ~Live(a, i)
           /\ InlineFits(h) => InlineFits(a)
<1>1. LiveFits(h, T, L) /\ h.ops \in [Slots -> Calls] /\ h.current \in Slots \cup {0}
  BY DEF Hooks
<1>2. CASE h.current = 0
  <2>1. a = h
    BY <1>2 DEF Scanner!Abort
  <2>2. QED
    BY <1>1, <1>2, <2>1, SlotsAssumption DEF LiveFits
<1>3. CASE h.current # 0
  <2>1. PICK k \in Slots : k = h.current
    BY <1>1, <1>3
  <2>2. PICK ended : ended = Scanner!Aborted(h.ops[k])
    OBVIOUS
  <2>3. /\ ended \in Calls /\ (ended.at = "free" \/ ended.aborted)
        /\ ended.aborted => ended.at \in {"checking", "preparing", "answer", "refused"}
    <3>1. h.ops[k] \in Calls
      BY <1>1
    <3>2. QED
      BY <2>2, <3>1 DEF Calls, Scanner!Aborted, Scanner!Free
  <2>4. PICK o \in [Slots -> Calls] : o = [h.ops EXCEPT ![k] = ended]
    BY <1>1, <2>3
  <2>5. a = [h EXCEPT !.current = 0, !.ops = o]
    BY <1>3, <2>1, <2>2, <2>4 DEF Scanner!Abort
  <2>6. /\ a \in Hooks /\ a.ops = o /\ a.current = 0
        /\ a.screen = h.screen /\ a.pending = h.pending /\ a.timer = h.timer
    BY <1>1, <2>5 DEF Hooks
  <2>7. a.ops[k] = ended /\ \A i \in Slots \ {k} : a.ops[i] = h.ops[i]
    BY <1>1, <2>4, <2>6
  <2>8. \A i \in Slots : ~Live(a, i)
    BY <1>1, <2>1, <2>3, <2>7 DEF Live, LiveFits
  <2>9. InlineFits(h) => InlineFits(a)
    BY <2>3, <2>6, <2>7, <2>8 DEF InlineFits
  <2>10. QED
    BY <1>3, <2>1, <2>2, <2>4, <2>6, <2>8, <2>9
<1>4. QED
  BY <1>2, <1>3

(* ... and beginning a call, the one that begins.                           *)
LEMMA BeginFacts ==
    ASSUME NEW h \in Hooks, NEW T, NEW L, LiveFits(h, T, L), Scanner!HasSlot(h),
           NEW at \in {"starting", "preparing", "writing"}, NEW scr \in Screens, NEW read \in Tags \cup {NoTag},
           NEW b, b = Scanner!Begin(h, at, scr, read)
    PROVE  /\ b \in Hooks /\ b.screen = scr /\ b.pending = h.pending /\ b.timer = h.timer
           /\ \A i \in Slots : Live(b, i) => i = b.current /\ b.ops[i].at = at /\ b.ops[i].card = read
           /\ InlineFits(h) => \A i \in Slots :
                b.ops[i].aborted => b.ops[i].at \in {"checking", "preparing", "answer", "refused"}
<1>1. PICK a : a = Scanner!Abort(h)
  OBVIOUS
<1>2. /\ a \in Hooks
      /\ a.screen = h.screen /\ a.pending = h.pending /\ a.timer = h.timer
      /\ \A i \in Slots : ~Live(a, i)
      /\ InlineFits(h) => InlineFits(a)
  BY <1>1, AbortKept
<1>3. PICK call \in Calls : call = [at |-> at, card |-> read, ok |-> FALSE, aborted |-> FALSE]
  BY DEF Calls
<1>4. \E i \in Slots : a.ops[i].at = "free"
  BY <1>1 DEF Scanner!HasSlot
<1>5. [Scanner!Free EXCEPT !.at = at, !.card = read] = call
  <2>1. PICK c \in Calls : c = [at |-> "free", card |-> NoTag, ok |-> FALSE, aborted |-> FALSE]
    BY DEF Calls
  <2>2. c.ok = FALSE /\ c.aborted = FALSE
    BY <2>1
  <2>3. PICK d \in Calls : d = [c EXCEPT !.at = at, !.card = read]
    BY <2>1 DEF Calls
  <2>4. d.at = at /\ d.card = read /\ d.ok = c.ok /\ d.aborted = c.aborted
    BY <2>1, <2>3 DEF Calls
  <2>5. d = call
    BY <1>3, <2>2, <2>4 DEF Calls
  <2>6. QED
    BY <2>1, <2>3, <2>5 DEF Scanner!Free
<1>6. PICK k \in Slots : b = [a EXCEPT !.current = k, !.ops[k] = call, !.screen = scr]
  <2>1. (CHOOSE j \in Slots : a.ops[j].at = "free") \in Slots
    BY <1>4
  <2>2. b = [a EXCEPT !.current = CHOOSE j \in Slots : a.ops[j].at = "free",
                      !.ops[CHOOSE j \in Slots : a.ops[j].at = "free"] = call, !.screen = scr]
    BY <1>1, <1>5 DEF Scanner!Begin
  <2>3. QED
    BY <2>1, <2>2
<1>7. PICK o \in [Slots -> Calls] : o = [a.ops EXCEPT ![k] = call]
  BY <1>2 DEF Hooks
<1>8. b = [a EXCEPT !.current = k, !.ops = o, !.screen = scr]
  BY <1>6, <1>7
<1>9. /\ b \in Hooks /\ b.ops = o /\ b.current = k
      /\ b.screen = scr /\ b.pending = h.pending /\ b.timer = h.timer
  BY <1>2, <1>8 DEF Hooks
<1>10. b.ops[k] = call /\ \A i \in Slots \ {k} : b.ops[i] = a.ops[i]
  BY <1>2, <1>7, <1>9 DEF Hooks
<1>11. QED
  BY <1>2, <1>3, <1>9, <1>10 DEF Live, InlineFits

(* Resetting and cancelling.                                                *)
Showing(h, scr) == [h EXCEPT !.screen = scr]

LEMMA ForgetFacts ==
    ASSUME NEW h \in Hooks, NEW T, NEW L, LiveFits(h, T, L), NEW scr \in Screens,
           NEW g, g = Showing(Scanner!Forget(h), scr)
    PROVE  /\ g \in Hooks /\ g.screen = scr /\ g.timer = FALSE
           /\ \A i \in Slots : ~Live(g, i)
           /\ InlineFits(h) => InlineFits(g)
           /\ Scanner!HasSlot(h) => Scanner!HasSlot(g)
<1>1. PICK a : a = Scanner!Abort(h)
  OBVIOUS
<1>2. /\ a \in Hooks /\ a.current = 0
      /\ \A i \in Slots : ~Live(a, i)
      /\ InlineFits(h) => InlineFits(a)
  BY <1>1, AbortKept
<1>3. PICK b \in Hooks : b = [a EXCEPT !.pending = NoTag, !.timer = FALSE]
  BY <1>2 DEF Hooks
<1>4. g = [b EXCEPT !.screen = scr]
  BY <1>1, <1>3 DEF Scanner!Forget, Showing
<1>5. b.ops = a.ops /\ b.current = 0 /\ b.timer = FALSE
  BY <1>2, <1>3 DEF Hooks
<1>6. g \in Hooks /\ g.screen = scr /\ g.ops = a.ops /\ g.current = 0 /\ g.timer = FALSE
  BY <1>3, <1>4, <1>5 DEF Hooks
<1>7. \A i \in Slots : ~Live(g, i)
  BY <1>2, <1>6 DEF Live
<1>8. InlineFits(h) => InlineFits(g)
  BY <1>2, <1>6, <1>7 DEF InlineFits
<1>9. Scanner!HasSlot(h) => Scanner!HasSlot(g)
  BY <1>1, <1>6 DEF Scanner!HasSlot, Scanner!Abort
<1>10. QED
  BY <1>6, <1>7, <1>8, <1>9

LEMMA ResetKept ==
    ASSUME NEW h, NEW T, NEW L, HookInv(h, T, L), NEW g, g = Scanner!Reset(h)
    PROVE  /\ HookInv(g, T, L) /\ g.screen.phase = "idle" /\ (InlineFits(h) => InlineFits(g))
           /\ Scanner!HasSlot(h) => Scanner!HasSlot(g)
<1>1. PICK s \in Screens : s = Scanner!Blank /\ s.phase = "idle" /\ s.raw = NoTag /\ s.payload = NoTag
  <2>1. Scanner!Blank \in Screens
    BY DEF Screens, Scanner!Blank
  <2>2. QED
    BY <2>1 DEF Scanner!Blank
<1>2. g = Showing(Scanner!Forget(h), s)
  BY <1>1 DEF Scanner!Reset, Showing
<1>3. h \in Hooks /\ LiveFits(h, T, L)
  BY DEF HookInv
<1>4. /\ g \in Hooks /\ g.screen = s /\ (InlineFits(h) => InlineFits(g))
      /\ \A i \in Slots : ~Live(g, i)
      /\ Scanner!HasSlot(h) => Scanner!HasSlot(g)
  BY <1>2, <1>3, ForgetFacts
<1>5. QED
  BY <1>1, <1>4 DEF HookInv, LiveFits, ShownIsTrue

LEMMA CancelKept ==
    ASSUME NEW h, NEW T, NEW L, HookInv(h, T, L), NEW g, g = Scanner!Cancel(h)
    PROVE  /\ HookInv(g, T, L) /\ (InlineFits(h) => InlineFits(g))
           /\ g.screen.phase # "writing"
<1>1. h \in Hooks /\ LiveFits(h, T, L) /\ h.screen \in Screens /\ ShownIsTrue(h, T, L)
  BY DEF HookInv, Hooks
<1>2. PICK s \in Screens : s = Scanner!Cancelled(h.screen)
  BY <1>1 DEF Scanner!Cancelled, Scanner!Blank, Screens
<1>3. \/ s = h.screen /\ s.phase \notin Scanner!Active
      \/ s.phase = "idle" /\ s.raw = NoTag /\ s.payload = NoTag
  BY <1>2 DEF Scanner!Cancelled, Scanner!Blank
<1>4. PICK f : f = Scanner!Forget(h)
  OBVIOUS
<1>5. f.screen = h.screen
  <2>1. PICK a \in Hooks : a = Scanner!Abort(h) /\ a.screen = h.screen
    BY <1>1, AbortKept
  <2>2. QED
    BY <1>4, <2>1 DEF Scanner!Forget, Hooks
<1>6. g = Showing(Scanner!Forget(h), s)
  BY <1>2, <1>4, <1>5 DEF Scanner!Cancel, Showing
<1>7. /\ g \in Hooks /\ g.screen = s /\ (InlineFits(h) => InlineFits(g))
      /\ \A i \in Slots : ~Live(g, i)
  BY <1>1, <1>6, ForgetFacts
<1>8. QED
  BY <1>1, <1>3, <1>7 DEF HookInv, LiveFits, ShownIsTrue, Scanner!Active, Scanner!Waiting

-----------------------------------------------------------------------------
(* Scanning and writing.                                                    *)
LEMMA ScanKept ==
    ASSUME NEW h, NEW T, NEW L, HookInv(h, T, L), Scanner!HasSlot(h), NEW g, g = Scanner!Scan(h)
    PROVE  /\ HookInv(g, T, L)
           /\ InlineFits(h) /\ h.screen.phase = "idle" => InlineFits(g)
           /\ \A i \in Slots : Live(g, i) => g.ops[i].at # "answer"
<1>1. h \in Hooks /\ LiveFits(h, T, L) /\ h.screen \in Screens /\ ShownIsTrue(h, T, L)
  BY DEF HookInv, Hooks
<1>2. PICK s \in Screens : s = Scanner!StartScan(h.screen)
  BY <1>1 DEF Scanner!StartScan, Scanner!Blank, Screens, Scanner!Active, Scanner!Waiting
<1>3. \/ s = h.screen /\ s.phase \notin {"idle", "error"}
      \/ s.phase = "scanning" /\ s.raw = NoTag /\ s.payload = NoTag
  BY <1>2 DEF Scanner!StartScan, Scanner!Blank
<1>4. g = Scanner!Begin(h, "starting", s, NoTag)
  BY <1>2 DEF Scanner!Scan
<1>5. /\ g \in Hooks /\ g.screen = s /\ g.pending = h.pending /\ g.timer = h.timer
      /\ \A i \in Slots : Live(g, i) => i = g.current /\ g.ops[i].at = "starting"
      /\ InlineFits(h) => \A i \in Slots :
                g.ops[i].aborted => g.ops[i].at \in {"checking", "preparing", "answer", "refused"}
  BY <1>1, <1>4, BeginFacts
<1>6. LiveFits(g, T, L)
  BY <1>3, <1>5 DEF LiveFits
<1>7. ShownIsTrue(g, T, L)
  BY <1>1, <1>3, <1>5 DEF ShownIsTrue
<1>8. ASSUME InlineFits(h), h.screen.phase = "idle" PROVE InlineFits(g)
  BY <1>3, <1>5, <1>8 DEF InlineFits
<1>9. QED
  BY <1>5, <1>6, <1>7, <1>8 DEF HookInv

LEMMA StartWriteFacts ==
    ASSUME NEW s \in Screens, s.phase \in {"ready", "write_pending_retry"}, NEW w, w = Scanner!StartWrite(s)
    PROVE  w \in Screens /\ w.phase = "writing" /\ w.raw = s.raw /\ w.payload = s.payload
  BY DEF Scanner!StartWrite, Scanner!Goes, Screens, Scanner!Active, Scanner!Waiting

LEMMA WriteKept ==
    ASSUME NEW h, NEW T, NEW L, HookInv(h, T, L), Scanner!HasSlot(h),
           h.screen.phase = "ready", h.screen.payload # NoTag, NEW g, g = Scanner!Write(h)
    PROVE  /\ HookInv(g, T, L) /\ (InlineFits(h) => InlineFits(g))
           /\ \A i \in Slots : Live(g, i) => g.ops[i].at # "answer"
<1>1. h \in Hooks /\ LiveFits(h, T, L) /\ h.screen \in Screens /\ ShownIsTrue(h, T, L) /\ h.screen.payload \in Tags \cup {NoTag}
  BY DEF HookInv, Hooks, Screens
<1>2. PICK s \in Screens : /\ s = Scanner!StartWrite(h.screen) /\ s.phase = "writing"
                           /\ s.raw = h.screen.raw /\ s.payload = h.screen.payload
  BY <1>1, StartWriteFacts
<1>3. PICK read \in Tags \cup {NoTag} : read = h.screen.payload
  BY <1>1
<1>4. g = Scanner!Begin(h, "preparing", s, read)
  BY <1>2, <1>3 DEF Scanner!Write
<1>5. /\ g \in Hooks /\ g.screen = s /\ g.pending = h.pending /\ g.timer = h.timer
      /\ \A i \in Slots : Live(g, i) => i = g.current /\ g.ops[i].at = "preparing" /\ g.ops[i].card = read
      /\ InlineFits(h) => \A i \in Slots :
                g.ops[i].aborted => g.ops[i].at \in {"checking", "preparing", "answer", "refused"}
  BY <1>1, <1>4, BeginFacts
<1>6. LiveFits(g, T, L)
  BY <1>2, <1>3, <1>5 DEF LiveFits
<1>7. ShownIsTrue(g, T, L)
  BY <1>1, <1>2, <1>5 DEF ShownIsTrue
<1>8. InlineFits(h) => InlineFits(g)
  BY <1>2, <1>5 DEF InlineFits
<1>9. QED
  BY <1>5, <1>6, <1>7, <1>8 DEF HookInv

LEMMA RetryWriteKept ==
    ASSUME NEW h, NEW T, NEW L, HookInv(h, T, L), Scanner!HasSlot(h),
           h.screen.phase = "write_pending_retry", h.pending # NoTag, NEW g, g = Scanner!RetryWrite(h)
    PROVE  /\ HookInv(g, T, L) /\ (InlineFits(h) => InlineFits(g))
           /\ \A i \in Slots : Live(g, i) => g.ops[i].at # "answer"
<1>1. /\ h \in Hooks /\ h.screen \in Screens /\ h.pending \in Tags \cup {NoTag}
      /\ LiveFits(h, T, L) /\ ShownIsTrue(h, T, L)
  BY DEF HookInv, Hooks
<1>2. PICK s \in Screens : /\ s = Scanner!StartWrite(h.screen) /\ s.phase = "writing"
                           /\ s.raw = h.screen.raw /\ s.payload = h.screen.payload
  BY <1>1, StartWriteFacts
<1>3. PICK k \in Hooks : k = [h EXCEPT !.timer = FALSE]
  BY <1>1 DEF Hooks
<1>4. /\ k.screen = h.screen /\ k.ops = h.ops /\ k.current = h.current /\ k.pending = h.pending
      /\ k.timer = FALSE
  BY <1>1, <1>3 DEF Hooks
<1>5. LiveFits(k, T, L) /\ (InlineFits(h) => InlineFits(k))
  BY <1>1, <1>4 DEF LiveFits, InlineFits, Live
<1>6. Scanner!HasSlot(k)
  <2>1. PICK a, b : a = Scanner!Abort(h) /\ b = Scanner!Abort(k)
    OBVIOUS
  <2>2. a.ops = IF h.current = 0 THEN h.ops ELSE [h.ops EXCEPT ![h.current] = Scanner!Aborted(h.ops[h.current])]
    BY <1>1, <2>1, AbortKept
  <2>3. b.ops = IF k.current = 0 THEN k.ops ELSE [k.ops EXCEPT ![k.current] = Scanner!Aborted(k.ops[k.current])]
    BY <1>3, <1>5, <2>1, AbortKept
  <2>4. b.ops = a.ops
    BY <1>4, <2>2, <2>3
  <2>5. QED
    BY <2>1, <2>4 DEF Scanner!HasSlot
<1>7. PICK read \in Tags \cup {NoTag} : read = h.pending
  BY <1>1
<1>8. g = Scanner!Begin(k, "writing", s, read)
  BY <1>2, <1>3, <1>7 DEF Scanner!RetryWrite
<1>9. /\ g \in Hooks /\ g.screen = s /\ g.pending = h.pending /\ g.timer = FALSE
      /\ \A i \in Slots : Live(g, i) => i = g.current /\ g.ops[i].at = "writing" /\ g.ops[i].card = read
      /\ InlineFits(k) => \A i \in Slots :
                g.ops[i].aborted => g.ops[i].at \in {"checking", "preparing", "answer", "refused"}
  <2>1. /\ g \in Hooks /\ g.screen = s /\ g.pending = k.pending /\ g.timer = k.timer
        /\ \A i \in Slots : Live(g, i) => i = g.current /\ g.ops[i].at = "writing" /\ g.ops[i].card = read
        /\ InlineFits(k) => \A i \in Slots :
                  g.ops[i].aborted => g.ops[i].at \in {"checking", "preparing", "answer", "refused"}
    BY <1>5, <1>6, <1>8, BeginFacts
  <2>2. QED
    BY <1>4, <2>1
<1>10. LiveFits(g, T, L)
  BY <1>2, <1>9 DEF LiveFits
<1>11. ShownIsTrue(g, T, L)
  BY <1>1, <1>2, <1>9 DEF ShownIsTrue
<1>12. InlineFits(h) => InlineFits(g)
  BY <1>2, <1>5, <1>7, <1>9 DEF InlineFits
<1>13. QED
  BY <1>9, <1>10, <1>11, <1>12 DEF HookInv

-----------------------------------------------------------------------------
(* The events.                                                              *)
LEMMA ScannerKnown ==
    ASSUME ScannerInv
    PROVE  /\ page \in Pages /\ shown \in BOOLEAN /\ session \in {"valid", "expired", "none"}
           /\ tapped \subseteq Tags /\ landed \in BOOLEAN
           /\ hook \in Hooks /\ HookInv(hook, tapped, landed)
           /\ LiveFits(hook, tapped, landed) /\ ShownIsTrue(hook, tapped, landed)
           /\ hook.ops \in [Slots -> Calls] /\ hook.screen \in Screens
           /\ ~page.drawer => InlineFits(hook) /\ (~shown => hook.screen.phase = "idle")
  BY DEF ScannerInv, InlineInv, HookInv, Hooks, Scanner!TypeOK

LEMMA ScannerRebuilt ==
    ASSUME page \in Pages, shown \in BOOLEAN, session \in {"valid", "expired", "none"},
           tapped \subseteq Tags, landed \in BOOLEAN, HookInv(hook, tapped, landed),
           ~page.drawer => InlineFits(hook) /\ (~shown => hook.screen.phase = "idle")
    PROVE  ScannerInv
<1>1. hook \in Hooks
  BY DEF HookInv
<1>2. Scanner!TypeOK
  BY <1>1 DEF Hooks, Screens, Calls, Scanner!TypeOK
<1>3. QED
  BY <1>2 DEF ScannerInv, InlineInv

(* An event that shows a new state of the hook.                             *)
LEMMA TurnKept ==
    ASSUME ScannerInv, NEW h, Scanner!Becomes(h), HookInv(h, tapped, landed),
           UNCHANGED <<page, session>>, shown' \in BOOLEAN,
           h.screen.phase = "writing" => \/ hook.screen.phase = "writing"
                                         \/ \A i \in Slots : Live(h, i) => h.ops[i].at # "answer",
           ~page.drawer => InlineFits(h) /\ (~shown' => h.screen.phase = "idle")
    PROVE  ScannerInv'
<1>1. page \in Pages /\ session \in {"valid", "expired", "none"} /\ tapped \subseteq Tags /\ landed \in BOOLEAN
  BY ScannerKnown
<1>2. /\ HookInv(hook', tapped', landed') /\ tapped' \subseteq Tags /\ landed' \in BOOLEAN
      /\ InlineFits(h) => InlineFits(hook')
      /\ h.screen.phase = "idle" => hook'.screen.phase = "idle"
  BY <1>1, BecomesKept
<1>3. page' \in Pages /\ session' \in {"valid", "expired", "none"}
  BY <1>1
<1>4. ~page'.drawer => InlineFits(hook') /\ (~shown' => hook'.screen.phase = "idle")
  BY <1>2
<1>5. hook' \in Hooks
  BY <1>2 DEF HookInv
<1>6. Scanner!TypeOK'
  BY <1>2, <1>3, <1>5 DEF Hooks, Screens, Calls, Scanner!TypeOK
<1>7. QED
  BY <1>2, <1>4, <1>6 DEF ScannerInv, InlineInv

(* One that does not.                                                       *)
LEMMA SameHook ==
    ASSUME ScannerInv, UNCHANGED <<page, hook, tapped, landed>>, shown' \in BOOLEAN,
           session' \in {"valid", "expired", "none"}, ~page.drawer => (shown => shown')
    PROVE  ScannerInv'
<1>1. page' \in Pages /\ hook' \in Hooks /\ tapped' \subseteq Tags /\ landed' \in BOOLEAN
  BY ScannerKnown
<1>2. Scanner!TypeOK'
  BY <1>1 DEF Hooks, Screens, Calls, Scanner!TypeOK
<1>3. QED
  BY <1>2 DEF ScannerInv, InlineInv

(* The buttons.                                                             *)
LEMMA OpenKept == ASSUME ScannerInv, Scanner!Open PROVE ScannerInv'
<1>1. ~shown /\ shown' = TRUE /\ Scanner!HasSlot(hook) /\ UNCHANGED <<page, session>>
  BY DEF Scanner!Open
<1>2. CASE page.autoScan
  <2>1. PICK g : g = Scanner!Scan(hook)
    OBVIOUS
  <2>2. Scanner!Becomes(g)
    BY <1>2, <2>1 DEF Scanner!Open
  <2>3. HookInv(hook, tapped, landed) /\ (~page.drawer => InlineFits(hook) /\ hook.screen.phase = "idle")
    BY <1>1, ScannerKnown
  <2>4. /\ HookInv(g, tapped, landed)
        /\ InlineFits(hook) /\ hook.screen.phase = "idle" => InlineFits(g)
        /\ \A i \in Slots : Live(g, i) => g.ops[i].at # "answer"
    BY <1>1, <2>1, <2>3, ScanKept
  <2>5. QED
    BY <1>1, <2>2, <2>3, <2>4, TurnKept
<1>3. CASE ~page.autoScan
  <2>1. UNCHANGED <<page, session, hook, tapped, landed>>
    BY <1>1, <1>3 DEF Scanner!Open
  <2>2. shown' \in BOOLEAN /\ shown' /\ session' \in {"valid", "expired", "none"}
    BY <1>1, ScannerKnown
  <2>3. QED
    BY <2>1, <2>2, SameHook
<1>4. QED
  BY <1>2, <1>3

LEMMA CloseKept == ASSUME ScannerInv, Scanner!Close PROVE ScannerInv'
  BY SameHook, ScannerKnown DEF Scanner!Close

LEMMA SessionKept == ASSUME ScannerInv, Scanner!SessionChanges PROVE ScannerInv'
  BY SameHook, ScannerKnown DEF Scanner!SessionChanges

LEMMA ScansKept == ASSUME ScannerInv, Scanner!PressScan \/ Scanner!RetryScan PROVE ScannerInv'
<1>1. shown /\ Scanner!HasSlot(hook) /\ UNCHANGED <<page, shown, session>>
  BY DEF Scanner!PressScan, Scanner!RetryScan, Scanner!Turn
<1>2. PICK h : /\ HookInv(h, tapped, landed) /\ Scanner!HasSlot(h) /\ h.screen.phase = "idle"
               /\ InlineFits(hook) => InlineFits(h)
               /\ Scanner!Becomes(Scanner!Scan(h))
  <2>1. CASE Scanner!PressScan
    BY <1>1, <2>1, ScannerKnown DEF Scanner!PressScan, Scanner!Turn
  <2>2. CASE Scanner!RetryScan
    <3>1. PICK h : h = Scanner!Reset(hook)
      OBVIOUS
    <3>2. Scanner!Becomes(Scanner!Scan(h))
      BY <2>2, <3>1 DEF Scanner!RetryScan, Scanner!Turn
    <3>3. HookInv(hook, tapped, landed)
      BY ScannerKnown
    <3>4. /\ HookInv(h, tapped, landed) /\ h.screen.phase = "idle" /\ (InlineFits(hook) => InlineFits(h))
          /\ Scanner!HasSlot(h)
      BY <1>1, <3>1, <3>3, ResetKept
    <3>5. QED
      BY <3>2, <3>4
  <2>3. QED
    BY <2>1, <2>2
<1>3. PICK g : g = Scanner!Scan(h)
  OBVIOUS
<1>4. /\ HookInv(g, tapped, landed) /\ (InlineFits(h) => InlineFits(g))
      /\ \A i \in Slots : Live(g, i) => g.ops[i].at # "answer"
  BY <1>2, <1>3, ScanKept
<1>5. shown' \in BOOLEAN /\ shown'
  BY <1>1, ScannerKnown
<1>6. QED
  BY <1>1, <1>2, <1>3, <1>4, <1>5, ScannerKnown, TurnKept

LEMMA StopsKept == ASSUME ScannerInv, Scanner!Skip \/ Scanner!PressCancel PROVE ScannerInv'
<1>1. shown /\ shown' \in BOOLEAN /\ shown' /\ UNCHANGED <<page, shown, session>> /\ HookInv(hook, tapped, landed)
  BY ScannerKnown DEF Scanner!Skip, Scanner!PressCancel, Scanner!Turn
<1>2. PICK g : /\ HookInv(g, tapped, landed) /\ (InlineFits(hook) => InlineFits(g))
               /\ g.screen.phase # "writing" /\ Scanner!Becomes(g)
  <2>1. CASE Scanner!Skip
    <3>1. PICK g : g = Scanner!Reset(hook)
      OBVIOUS
    <3>2. Scanner!Becomes(g)
      BY <2>1, <3>1 DEF Scanner!Skip, Scanner!Turn
    <3>3. HookInv(g, tapped, landed) /\ g.screen.phase = "idle" /\ (InlineFits(hook) => InlineFits(g))
      BY <1>1, <3>1, ResetKept
    <3>4. QED
      BY <3>2, <3>3
  <2>2. CASE Scanner!PressCancel
    <3>1. PICK g : g = Scanner!Cancel(hook)
      OBVIOUS
    <3>2. Scanner!Becomes(g)
      BY <2>2, <3>1 DEF Scanner!PressCancel, Scanner!Turn
    <3>3. HookInv(g, tapped, landed) /\ g.screen.phase # "writing" /\ (InlineFits(hook) => InlineFits(g))
      BY <1>1, <3>1, CancelKept
    <3>4. QED
      BY <3>2, <3>3
  <2>3. QED
    BY <2>1, <2>2
<1>3. QED
  BY <1>1, <1>2, ScannerKnown, TurnKept

LEMMA WritesKept == ASSUME ScannerInv, Scanner!PressWrite \/ Scanner!TapAgain PROVE ScannerInv'
<1>1. /\ shown /\ shown' \in BOOLEAN /\ shown' /\ UNCHANGED <<page, shown, session>>
      /\ HookInv(hook, tapped, landed) /\ Scanner!HasSlot(hook)
  BY ScannerKnown DEF Scanner!PressWrite, Scanner!TapAgain, Scanner!Turn
<1>2. PICK g : /\ HookInv(g, tapped, landed) /\ (InlineFits(hook) => InlineFits(g))
               /\ \A i \in Slots : Live(g, i) => g.ops[i].at # "answer"
               /\ Scanner!Becomes(g)
  <2>1. CASE Scanner!PressWrite
    <3>1. PICK g : g = Scanner!Write(hook)
      OBVIOUS
    <3>2. Scanner!Becomes(g) /\ hook.screen.phase = "ready" /\ hook.screen.payload # NoTag
      BY <2>1, <3>1 DEF Scanner!PressWrite, Scanner!Turn
    <3>3. /\ HookInv(g, tapped, landed) /\ (InlineFits(hook) => InlineFits(g))
          /\ \A i \in Slots : Live(g, i) => g.ops[i].at # "answer"
      BY <1>1, <3>1, <3>2, WriteKept
    <3>4. QED
      BY <3>2, <3>3
  <2>2. CASE Scanner!TapAgain
    <3>1. PICK g : g = Scanner!RetryWrite(hook)
      OBVIOUS
    <3>2. Scanner!Becomes(g) /\ hook.screen.phase = "write_pending_retry" /\ hook.pending # NoTag
      BY <2>2, <3>1 DEF Scanner!TapAgain, Scanner!Turn
    <3>3. /\ HookInv(g, tapped, landed) /\ (InlineFits(hook) => InlineFits(g))
          /\ \A i \in Slots : Live(g, i) => g.ops[i].at # "answer"
      BY <1>1, <3>1, <3>2, RetryWriteKept
    <3>4. QED
      BY <3>2, <3>3
  <2>3. QED
    BY <2>1, <2>2
<1>3. QED
  BY <1>1, <1>2, ScannerKnown, TurnKept

(* The timer.                                                               *)
LEMMA ExpiresKept == ASSUME ScannerInv, Scanner!PendingExpires PROVE ScannerInv'
<1>1. PICK s \in Screens : s = Scanner!Erred(hook.screen, TRUE)
  <2>1. PICK yes \in BOOLEAN : yes = TRUE
    OBVIOUS
  <2>2. QED
    BY <2>1, ScannerKnown, ErredFacts
<1>2. /\ s.raw = hook.screen.raw /\ s.payload = hook.screen.payload
      /\ s.phase = IF hook.screen.phase \in Scanner!Active THEN "error" ELSE hook.screen.phase
  <2>1. PICK yes \in BOOLEAN : yes = TRUE
    OBVIOUS
  <2>2. QED
    BY <1>1, <2>1, ScannerKnown, ErredFacts
<1>3. PICK g : g = [hook EXCEPT !.timer = FALSE, !.pending = NoTag, !.screen = s]
  OBVIOUS
<1>4. /\ g \in Hooks /\ g.ops = hook.ops /\ g.current = hook.current /\ g.screen = s
      /\ g.timer = FALSE /\ g.pending = NoTag
  BY <1>3, ScannerKnown DEF Hooks
<1>5. hook.timer /\ Scanner!Becomes(g) /\ UNCHANGED <<page, shown, session>>
  BY <1>1, <1>3 DEF Scanner!PendingExpires, Scanner!Turn
<1>6. LiveFits(g, tapped, landed)
  BY <1>2, <1>4, ScannerKnown DEF LiveFits, Live, Scanner!Active, Scanner!Waiting
<1>7. ShownIsTrue(g, tapped, landed)
  BY <1>2, <1>4, ScannerKnown DEF ShownIsTrue, Scanner!Active, Scanner!Waiting
<1>8. ~page.drawer => InlineFits(g) /\ (~shown' => g.screen.phase = "idle")
  <2> SUFFICES ASSUME ~page.drawer PROVE InlineFits(g) /\ (~shown' => g.screen.phase = "idle")
    OBVIOUS
  <2>1. InlineFits(hook) /\ hook.screen.phase = "write_pending_retry" /\ (~shown => hook.screen.phase = "idle")
    BY <1>5, ScannerKnown DEF InlineFits
  <2>2. \A i \in Slots : ~Live(hook, i)
    BY <2>1, ScannerKnown DEF InlineFits, LiveFits, Calls, Live
  <2>3. QED
    BY <1>4, <1>5, <2>1, <2>2 DEF InlineFits, Live
<1>9. g.screen.phase # "writing"
  BY <1>2, <1>4 DEF Scanner!Active, Scanner!Waiting
<1>10. QED
  BY <1>4, <1>5, <1>6, <1>7, <1>8, <1>9, ScannerKnown, TurnKept DEF HookInv

(* What the browser answers.                                                *)
WithCall(h, i, call) == [h EXCEPT !.ops[i] = call]

LEMMA CallFacts ==
    ASSUME NEW h \in Hooks, NEW i \in Slots, NEW call \in Calls, NEW g, g = WithCall(h, i, call)
    PROVE  /\ g \in Hooks /\ g.screen = h.screen
           /\ g.current = h.current /\ g.pending = h.pending /\ g.timer = h.timer
           /\ g.ops[i] = call /\ \A j \in Slots \ {i} : g.ops[j] = h.ops[j]
<1>1. PICK o \in [Slots -> Calls] : o = [h.ops EXCEPT ![i] = call]
  BY DEF Hooks
<1>2. g = [h EXCEPT !.ops = o]
  BY <1>1 DEF WithCall
<1>3. QED
  BY <1>1, <1>2 DEF Hooks

LEMMA DoneFacts ==
    ASSUME NEW h \in Hooks, NEW i \in Slots, NEW g, g = Scanner!Done(h, i)
    PROVE  /\ g \in Hooks /\ g.screen = h.screen
           /\ g.current = h.current /\ g.pending = h.pending /\ g.timer = h.timer
           /\ g.ops[i] = FreeCall /\ \A j \in Slots \ {i} : g.ops[j] = h.ops[j]
<1>1. g = WithCall(h, i, FreeCall)
  BY DEF Scanner!Done, WithCall, Scanner!Free, FreeCall
<1>2. FreeCall \in Calls
  BY DEF FreeCall, Calls
<1>3. QED
  BY <1>1, <1>2, CallFacts

(* Taking a call off, aborted or not, changes nothing of what is shown.     *)
LEMMA DoneKept ==
    ASSUME NEW h, NEW i \in Slots, NEW T, NEW L, HookInv(h, T, L), NEW g, g = Scanner!Done(h, i)
    PROVE  HookInv(g, T, L) /\ (InlineFits(h) => InlineFits(g)) /\ g.screen = h.screen
<1>1. h \in Hooks /\ LiveFits(h, T, L) /\ ShownIsTrue(h, T, L)
  BY DEF HookInv
<1>2. /\ g \in Hooks /\ g.screen = h.screen
      /\ g.current = h.current /\ g.pending = h.pending /\ g.timer = h.timer
      /\ g.ops[i] = FreeCall /\ \A j \in Slots \ {i} : g.ops[j] = h.ops[j]
  BY <1>1, DoneFacts
<1>3. QED
  BY <1>1, <1>2 DEF HookInv, LiveFits, ShownIsTrue, InlineFits, Live, FreeCall

(* No two calls are live.                                                   *)
LEMMA OnlyLive ==
    ASSUME ScannerInv, NEW i \in Slots, Live(hook, i)
    PROVE  i = hook.current /\ \A j \in Slots : Live(hook, j) => j = i
  BY ScannerKnown DEF LiveFits

LEMMA StartedKept == ASSUME ScannerInv, NEW i \in Slots, Scanner!Started(i) PROVE ScannerInv'
<1>1. hook.ops[i].at = "starting" /\ UNCHANGED <<page, shown, session>> /\ HookInv(hook, tapped, landed)
  BY ScannerKnown DEF Scanner!Started, Scanner!At, Scanner!Turn
<1>2. CASE Scanner!Turn(Scanner!RejectScan(hook, i))
  <2>1. PICK g : g = Scanner!RejectScan(hook, i)
    OBVIOUS
  <2>2. HookInv(g, tapped, landed) /\ Quieter(g, hook) /\ (InlineFits(hook) => InlineFits(g)) /\ Scanner!Becomes(g)
    BY <1>1, <1>2, <2>1, RejectScanKept DEF Scanner!Turn
  <2>3. QED
    BY <1>1, <2>2, ScannerKnown, TurnKept DEF Quieter
<1>3. CASE Scanner!Turn([hook EXCEPT !.ops[i].at = "listening"])
  <2>1. PICK call \in Calls : call = [hook.ops[i] EXCEPT !.at = "listening"]
    BY ScannerKnown DEF Calls
  <2>2. call.at = "listening" /\ call.aborted = hook.ops[i].aborted
    BY <2>1, ScannerKnown DEF Calls
  <2>3. PICK g : g = WithCall(hook, i, call)
    OBVIOUS
  <2>4. Scanner!Becomes(g)
    BY <1>3, <2>1, <2>3 DEF Scanner!Turn, WithCall
  <2>5. /\ g \in Hooks /\ g.screen = hook.screen
        /\ g.current = hook.current /\ g.pending = hook.pending /\ g.timer = hook.timer
        /\ g.ops[i] = call /\ \A j \in Slots \ {i} : g.ops[j] = hook.ops[j]
    <3>1. hook \in Hooks /\ call \in Calls
      BY <2>1, ScannerKnown
    <3>2. QED
      BY <2>3, <3>1, CallFacts
  <2>6. LiveFits(g, tapped, landed)
    BY <1>1, <2>2, <2>5, ScannerKnown DEF LiveFits, Live
  <2>7. ShownIsTrue(g, tapped, landed)
    BY <2>5, ScannerKnown DEF ShownIsTrue
  <2>8. InlineFits(hook) => InlineFits(g)
    BY <1>1, <2>2, <2>5 DEF InlineFits, Live
  <2>9. QED
    BY <1>1, <2>4, <2>5, <2>6, <2>7, <2>8, ScannerKnown, TurnKept DEF HookInv
<1>4. QED
  BY <1>2, <1>3 DEF Scanner!Started

LEMMA CheckedKept == ASSUME ScannerInv, NEW i \in Slots, Scanner!Checked(i) PROVE ScannerInv'
<1>1. /\ hook.ops[i].at = "checking" /\ UNCHANGED <<page, shown, session>> /\ HookInv(hook, tapped, landed)
      /\ Scanner!Becomes(Scanner!AfterCheck(i, hook.ops[i]))
  BY ScannerKnown DEF Scanner!Checked, Scanner!At, Scanner!Turn
<1>2. PICK g : g = Scanner!AfterCheck(i, hook.ops[i])
  OBVIOUS
<1>3. /\ HookInv(g, tapped, landed) /\ (g.screen.phase = "writing" => hook.screen.phase = "writing")
      /\ hook.screen.phase = "idle" => g.screen.phase = "idle"
      /\ InlineFits(hook) => InlineFits(g)
  <2>1. CASE hook.ops[i].aborted
    <3>1. g = Scanner!Done(hook, i)
      BY <1>2, <2>1 DEF Scanner!AfterCheck
    <3>2. QED
      BY <1>1, <3>1, DoneKept
  <2>2. CASE ~hook.ops[i].aborted /\ ~Content[hook.ops[i].card].genuine
    <3>1. PICK no \in BOOLEAN : no = FALSE
      OBVIOUS
    <3>2. g = Scanner!Fail(hook, i, no)
      BY <1>2, <2>2, <3>1 DEF Scanner!AfterCheck
    <3>3. QED
      BY <1>1, <3>2, FailKept DEF Quieter
  <2>3. CASE ~hook.ops[i].aborted /\ Content[hook.ops[i].card].genuine
    <3>1. PICK d : d = Scanner!Done(hook, i)
      OBVIOUS
    <3>2. /\ d \in Hooks /\ d.screen = hook.screen
          /\ d.current = hook.current /\ d.pending = hook.pending /\ d.timer = hook.timer
          /\ d.ops[i] = FreeCall /\ \A j \in Slots \ {i} : d.ops[j] = hook.ops[j]
      BY <3>1, ScannerKnown, DoneFacts
    <3>3. Live(hook, i) /\ hook.ops[i].card \in tapped /\ hook.screen.phase \notin {"idle", "scanning"}
      BY <1>1, <2>3, ScannerKnown DEF Live, LiveFits
    <3>4. PICK read \in tapped : read = hook.ops[i].card
      BY <3>3
    <3>5. PICK s \in Screens : s = Scanner!Validated(hook.screen, read)
      BY ScannerKnown DEF Scanner!Validated, Screens
    <3>6. /\ s.raw = hook.screen.raw /\ s.payload \in {hook.screen.payload, read}
          /\ s.phase = IF hook.screen.phase = "validating" THEN "ready" ELSE hook.screen.phase
      BY <3>5, ScannerKnown DEF Scanner!Validated, Screens
    <3>7. g = Showing(d, s)
      BY <1>2, <2>3, <3>1, <3>2, <3>4, <3>5 DEF Scanner!AfterCheck, Showing
    <3>8. /\ g \in Hooks /\ g.screen = s /\ g.ops = d.ops
          /\ g.pending = hook.pending /\ g.timer = hook.timer
      BY <3>2, <3>7 DEF Hooks, Showing
    <3>9. \A j \in Slots : ~Live(g, j)
      BY <3>2, <3>3, <3>8, OnlyLive DEF Live, FreeCall
    <3>10. HookInv(g, tapped, landed)
      BY <3>3, <3>4, <3>6, <3>8, <3>9, ScannerKnown DEF HookInv, LiveFits, ShownIsTrue
    <3>11. InlineFits(hook) => InlineFits(g)
      BY <1>1, <3>2, <3>3, <3>6, <3>8, <3>9 DEF InlineFits, FreeCall
    <3>12. QED
      BY <3>3, <3>6, <3>8, <3>10, <3>11
  <2>4. QED
    BY <2>1, <2>2, <2>3
<1>4. QED
  BY <1>1, <1>2, <1>3, ScannerKnown, TurnKept

LEMMA PreparedKept == ASSUME ScannerInv, NEW i \in Slots, Scanner!Prepared(i) PROVE ScannerInv'
<1>1. hook.ops[i].at = "preparing" /\ UNCHANGED <<page, shown, session>> /\ HookInv(hook, tapped, landed)
  BY ScannerKnown DEF Scanner!Prepared, Scanner!At, Scanner!Turn
<1>2. PICK g : /\ \/ g = Scanner!Fail(hook, i, TRUE)
                  \/ hook.ops[i].aborted /\ g = Scanner!Done(hook, i)
                  \/ ~hook.ops[i].aborted
                     /\ g = [hook EXCEPT !.ops[i].at = "writing", !.pending = hook.ops[i].card]
               /\ Scanner!Becomes(g)
  BY DEF Scanner!Prepared, Scanner!Turn
<1>3. /\ HookInv(g, tapped, landed) /\ (g.screen.phase = "writing" => hook.screen.phase = "writing")
      /\ hook.screen.phase = "idle" => g.screen.phase = "idle"
      /\ InlineFits(hook) => InlineFits(g)
  <2>1. CASE g = Scanner!Fail(hook, i, TRUE)
    <3>1. PICK yes \in BOOLEAN : yes = TRUE
      OBVIOUS
    <3>2. g = Scanner!Fail(hook, i, yes)
      BY <2>1, <3>1
    <3>3. QED
      BY <1>1, <3>2, FailKept DEF Quieter
  <2>2. CASE g = Scanner!Done(hook, i)
    BY <1>1, <2>2, DoneKept
  <2>3. CASE ~hook.ops[i].aborted /\ g = [hook EXCEPT !.ops[i].at = "writing", !.pending = hook.ops[i].card]
    <3>1. PICK call \in Calls : call = [hook.ops[i] EXCEPT !.at = "writing"]
      BY ScannerKnown DEF Calls
    <3>2. /\ call.at = "writing" /\ call.aborted = hook.ops[i].aborted /\ call.card = hook.ops[i].card
          /\ hook.ops[i].card \in Tags \cup {NoTag}
      BY <3>1, ScannerKnown DEF Calls
    <3>3. PICK w : w = WithCall(hook, i, call)
      OBVIOUS
    <3>4. g = [w EXCEPT !.pending = hook.ops[i].card]
      BY <2>3, <3>1, <3>3 DEF WithCall
    <3>5. /\ w \in Hooks /\ w.screen = hook.screen
          /\ w.current = hook.current /\ w.pending = hook.pending /\ w.timer = hook.timer
          /\ w.ops[i] = call /\ \A j \in Slots \ {i} : w.ops[j] = hook.ops[j]
      <4>1. hook \in Hooks /\ call \in Calls
        BY <3>1, ScannerKnown
      <4>2. QED
        BY <3>3, <4>1, CallFacts
    <3>6. /\ g \in Hooks /\ g.screen = hook.screen /\ g.current = hook.current /\ g.timer = hook.timer
          /\ g.ops = w.ops /\ g.pending = hook.ops[i].card
      BY <3>2, <3>4, <3>5 DEF Hooks
    <3>7. /\ Live(hook, i) /\ hook.ops[i].card # NoTag /\ i = hook.current
          /\ hook.screen.phase \notin {"idle", "scanning", "write_pending_retry"}
      BY <1>1, <2>3, ScannerKnown DEF Live, LiveFits
    <3>8. \A j \in Slots : Live(g, j) => j = i
      BY <3>5, <3>6, <3>7, OnlyLive DEF Live
    <3>9. HookInv(g, tapped, landed)
      BY <3>2, <3>5, <3>6, <3>7, <3>8, ScannerKnown DEF HookInv, LiveFits, ShownIsTrue
    <3>10. ASSUME InlineFits(hook) PROVE InlineFits(g)
      <4>1. ~hook.timer /\ hook.screen.phase = "writing"
        BY <1>1, <3>7, <3>10 DEF InlineFits
      <4>2. \A j \in Slots : g.ops[j].aborted => g.ops[j].at \in {"checking", "preparing", "answer", "refused"}
        BY <2>3, <3>2, <3>5, <3>6, <3>10 DEF InlineFits
      <4>3. QED
        BY <3>2, <3>5, <3>6, <3>8, <4>1, <4>2 DEF InlineFits
    <3>11. QED
      BY <3>6, <3>9, <3>10
  <2>4. QED
    BY <1>2, <2>1, <2>2, <2>3
<1>4. QED
  BY <1>1, <1>2, <1>3, ScannerKnown, TurnKept

LEMMA AnsweredKept == ASSUME ScannerInv, NEW i \in Slots, Scanner!Answered(i) PROVE ScannerInv'
<1>1. hook.ops[i].at = "answer" /\ UNCHANGED <<page, shown, session>> /\ HookInv(hook, tapped, landed)
  BY ScannerKnown DEF Scanner!Answered, Scanner!At, Scanner!Turn
<1>2. PICK d : d = Scanner!Done(hook, i)
  OBVIOUS
<1>3. /\ d \in Hooks /\ d.screen = hook.screen
      /\ d.current = hook.current /\ d.pending = hook.pending /\ d.timer = hook.timer
      /\ d.ops[i] = FreeCall /\ \A j \in Slots \ {i} : d.ops[j] = hook.ops[j]
  BY <1>2, ScannerKnown, DoneFacts
<1>4. PICK s, t \in Screens : /\ s = Scanner!Goes(hook.screen, {"writing"}, "success")
                              /\ t = Scanner!Goes(hook.screen, {"writing"}, "write_pending_retry")
  BY ScannerKnown DEF Scanner!Goes, Screens, Scanner!Active, Scanner!Waiting
<1>5. /\ s.raw = hook.screen.raw /\ s.payload = hook.screen.payload
      /\ s.phase = IF hook.screen.phase = "writing" THEN "success" ELSE hook.screen.phase
      /\ t.raw = hook.screen.raw /\ t.payload = hook.screen.payload
      /\ t.phase = IF hook.screen.phase = "writing" THEN "write_pending_retry" ELSE hook.screen.phase
  BY <1>4, ScannerKnown DEF Scanner!Goes, Screens
<1>6. PICK g : /\ \/ hook.ops[i].aborted /\ g = d
                  \/ /\ ~hook.ops[i].aborted /\ hook.ops[i].ok
                     /\ g = [d EXCEPT !.pending = NoTag, !.timer = FALSE, !.screen = s]
                  \/ /\ ~hook.ops[i].aborted /\ ~hook.ops[i].ok
                     /\ g = [d EXCEPT !.timer = TRUE, !.screen = t]
               /\ Scanner!Becomes(g)
  BY <1>2, <1>3, <1>4 DEF Scanner!Answered, Scanner!Turn
<1>7. /\ HookInv(g, tapped, landed) /\ (g.screen.phase = "writing" => hook.screen.phase = "writing")
      /\ hook.screen.phase = "idle" => g.screen.phase = "idle"
      /\ InlineFits(hook) => InlineFits(g)
  <2>1. CASE hook.ops[i].aborted
    BY <1>1, <1>2, <1>6, <2>1, DoneKept
  <2>2. CASE ~hook.ops[i].aborted
    <3>1. /\ Live(hook, i) /\ i = hook.current /\ (hook.ops[i].ok => landed)
          /\ hook.screen.phase = "writing" => hook.pending # NoTag
          /\ hook.screen.phase \notin {"idle", "scanning", "write_pending_retry"}
      BY <1>1, <2>2, ScannerKnown DEF Live, LiveFits
    <3>2. \A j \in Slots : ~Live(d, j)
      BY <1>3, <3>1, OnlyLive DEF Live, FreeCall
    <3>3. CASE hook.ops[i].ok
      <4>1. /\ g \in Hooks /\ g.screen = s /\ g.ops = d.ops /\ g.timer = FALSE
        BY <1>3, <1>6, <2>2, <3>3 DEF Hooks
      <4>2. HookInv(g, tapped, landed)
        BY <1>5, <3>1, <3>2, <3>3, <4>1, ScannerKnown DEF HookInv, LiveFits, ShownIsTrue, Live
      <4>3. InlineFits(hook) => InlineFits(g)
        BY <1>3, <1>5, <3>2, <4>1 DEF InlineFits, FreeCall, Live
      <4>4. QED
        BY <1>5, <3>1, <4>1, <4>2, <4>3
    <3>4. CASE ~hook.ops[i].ok
      <4>1. /\ g \in Hooks /\ g.screen = t /\ g.ops = d.ops /\ g.timer = TRUE /\ g.pending = hook.pending
        BY <1>3, <1>6, <2>2, <3>4 DEF Hooks
      <4>2. HookInv(g, tapped, landed)
        BY <1>5, <3>1, <3>2, <3>4, <4>1, ScannerKnown DEF HookInv, LiveFits, ShownIsTrue, Live
      <4>3. InlineFits(hook) => InlineFits(g)
        BY <1>1, <1>3, <1>5, <3>1, <3>2, <4>1 DEF InlineFits, FreeCall, Live
      <4>4. QED
        BY <1>5, <3>1, <4>1, <4>2, <4>3
    <3>5. QED
      BY <3>3, <3>4
  <2>3. QED
    BY <2>1, <2>2
<1>8. QED
  BY <1>1, <1>6, <1>7, ScannerKnown, TurnKept

LEMMA TapWriteKept == ASSUME ScannerInv, NEW i \in Slots, Scanner!TapWrite(i) PROVE ScannerInv'
<1>1. PICK ok, reached \in BOOLEAN :
        /\ ok => reached
        /\ hook' = [hook EXCEPT !.ops[i].at = "answer", !.ops[i].ok = ok]
        /\ landed' = (landed \/ reached)
        /\ hook.ops[i].at = "writing" /\ UNCHANGED <<page, shown, session, tapped>>
  BY DEF Scanner!TapWrite, Scanner!At
<1>2. landed' \in BOOLEAN /\ (landed => landed') /\ (ok => landed')
  BY <1>1, Zenon
<1>3. PICK call \in Calls : call = [hook.ops[i] EXCEPT !.at = "answer", !.ok = ok]
  BY ScannerKnown DEF Calls
<1>4. call.at = "answer" /\ call.ok = ok /\ call.aborted = hook.ops[i].aborted /\ call.card = hook.ops[i].card
  BY <1>3, ScannerKnown DEF Calls
<1>5. PICK g : g = WithCall(hook, i, call)
  OBVIOUS
<1>6. hook' = g
  BY <1>1, <1>3, <1>5, ScannerKnown DEF WithCall, Hooks
<1>7. /\ g \in Hooks /\ g.screen = hook.screen
      /\ g.current = hook.current /\ g.pending = hook.pending /\ g.timer = hook.timer
      /\ g.ops[i] = call /\ \A j \in Slots \ {i} : g.ops[j] = hook.ops[j]
  <2>1. hook \in Hooks /\ call \in Calls
    BY <1>3, ScannerKnown
  <2>2. QED
    BY <1>5, <2>1, CallFacts
<1>8. LiveFits(g, tapped, landed')
  BY <1>1, <1>2, <1>4, <1>7, ScannerKnown DEF LiveFits, Live
<1>9. ShownIsTrue(g, tapped, landed')
  BY <1>2, <1>7, ScannerKnown DEF ShownIsTrue
<1>10. InlineFits(hook) => InlineFits(g)
  BY <1>1, <1>4, <1>7 DEF InlineFits, Live
<1>11. Scanner!TypeOK'
  BY <1>1, <1>2, <1>6, <1>7, ScannerKnown DEF Hooks, Screens, Calls, Scanner!TypeOK
<1>12. InlineInv'
  BY <1>1, <1>6, <1>7, <1>10, ScannerKnown DEF InlineInv
<1>13. QED
  BY <1>1, <1>6, <1>7, <1>8, <1>9, <1>11, <1>12 DEF ScannerInv, HookInv

(* What is true of the cards read so far is true of more of them.           *)
LEMMA MoreRead ==
    ASSUME NEW h, NEW T, NEW U, NEW L, HookInv(h, T, L), T \subseteq U
    PROVE  HookInv(h, U, L)
  BY DEF HookInv, LiveFits, ShownIsTrue

LEMMA TapScanKept == ASSUME ScannerInv, NEW i \in Slots, NEW c \in Tags, Scanner!TapScan(i, c) PROVE ScannerInv'
<1>1. hook.ops[i].at = "listening" /\ UNCHANGED <<page, shown, session>> /\ HookInv(hook, tapped, landed)
  BY ScannerKnown DEF Scanner!TapScan, Scanner!At, Scanner!Turn
<1>2. CASE Scanner!Turn(Scanner!Fail(hook, i, TRUE))
  <2>1. PICK yes \in BOOLEAN : yes = TRUE
    OBVIOUS
  <2>2. PICK g : g = Scanner!Fail(hook, i, yes)
    OBVIOUS
  <2>3. Scanner!Becomes(g)
    BY <1>2, <2>1, <2>2 DEF Scanner!Turn
  <2>4. HookInv(g, tapped, landed) /\ Quieter(g, hook) /\ (InlineFits(hook) => InlineFits(g))
    BY <1>1, <2>2, FailKept
  <2>5. QED
    BY <1>1, <2>3, <2>4, ScannerKnown, TurnKept DEF Quieter
<1>3. CASE hook' = Scanner!AfterClassification(i, c) /\ tapped' = tapped \cup {c} /\ landed' = landed
  <2>1. PICK U : U = tapped \cup {c}
    OBVIOUS
  <2>2. HookInv(hook, U, landed) /\ U \subseteq Tags
    BY <1>1, <2>1, MoreRead, ScannerKnown
  <2>3. PICK s \in Screens : s = Scanner!Classified(hook.screen, c)
    BY ScannerKnown DEF Scanner!Classified, Screens, Scanner!Active, Scanner!Waiting
  <2>4. \/ s = hook.screen /\ s.phase # "scanning"
        \/ /\ s.raw = c /\ s.payload = hook.screen.payload /\ hook.screen.phase = "scanning"
           /\ s.phase = IF Scanner!IsPayload(c) THEN "validating" ELSE "ready"
    BY <2>3, ScannerKnown DEF Scanner!Classified, Screens
  <2>5. PICK h : h = Showing(hook, s)
    OBVIOUS
  <2>6. /\ h \in Hooks /\ h.screen = s /\ h.ops = hook.ops
        /\ h.current = hook.current /\ h.pending = hook.pending /\ h.timer = hook.timer
    BY <2>5, ScannerKnown DEF Hooks, Showing
  <2>7. HookInv(h, U, landed)
    <3>1. LiveFits(h, U, landed)
      BY <2>2, <2>4, <2>6 DEF HookInv, LiveFits, Live
    <3>2. ShownIsTrue(h, U, landed)
      BY <2>1, <2>2, <2>4, <2>6 DEF HookInv, ShownIsTrue
    <3>3. QED
      BY <2>6, <3>1, <3>2 DEF HookInv
  <2>8. PICK g : /\ hook' = g
                 /\ \/ /\ ~Scanner!IsPayload(c) \/ page.raw
                       /\ g = Scanner!Done(h, i)
                    \/ Scanner!IsPayload(c) /\ g = [h EXCEPT !.ops[i].at = "second"]
                    \/ Scanner!IsPayload(c) /\ g = Scanner!Fail(h, i, session = "expired")
    BY <1>3, <2>3, <2>5 DEF Scanner!AfterClassification, Showing
  <2>9. ASSUME InlineFits(hook)
        PROVE  /\ Live(hook, i) /\ hook.screen.phase = "scanning" /\ \A j \in Slots : Live(h, j) => j = i
               /\ s.phase = IF Scanner!IsPayload(c) THEN "validating" ELSE "ready"
               /\ ~hook.timer
    <3>1. Live(hook, i)
      BY <1>1, <2>9 DEF InlineFits, Live
    <3>2. hook.screen.phase = "scanning"
      BY <1>1, <2>9, <3>1 DEF InlineFits
    <3>3. QED
      BY <2>4, <2>6, <2>9, <3>1, <3>2, OnlyLive DEF InlineFits, Live
  <2>10. /\ HookInv(g, U, landed)
         /\ InlineFits(hook) => InlineFits(g)
    <3>1. CASE g = Scanner!Done(h, i)
      <4>1. /\ g \in Hooks /\ g.screen = h.screen /\ g.timer = h.timer /\ g.pending = h.pending
            /\ g.ops[i] = FreeCall /\ \A j \in Slots \ {i} : g.ops[j] = h.ops[j]
        BY <2>6, <3>1, DoneFacts
      <4>2. HookInv(g, U, landed)
        BY <2>7, <3>1, DoneKept
      <4>3. ASSUME InlineFits(hook) PROVE InlineFits(g)
        <5>1. \A j \in Slots : ~Live(g, j)
          BY <2>9, <4>1, <4>3 DEF Live, FreeCall
        <5>2. QED
          BY <2>6, <2>9, <4>1, <4>3, <5>1 DEF InlineFits, FreeCall
      <4>4. QED
        BY <4>2, <4>3
    <3>2. CASE Scanner!IsPayload(c) /\ g = [h EXCEPT !.ops[i].at = "second"]
      <4>1. PICK call \in Calls : call = [h.ops[i] EXCEPT !.at = "second"]
        <5>1. h.ops[i] \in Calls
          BY <2>6, ScannerKnown
        <5>2. QED
          BY <5>1 DEF Calls
      <4>2. call.at = "second" /\ call.aborted = hook.ops[i].aborted
        BY <2>6, <4>1, ScannerKnown DEF Calls
      <4>3. g = WithCall(h, i, call)
        BY <3>2, <4>1 DEF WithCall
      <4>4. /\ g \in Hooks /\ g.screen = h.screen
            /\ g.current = h.current /\ g.pending = h.pending /\ g.timer = h.timer
            /\ g.ops[i] = call /\ \A j \in Slots \ {i} : g.ops[j] = h.ops[j]
        <5>1. call \in Calls
          BY <4>1
        <5>2. QED
          BY <2>6, <4>3, <5>1, CallFacts
      <4>5. LiveFits(g, U, landed)
        BY <1>1, <2>4, <2>6, <2>7, <4>2, <4>4 DEF HookInv, LiveFits, Live
      <4>6. ShownIsTrue(g, U, landed)
        BY <2>7, <4>4 DEF HookInv, ShownIsTrue
      <4>7. ASSUME InlineFits(hook) PROVE InlineFits(g)
        <5>1. \A j \in Slots : Live(g, j) => j = i
          BY <2>9, <4>4, <4>7 DEF Live
        <5>2. QED
          BY <2>6, <2>9, <3>2, <4>2, <4>4, <4>7, <5>1 DEF InlineFits, Live
      <4>8. QED
        BY <4>4, <4>5, <4>6, <4>7 DEF HookInv
    <3>3. CASE Scanner!IsPayload(c) /\ g = Scanner!Fail(h, i, session = "expired")
      <4>1. PICK r \in BOOLEAN : r = (session = "expired")
        OBVIOUS
      <4>2. g = Scanner!Fail(h, i, r)
        BY <3>3, <4>1
      <4>3. HookInv(g, U, landed)
        BY <2>7, <4>2, FailKept
      <4>4. ASSUME InlineFits(hook) PROVE InlineFits(g)
        <5>1. /\ g.timer = h.timer /\ g.ops[i] = FreeCall /\ \A j \in Slots \ {i} : g.ops[j] = h.ops[j]
          BY <2>6, <4>2, FailFacts
        <5>2. \A j \in Slots : ~Live(g, j)
          BY <2>9, <4>4, <5>1 DEF Live, FreeCall
        <5>3. QED
          BY <2>6, <2>9, <4>4, <5>1, <5>2 DEF InlineFits, FreeCall
      <4>5. QED
        BY <4>3, <4>4
    <3>4. QED
      BY <2>8, <3>1, <3>2, <3>3
  <2>11. Scanner!TypeOK'
    <3>1. g \in Hooks
      BY <2>10 DEF HookInv
    <3>2. QED
      BY <1>1, <1>3, <2>1, <2>2, <2>8, <3>1, ScannerKnown DEF Hooks, Screens, Calls, Scanner!TypeOK
  <2>12. InlineInv'
    <3> SUFFICES ASSUME ~page.drawer PROVE InlineFits(g) /\ shown
      BY <1>1, <2>8 DEF InlineInv
    <3>1. InlineFits(hook)
      BY ScannerKnown
    <3>2. QED
      BY <2>9, <2>10, <3>1, ScannerKnown
  <2>13. QED
    BY <1>3, <2>1, <2>8, <2>10, <2>11, <2>12 DEF ScannerInv
<1>4. QED
  BY <1>2, <1>3 DEF Scanner!TapScan

LEMMA TapSecondKept == ASSUME ScannerInv, NEW i \in Slots, NEW c \in Tags, Scanner!TapSecond(i, c) PROVE ScannerInv'
<1>1. /\ hook.ops[i].at = "second" /\ UNCHANGED <<page, shown, session, landed>> /\ HookInv(hook, tapped, landed)
      /\ tapped' = tapped \cup {c}
  BY ScannerKnown DEF Scanner!TapSecond, Scanner!At
<1>2. PICK U : U = tapped \cup {c}
  OBVIOUS
<1>3. HookInv(hook, U, landed) /\ U \subseteq Tags
  BY <1>1, <1>2, MoreRead, ScannerKnown
<1>4. PICK g : /\ hook' = g
               /\ \/ g = [hook EXCEPT !.ops[i].at = "checking", !.ops[i].card = c]
                  \/ g = Scanner!Fail(hook, i, FALSE)
  BY DEF Scanner!TapSecond
<1>5. /\ HookInv(g, U, landed) /\ (InlineFits(hook) => InlineFits(g))
      /\ hook.screen.phase = "idle" => g.screen.phase = "idle"
  <2>1. CASE g = Scanner!Fail(hook, i, FALSE)
    <3>1. PICK no \in BOOLEAN : no = FALSE
      OBVIOUS
    <3>2. g = Scanner!Fail(hook, i, no)
      BY <2>1, <3>1
    <3>3. QED
      BY <1>1, <1>3, <3>2, FailKept DEF Quieter
  <2>2. CASE g = [hook EXCEPT !.ops[i].at = "checking", !.ops[i].card = c]
    <3>1. PICK call \in Calls : call = [hook.ops[i] EXCEPT !.at = "checking", !.card = c]
      BY ScannerKnown DEF Calls
    <3>2. call.at = "checking" /\ call.aborted = hook.ops[i].aborted /\ call.card = c
      BY <3>1, ScannerKnown DEF Calls
    <3>3. g = WithCall(hook, i, call)
      BY <2>2, <3>1, ScannerKnown DEF WithCall, Hooks
    <3>4. /\ g \in Hooks /\ g.screen = hook.screen
          /\ g.current = hook.current /\ g.pending = hook.pending /\ g.timer = hook.timer
          /\ g.ops[i] = call /\ \A j \in Slots \ {i} : g.ops[j] = hook.ops[j]
      <4>1. hook \in Hooks /\ call \in Calls
        BY <3>1, ScannerKnown
      <4>2. QED
        BY <3>3, <4>1, CallFacts
    <3>5. LiveFits(g, U, landed)
      BY <1>1, <1>2, <1>3, <3>2, <3>4 DEF HookInv, LiveFits, Live
    <3>6. ShownIsTrue(g, U, landed)
      BY <1>3, <3>4 DEF HookInv, ShownIsTrue
    <3>7. InlineFits(hook) => InlineFits(g)
      BY <1>1, <3>2, <3>4 DEF InlineFits, Live
    <3>8. QED
      BY <3>4, <3>5, <3>6, <3>7 DEF HookInv
  <2>3. QED
    BY <1>4, <2>1, <2>2
<1>6. Scanner!TypeOK'
  <2>1. g \in Hooks
    BY <1>5 DEF HookInv
  <2>2. QED
    BY <1>1, <1>2, <1>3, <1>4, <2>1, ScannerKnown DEF Hooks, Screens, Calls, Scanner!TypeOK
<1>7. InlineInv'
  BY <1>1, <1>4, <1>5, ScannerKnown DEF InlineInv
<1>8. QED
  BY <1>1, <1>2, <1>4, <1>5, <1>6, <1>7 DEF ScannerInv

LEMMA ScannerStarts == Scanner!Init => ScannerInv
<1> SUFFICES ASSUME Scanner!Init PROVE ScannerInv
  OBVIOUS
<1>1. hook = Scanner!NoHook /\ tapped = {} /\ landed = FALSE /\ page \in Pages /\ shown = FALSE
      /\ session \in {"valid", "expired", "none"}
  BY DEF Scanner!Init
<1>2. /\ hook \in Hooks /\ hook.screen.phase = "idle" /\ hook.screen.raw = NoTag /\ hook.screen.payload = NoTag
      /\ hook.timer = FALSE /\ \A i \in Slots : hook.ops[i] = FreeCall
  BY <1>1 DEF Scanner!NoHook, Scanner!Blank, Scanner!Free, Hooks, Screens, Calls, FreeCall
<1>3. \A i \in Slots : ~Live(hook, i)
  BY <1>2 DEF Live, FreeCall
<1>4. HookInv(hook, tapped, landed)
  BY <1>1, <1>2, <1>3 DEF HookInv, LiveFits, ShownIsTrue
<1>5. InlineFits(hook)
  BY <1>2, <1>3 DEF InlineFits, FreeCall
<1>6. QED
  BY <1>1, <1>2, <1>4, <1>5, ScannerRebuilt

LEMMA ScannerKept ==
    ASSUME ScannerInv, Scanner!Next \/ UNCHANGED scannerVars
    PROVE  ScannerInv'
<1>1. CASE UNCHANGED scannerVars
  BY <1>1 DEF scannerVars, ScannerInv, InlineInv, Scanner!TypeOK
<1>2. CASE Scanner!Close \/ Scanner!AutoClose
  BY <1>2, CloseKept DEF Scanner!AutoClose
<1>3. ASSUME NEW i \in Slots, NEW c \in Tags, Scanner!TapScan(i, c) \/ Scanner!TapSecond(i, c)
      PROVE  ScannerInv'
  BY <1>3, TapScanKept, TapSecondKept
<1>4. ASSUME NEW i \in Slots,
             \/ Scanner!Started(i) \/ Scanner!Checked(i) \/ Scanner!Prepared(i)
             \/ Scanner!TapWrite(i) \/ Scanner!Answered(i)
      PROVE  ScannerInv'
  BY <1>4, StartedKept, CheckedKept, PreparedKept, TapWriteKept, AnsweredKept
<1>5. QED
  BY <1>1, <1>2, <1>3, <1>4, OpenKept, SessionKept, ScansKept, StopsKept, WritesKept, ExpiresKept DEF Scanner!Next

(* The scanner shows only what was read since the scan began, says          *)
(* "success" only after bytes have reached a card, and asks for another tap *)
(* only while it has the bytes and the timer runs.                          *)
THEOREM ScreenTrue == ScreensSpec => []ScreenIsTrue
<1>1. ScreensInit => ScannerInv
  BY ScannerStarts DEF ScreensInit
<1>2. ScannerInv /\ [ScreensNext]_<<screenVars, tab>> => ScannerInv'
  BY ScannerKept DEF ScreensNext, screenVars
<1>3. ScannerInv => ScreenIsTrue
  BY ScannerKnown DEF ScannerInv, ShownIsTrue, ScreenIsTrue, Scanner!ScreenIsTrue
<1>4. ScreensSpec => ScreensInit /\ [][ScreensNext]_<<screenVars, tab>>
  BY DEF ScreensSpec
<1>5. QED
  BY <1>1, <1>2, <1>3, <1>4, PTL

(* Without a drawer, a card is written only while the screen says so, and   *)
(* with the bytes that are kept: after a cancel, a reset or an expiry none. *)
THEOREM WritesShown == ScreensSpec => WritesAreShown
<1>1. ScreensInit => ScannerInv
  BY ScannerStarts DEF ScreensInit
<1>2. ScannerInv /\ [ScreensNext]_<<screenVars, tab>> => ScannerInv'
  BY ScannerKept DEF ScreensNext, screenVars
<1>3. ScannerInv => (~page.drawer => Scanner!WriteIsShown)
  <2> SUFFICES ASSUME ScannerInv, ~page.drawer, NEW i \in Slots, hook.ops[i].at = "writing"
               PROVE  hook.screen.phase = "writing" /\ hook.pending = hook.ops[i].card
    BY DEF Scanner!WriteIsShown, Scanner!At
  <2>1. InlineFits(hook)
    BY ScannerKnown
  <2>2. Live(hook, i)
    BY <2>1 DEF InlineFits, Live
  <2>3. QED
    BY <2>1, <2>2 DEF InlineFits
<1>4. ScreensSpec => ScreensInit /\ [][ScreensNext]_<<screenVars, tab>>
  BY DEF ScreensSpec
<1>5. QED
  BY <1>1, <1>2, <1>3, <1>4, PTL DEF WritesAreShown, Scanner!WritesAreShown

-----------------------------------------------------------------------------
(* The browser's access.  What ContextsOK says of contexts, of any sequence.*)
EachOnce(s) == s \in Seq(Contexts) /\ \A i, j \in DOMAIN s : s[i].tenant = s[j].tenant => i = j

LEMMA OneEach ==
    ASSUME NEW s, EachOnce(s)
    PROVE  Len(s) <= Cardinality(Tenants)
<1>1. s \in Seq(Contexts) /\ Len(s) \in Nat /\ DOMAIN s = 1..Len(s) /\ \A i \in 1..Len(s) : s[i] \in Contexts
  BY DEF EachOnce
<1>2. \A i \in 1..Len(s) : s[i].tenant \in Tenants
  BY <1>1 DEF Contexts
<1> DEFINE f == [i \in 1..Len(s) |-> s[i].tenant]
<1>3. f \in Injection(1..Len(s), Tenants)
  BY <1>1, <1>2 DEF EachOnce, Injection, IsInjective
<1>4. Cardinality(1..Len(s)) <= Cardinality(Tenants)
  BY <1>3, FS_Injection, AccessAssumption
<1>5. Cardinality(1..Len(s)) = Len(s)
  <2>1. \A n \in Nat : Cardinality(1..n) = IF 1 > n THEN 0 ELSE n - 1 + 1
    BY FS_Interval
  <2>2. \A n \in Nat : (IF 1 > n THEN 0 ELSE n - 1 + 1) = n
    OBVIOUS
  <2>3. QED
    BY <1>1, <2>1, <2>2
<1>6. QED
  BY <1>4, <1>5

LEMMA ContextsAre == EachOnce(contexts) <=> ContextsOK
<1>1. EachOnce(contexts) => Len(contexts) <= Cardinality(Tenants)
  BY OneEach
<1>2. EachOnce(contexts) <=> contexts \in Seq(Contexts)
                               /\ \A i, j \in DOMAIN contexts : contexts[i].tenant = contexts[j].tenant => i = j
  BY DEF EachOnce
<1>3. QED
  BY <1>1, <1>2 DEF ContextsOK

(* A tenant's context is taken out: the others stay, in their order.        *)
LEMMA TakenOut ==
    ASSUME EachOnce(contexts), NEW t
    PROVE  EachOnce(Without(t)) /\ \A i \in DOMAIN Without(t) : Without(t)[i].tenant # t
<1>1. CASE ~HasContext(t)
  BY <1>1 DEF Without, HasContext, EachOnce
<1>2. CASE HasContext(t)
  <2> DEFINE p == Where(t)
             n == Len(contexts)
             a == SubSeq(contexts, 1, p - 1)
             b == SubSeq(contexts, p + 1, n)
  <2>1. contexts \in Seq(Contexts) /\ n \in Nat /\ DOMAIN contexts = 1..n
    BY DEF EachOnce
  <2>2. p \in 1..n /\ contexts[p].tenant = t
    BY <1>2, <2>1 DEF HasContext, Where
  <2> HIDE DEF p, n
  <2>3. /\ a \in Seq(Contexts) /\ Len(a) = p - 1 /\ \A i \in 1..p - 1 : a[i] = contexts[i]
    BY <2>1, <2>2, SubSeqProperties
  <2>4. /\ b \in Seq(Contexts) /\ Len(b) = n - p /\ \A i \in 1..n - p : b[i] = contexts[p + i]
    <3>1. p + 1 \in 1..n + 1 /\ n \in p..n /\ n - (p + 1) + 1 = n - p
      BY <2>1, <2>2
    <3>2. /\ b \in Seq(Contexts) /\ Len(b) = IF p + 1 <= n THEN n - (p + 1) + 1 ELSE 0
          /\ \A i \in 1..n - (p + 1) + 1 : b[i] = contexts[(p + 1) + i - 1]
      BY <2>1, <2>2, SubSeqProperties
    <3>3. ASSUME NEW i \in 1..n - p PROVE b[i] = contexts[p + i]
      <4>1. i \in 1..n - (p + 1) + 1 /\ (p + 1) + i - 1 = p + i
        BY <3>1, <2>1, <2>2
      <4>2. QED
        BY <3>2, <4>1
    <3>4. Len(b) = n - p
      <4> HIDE DEF b
      <4>1. CASE p + 1 <= n
        BY <4>1, <3>1, <3>2
      <4>2. CASE ~(p + 1 <= n)
        BY <4>2, <3>2, <2>1, <2>2
      <4>3. QED
        BY <4>1, <4>2
    <3>5. QED
      BY <3>2, <3>3, <3>4
  <2> HIDE DEF a, b
  <2>5. /\ a \o b \in Seq(Contexts) /\ Len(a \o b) = n - 1
        /\ \A i \in 1..n - 1 : (a \o b)[i] = IF i < p THEN contexts[i] ELSE contexts[i + 1]
    <3>1. /\ a \o b \in Seq(Contexts) /\ Len(a \o b) = Len(a) + Len(b)
          /\ \A i \in 1..Len(a) + Len(b) : (a \o b)[i] = IF i <= Len(a) THEN a[i] ELSE b[i - Len(a)]
      BY <2>3, <2>4, ConcatProperties
    <3>2. ASSUME NEW i \in 1..n - 1
          PROVE  (a \o b)[i] = IF i < p THEN contexts[i] ELSE contexts[i + 1]
      <4>1. CASE i < p
        BY <4>1, <3>1, <2>1, <2>2, <2>3, <2>4
      <4>2. CASE ~(i < p)
        <5>1. i - (p - 1) \in 1..n - p /\ p + (i - (p - 1)) = i + 1 /\ i \in 1..Len(a) + Len(b)
          BY <4>2, <2>1, <2>2, <2>3, <2>4
        <5>2. (a \o b)[i] = b[i - (p - 1)]
          BY <4>2, <5>1, <3>1, <2>1, <2>2, <2>3
        <5>3. QED
          BY <4>2, <5>1, <5>2, <2>4
      <4>3. QED
        BY <4>1, <4>2
    <3>3. QED
      BY <3>1, <3>2, <2>1, <2>2, <2>3, <2>4
  <2> DEFINE w == a \o b
  <2>6. Without(t) = w
    BY <1>2 DEF Without, p, n, a, b
  <2>7. w \in Seq(Contexts) /\ DOMAIN w = 1..n - 1
    <3>1. w \in Seq(Contexts) /\ Len(w) = n - 1
      BY <2>5
    <3> HIDE DEF w
    <3>2. DOMAIN w = 1..Len(w)
      BY <3>1, LenProperties
    <3>3. QED
      BY <3>1, <3>2
  <2> HIDE DEF w
  <2>8. \A i \in 1..n - 1 : w[i].tenant # t
    <3>1. \A i \in 1..n : contexts[i].tenant = t => i = p
      BY <2>1, <2>2 DEF EachOnce
    <3>2. \A i \in 1..n - 1 : w[i] = IF i < p THEN contexts[i] ELSE contexts[i + 1]
      BY <2>5 DEF w
    <3>3. QED
      BY <3>1, <3>2, <2>1, <2>2
  <2>9. \A i, j \in 1..n - 1 : w[i].tenant = w[j].tenant => i = j
    <3> SUFFICES ASSUME NEW i \in 1..n - 1, NEW j \in 1..n - 1, w[i].tenant = w[j].tenant
                 PROVE  i = j
      OBVIOUS
    <3> DEFINE k == IF i < p THEN i ELSE i + 1
               l == IF j < p THEN j ELSE j + 1
    <3>1. k \in 1..n /\ l \in 1..n /\ w[i] = contexts[k] /\ w[j] = contexts[l]
      BY <2>1, <2>2, <2>5 DEF w
    <3>2. k = l
      BY <3>1, <2>1 DEF EachOnce
    <3>3. QED
      BY <3>2, <2>1, <2>2
  <2>10. QED
    BY <2>5, <2>6, <2>7, <2>8, <2>9 DEF EachOnce, w
<1>3. QED
  BY <1>1, <1>2

LEMMA PutLast ==
    ASSUME EachOnce(contexts), NEW t, NEW c \in Contexts, c.tenant = t
    PROVE  EachOnce(Append(Without(t), c))
<1> DEFINE w == Without(t)
<1>1. EachOnce(w) /\ \A i \in DOMAIN w : w[i].tenant # t
  BY TakenOut
<1> HIDE DEF w
<1>2. w \in Seq(Contexts) /\ Len(w) \in Nat /\ DOMAIN w = 1..Len(w)
  BY <1>1, LenProperties DEF EachOnce
<1>3. /\ Append(w, c) \in Seq(Contexts) /\ Len(Append(w, c)) = Len(w) + 1
      /\ \A i \in 1..Len(w) : Append(w, c)[i] = w[i]
      /\ Append(w, c)[Len(w) + 1] = c
  BY <1>2, AppendProperties
<1> DEFINE a == Append(w, c)
<1> HIDE DEF a
<1>4. DOMAIN a = 1..Len(w) + 1
  <2>1. a \in Seq(Contexts) /\ Len(a) = Len(w) + 1
    BY <1>3 DEF a
  <2>2. DOMAIN a = 1..Len(a)
    BY <2>1, LenProperties
  <2>3. QED
    BY <2>1, <2>2
<1>5. \A i \in 1..Len(w) + 1 : IF i \in 1..Len(w) THEN a[i] = w[i] ELSE i = Len(w) + 1 /\ a[i] = c
  BY <1>2, <1>3 DEF a
<1>6. \A i, j \in 1..Len(w) : w[i].tenant = w[j].tenant => i = j
  BY <1>1, <1>2 DEF EachOnce
<1>7. \A i, j \in DOMAIN a : a[i].tenant = a[j].tenant => i = j
  BY <1>1, <1>2, <1>4, <1>5, <1>6
<1>8. QED
  BY <1>3, <1>7 DEF EachOnce, a, w

(* Who is logging in, or sets a device up, is at the log-in.                *)
Waits ==
    /\ pending # None \/ login.at = "setup" => view.at = "login"
    /\ login.at # "idle" => pending = None

(* A page without its context is about to be left, or an answer came late.  *)
Leaves ==
    /\ toasted => block.on
    /\ \A s \in FetchSlots : req[s].at = "clearing" => redirect \/ late
    /\ view.at = "open" => HasContext(view.tenant) \/ redirect \/ late

(* What the server last said of a block that a timer can hold is what this  *)
(* browser keeps, from the answer that is being handled on.                 *)
Heard ==
    /\ ~capped => told <= Cap
    /\ ~late /\ ~capped /\ told > 0 =>
         /\ block.on /\ block.left >= told /\ (timer # None => timer >= told)
         /\ \A s \in FetchSlots : req[s].at \in {"clearing", "scheduling"} => req[s].left >= told

AccessInv == AccessTypeOK /\ Waits /\ Leaves /\ Heard

(* What opens a page, or leaves one, keeps its type.                        *)
LEMMA HomeKept ==
    ASSUME PageOK, Home
    PROVE  PageOK' /\ (view.at = "login" => view' = view) /\ (view.at # "login" => view' = NoPage)
<1>1. CASE view.at = "login"
  BY <1>1 DEF Home, PageOK
<1>2. CASE view.at # "login"
  <2>1. view' = NoPage /\ grantHook' = NoHook /\ grant' = None /\ grantTimer' = None
    BY <1>2 DEF Home, GoesTo
  <2>2. NoPage \in Views /\ NoPage = [NoPage EXCEPT !.at = NoPage.at] /\ NoPage.at = "boot" /\ NoHook \in GrantHooks /\ NoHook.at = "idle"
    BY DEF NoPage, NoHook, Views, GrantHooks
  <2>3. QED
    BY <1>2, <2>1, <2>2 DEF PageOK
<1>3. QED
  BY <1>1, <1>2

LEMMA NoneTyped ==
    /\ NoRequest \in Fetches /\ NoRequest.at = "idle"
    /\ NoPage \in Views /\ NoPage.at = "boot" /\ NoPage = [NoPage EXCEPT !.at = "boot"] /\ [NoPage EXCEPT !.at = "login"] \in Views
    /\ NoHook \in GrantHooks /\ NoHook.at = "idle" /\ NoHook.slot = None /\ NoHook.cached = None
    /\ Idle \in Logins /\ Idle.at = "idle"
BY DEF NoRequest, NoPage, NoHook, Idle, Fetches, Views, GrantHooks, Logins

(* A step of one request.                                                   *)
LEMMA OneRequest ==
    ASSUME AccessTypeOK, NEW s \in FetchSlots, NEW r \in Fetches, req' = [req EXCEPT ![s] = r]
    PROVE  /\ req' \in [FetchSlots -> Fetches] /\ req'[s] = r
           /\ \A o \in FetchSlots \ {s} : req'[o] = req[o]
BY DEF AccessTypeOK

LEMMA Answers ==
    ASSUME AccessTypeOK, NEW s \in FetchSlots, Serve(s)
    PROVE  \E r \in Fetches : r.at = "answered" /\ req' = [req EXCEPT ![s] = r]
<1> DEFINE tk      == req[s].token
           allowed == VerifyToken(req[s]) /\ (req[s].kind \in {"scout", "bare"} \/ tk.tenant = req[s].tenant)
           answer  == IF RefusedAsBlocked(tk) THEN "blocked" ELSE IF allowed THEN "ok" ELSE "refused"
           n       == IF answer = "blocked" THEN until ELSE IF answer = "ok" THEN GrantLife ELSE 0
           r       == [req[s] EXCEPT !.at = "answered", !.answer = answer, !.token = None, !.left = n]
<1>1. req' = [req EXCEPT ![s].at = "answered", ![s].answer = answer, ![s].token = None, ![s].left = n]
  BY DEF Serve
<1>2. answer \in {"ok", "blocked", "refused"} /\ n \in Nat
  BY AccessAssumption DEF AccessTypeOK
<1> HIDE DEF answer, n
<1>3. r \in Fetches /\ r.at = "answered"
  BY <1>2 DEF Fetches, AccessTypeOK
<1>4. req' = [req EXCEPT ![s] = r]
  BY <1>1, <1>3 DEF AccessTypeOK
<1>5. QED
  BY <1>3, <1>4

LEMMA Asks ==
    ASSUME AccessTypeOK, NEW s, NEW kind \in {"grant", "scout", "sync", "bare"}, NEW t \in Tenants \cup {None},
           Sends(s, kind, t)
    PROVE  /\ s \in FetchSlots /\ \E r \in Fetches : r.at = "sent" /\ req' = [req EXCEPT ![s] = r]
           /\ BlockOK' /\ redirect' = redirect /\ ~Blocked
           /\ \/ block' = block /\ timer' = timer /\ toasted' = toasted
              \/ block.on /\ block.left = 0 /\ toasted' = FALSE
           /\ UNCHANGED <<server, contexts, known, token, user, grant, grantTimer, cache, history>>
<1>1. s \in FetchSlots
  BY AccessAssumption DEF Sends, AccessTypeOK, Site
<1> DEFINE r == InjectAuthHeaders([NoRequest EXCEPT !.at = "sent", !.kind = kind, !.tenant = t, !.account = view.account])
<1>2. r \in Fetches /\ r.at = "sent"
  BY DEF InjectAuthHeaders, NoRequest, Fetches, AccessTypeOK, LoginOK, PageOK, Views
<1>3. req' = [req EXCEPT ![s] = r]
  BY DEF Sends
<1> HIDE DEF r
<1>4. ~Blocked /\ redirect' = redirect /\ block.left \in Nat
  BY DEF Sends, AccessTypeOK, BlockOK
<1>5. UNCHANGED <<server, contexts, known, token, user, grant, grantTimer, cache, history>>
  BY DEF Sends
<1>6. ASSUME block.on PROVE BlockOK' /\ block.left = 0 /\ toasted' = FALSE
  <2>1. block.left = 0
    BY <1>4, <1>6 DEF Blocked
  <2>2. block' = NoBlock /\ timer' = None /\ toasted' = FALSE
    BY <1>6 DEF Sends, Forgets
  <2>3. BlockOK'
    BY <1>4, <2>2 DEF AccessTypeOK, BlockOK, NoBlock
  <2>4. QED
    BY <1>6, <2>1, <2>2, <2>3
<1>7. ASSUME ~block.on PROVE BlockOK' /\ block' = block /\ timer' = timer /\ toasted' = toasted
  <2>1. block' = block /\ timer' = timer /\ toasted' = toasted
    BY <1>7 DEF Sends, Forgets
  <2>2. BlockOK'
    BY <1>4, <2>1 DEF AccessTypeOK, BlockOK
  <2>3. QED
    BY <2>1, <2>2
<1>8. QED
  BY <1>1, <1>2, <1>3, <1>4, <1>5, <1>6, <1>7

LEMMA SendOtherKeeps ==
    ASSUME AccessInv, NEW s \in FetchSlots, SendOther(s)
    PROVE  AccessInv'
<1>1. PICK kind \in {"sync", "bare"}, t \in Tenants \cup {None} : Sends(s, kind, t)
  BY DEF SendOther, AccessInv, AccessTypeOK, PageOK
<1>2. PICK r \in Fetches : r.at = "sent" /\ req' = [req EXCEPT ![s] = r]
  <2>1. AccessTypeOK /\ kind \in {"grant", "scout", "sync", "bare"}
    BY DEF AccessInv
  <2>2. \E r \in Fetches : r.at = "sent" /\ req' = [req EXCEPT ![s] = r]
    BY <1>1, <2>1, Asks
  <2>3. QED
    BY <2>2
<1>3. /\ BlockOK' /\ redirect' = redirect /\ ~Blocked
      /\ \/ block' = block /\ timer' = timer /\ toasted' = toasted
         \/ block.on /\ block.left = 0 /\ toasted' = FALSE
      /\ UNCHANGED <<server, contexts, known, token, user, grantHook, grant, grantTimer, cache, history>>
  BY <1>1, Asks DEF AccessInv, SendOther
<1>4. req' \in [FetchSlots -> Fetches] /\ req'[s].at = "sent" /\ \A o \in FetchSlots \ {s} : req'[o] = req[o]
  BY <1>2, OneRequest DEF AccessInv
<1>5. AccessTypeOK'
  BY <1>3, <1>4 DEF AccessInv, AccessTypeOK, ContextsOK, LoginOK, PageOK, server, user, history
<1>6. Waits' /\ Leaves'
  BY <1>3, <1>4 DEF AccessInv, Waits, Leaves, HasContext, user, history
<1>7. Heard'
  BY <1>3, <1>4 DEF AccessInv, AccessTypeOK, BlockOK, Heard, history
<1>8. QED
  BY <1>5, <1>6, <1>7 DEF AccessInv

LEMMA OpenTyped ==
    ASSUME AccessTypeOK, Open
    PROVE  PageOK' /\ (view'.at = "open" => HasContext(view'.tenant))
<1>1. CASE HasContext(view.tenant)
  <2>1. PICK i \in DOMAIN contexts :
          /\ contexts[i].tenant = view.tenant
          /\ view' = [view EXCEPT !.at = "open", !.account = contexts[i].account]
          /\ grantHook' = IF site.cards THEN [NoHook EXCEPT !.at = "read"] ELSE NoHook
    BY <1>1 DEF Open
  <2>2. contexts[i].account \in Accounts
    <3>1. contexts[i] \in Contexts
      BY DEF AccessTypeOK, ContextsOK
    <3>2. QED
      BY <3>1 DEF Contexts
  <2>3. view' \in Views /\ view'.at = "open" /\ view'.tenant = view.tenant /\ view'.account \in Accounts
        /\ view'.role = view.role /\ view.tenant \in Tenants /\ view.role \in PageRoles
    BY <2>1, <2>2 DEF AccessTypeOK, PageOK, Views, Open
  <2>4. grantHook' \in GrantHooks
    BY <2>1 DEF NoHook, GrantHooks
  <2>5. PageOK'
    BY <2>3, <2>4 DEF AccessTypeOK, PageOK, Open
  <2>6. QED
    BY <1>1, <2>3, <2>5
<1>2. CASE ~HasContext(view.tenant)
  <2>1. view' = NoPage /\ grantHook' = grantHook /\ grant' = grant /\ grantTimer' = grantTimer
    BY <1>2 DEF Open
  <2>2. view.at = "opening" /\ grantHook.at = "idle" /\ grantTimer = None
    BY DEF Open, AccessTypeOK, PageOK
  <2>3. QED
    BY <2>1, <2>2, NoneTyped DEF AccessTypeOK, PageOK
<1>3. QED
  BY <1>1, <1>2

LEMMA BootTyped ==
    ASSUME AccessTypeOK, Boot
    PROVE  PageOK' /\ view'.at \in {"login", "opening"}
<1>1. CASE contexts = <<>>
  BY <1>1, NoneTyped DEF Boot, AccessTypeOK, PageOK, grants, NoPage
<1>2. CASE contexts # <<>>
  <2>1. Len(contexts) \in DOMAIN contexts
    BY <1>2 DEF AccessTypeOK, ContextsOK
  <2>2. PICK i \in DOMAIN contexts : view' = Address(contexts[i].tenant, contexts[i].account, contexts[i].role)
    BY <1>2, <2>1 DEF Boot
  <2>3. contexts[i] \in Contexts
    BY DEF AccessTypeOK, ContextsOK
  <2>4. contexts[i].tenant \in Tenants /\ contexts[i].account \in Accounts /\ contexts[i].role \in PageRoles
    BY <2>3 DEF Contexts
  <2>5. view' \in Views /\ view'.at = "opening" /\ view'.tenant \in Tenants /\ view'.account \in Accounts /\ view'.role \in PageRoles
    BY <2>2, <2>4 DEF Address, Views
  <2>6. grantHook' = grantHook /\ grant' = grant /\ grantTimer' = grantTimer /\ grantHook.at = "idle" /\ grantTimer = None
    BY DEF Boot, AccessTypeOK, PageOK, grants
  <2>7. QED
    BY <2>5, <2>6 DEF AccessTypeOK, PageOK
<1>3. QED
  BY <1>1, <1>2

LEMMA ReadTyped ==
    ASSUME AccessTypeOK, Read
    PROVE  PageOK'
<1> DEFINE c      == cache[<<view.tenant, view.account>>]
           cached == IF Valid(c) THEN c ELSE None
<1>1. view.at = "open" /\ view.tenant \in Tenants /\ view.account \in Accounts
  BY DEF AccessTypeOK, PageOK, Read
<1>2. cached \in Grants \cup {None}
  <2>1. c \in Grants \cup {None}
    BY <1>1 DEF AccessTypeOK
  <2> HIDE DEF c
  <2>2. QED
    BY <2>1
<1> HIDE DEF cached
<1>3. /\ \/ grantHook' = [grantHook EXCEPT !.at = "send", !.cached = cached] /\ grant' = grant
         \/ grantHook' = NoHook /\ grant' = IF cached # None THEN cached ELSE GenerateLocalSessionGrant
      /\ grantTimer' = grantTimer /\ view' = view
  BY DEF Read, user, cached
<1>4. GenerateLocalSessionGrant \in Grants
  BY AccessAssumption DEF GenerateLocalSessionGrant, LocalGrant, Grants
<1>5. grantHook' \in GrantHooks /\ grant' \in Grants \cup {None}
  BY <1>2, <1>3, <1>4, NoneTyped DEF AccessTypeOK, PageOK, GrantHooks
<1>6. QED
  BY <1>1, <1>3, <1>5 DEF AccessTypeOK, PageOK

LEMMA SendGrantKeeps ==
    ASSUME AccessInv, NEW s \in FetchSlots, SendGrant(s)
    PROVE  AccessInv'
<1>1. PICK kind \in {"grant", "scout"}, t \in Tenants \cup {None} : Sends(s, kind, t)
  BY DEF SendGrant, AccessInv, AccessTypeOK, PageOK, Views
<1>2. PICK r \in Fetches : r.at = "sent" /\ req' = [req EXCEPT ![s] = r]
  <2>1. AccessTypeOK /\ kind \in {"grant", "scout", "sync", "bare"}
    BY DEF AccessInv
  <2>2. \E r \in Fetches : r.at = "sent" /\ req' = [req EXCEPT ![s] = r]
    BY <1>1, <2>1, Asks
  <2>3. QED
    BY <2>2
<1>3. /\ BlockOK' /\ redirect' = redirect /\ ~Blocked
      /\ \/ block' = block /\ timer' = timer /\ toasted' = toasted
         \/ block.on /\ block.left = 0 /\ toasted' = FALSE
      /\ UNCHANGED <<server, contexts, known, token, user, grant, grantTimer, cache, history>>
  BY <1>1, Asks DEF AccessInv
<1>4. req' \in [FetchSlots -> Fetches] /\ req'[s].at = "sent" /\ \A o \in FetchSlots \ {s} : req'[o] = req[o]
  BY <1>2, OneRequest DEF AccessInv
<1>5. grantHook' \in GrantHooks /\ grantHook.at = "send"
  BY DEF SendGrant, AccessInv, AccessTypeOK, PageOK, GrantHooks
<1>6. PageOK'
  BY <1>3, <1>5 DEF AccessInv, AccessTypeOK, PageOK, user
<1>7. AccessTypeOK'
  BY <1>3, <1>4, <1>6 DEF AccessInv, AccessTypeOK, ContextsOK, LoginOK, server, user, history
<1>8. Waits' /\ Leaves'
  BY <1>3, <1>4 DEF AccessInv, Waits, Leaves, HasContext, user, history
<1>9. Heard'
  BY <1>3, <1>4 DEF AccessInv, AccessTypeOK, BlockOK, Heard, history
<1>10. QED
  BY <1>7, <1>8, <1>9 DEF AccessInv

(* The block's end, by its timer or by the tab that comes into view.        *)
LEMMA UnblocksKeeps ==
    ASSUME AccessInv, Unblocks, ~late /\ ~capped => told = 0
    PROVE  AccessInv'
<1>1. PageOK' /\ (view.at = "login" => view' = view) /\ (view.at # "login" => view' = NoPage)
  BY HomeKept DEF Unblocks, AccessInv, AccessTypeOK
<1>2. BlockOK'
  BY DEF Unblocks, AccessInv, AccessTypeOK, BlockOK, NoBlock
<1>3. AccessTypeOK'
  BY <1>1, <1>2 DEF Unblocks, AccessInv, AccessTypeOK, ContextsOK, LoginOK, server, history
<1>4. Waits' /\ Leaves'
  BY <1>1, NoneTyped DEF Unblocks, AccessInv, Waits, Leaves, NoBlock, history
<1>5. Heard'
  BY DEF Unblocks, AccessInv, AccessTypeOK, Heard, history
<1>6. QED
  BY <1>3, <1>4, <1>5 DEF AccessInv

LEMMA FireKeeps == ASSUME AccessInv, Fire PROVE AccessInv'
<1>1. ~late /\ ~capped => told = 0
  <2>1. timer # None /\ timer = 0 /\ told \in Nat
    BY AccessAssumption DEF Fire, AccessInv, AccessTypeOK
  <2>2. QED
    BY <2>1 DEF AccessInv, Heard
<1>2. QED
  BY <1>1, UnblocksKeeps DEF Fire

LEMMA VisibleKeeps == ASSUME AccessInv, Visible PROVE AccessInv'
<1>1. ~late /\ ~capped => told = 0
  <2>1. block.left = 0 /\ told \in Nat
    BY DEF Visible, AccessInv, AccessTypeOK
  <2>2. QED
    BY <2>1 DEF AccessInv, Heard
<1>2. QED
  BY <1>1, UnblocksKeeps DEF Visible

LEMMA RedirectKeeps == ASSUME AccessInv, Redirect PROVE AccessInv'
<1>1. PageOK' /\ (view.at = "login" => view' = view) /\ (view.at # "login" => view' = NoPage)
  BY HomeKept DEF Redirect, AccessInv, AccessTypeOK
<1>2. AccessTypeOK'
  BY <1>1 DEF Redirect, AccessInv, AccessTypeOK, ContextsOK, LoginOK, BlockOK, server, history
<1>3. Waits' /\ Leaves'
  BY <1>1, NoneTyped DEF Redirect, AccessInv, Waits, Leaves, history
<1>4. Heard'
  BY DEF Redirect, AccessInv, Heard, history
<1>5. QED
  BY <1>2, <1>3, <1>4 DEF AccessInv

LEMMA ReloadKeeps == ASSUME AccessInv, Reload PROVE AccessInv'
<1> DEFINE p == IF view.at = "open" THEN Address(view.tenant, view.account, view.role) ELSE NoPage
<1>1. view' = p /\ grantHook' = NoHook /\ grant' = None /\ grantTimer' = None
  BY DEF Reload, GoesTo
<1>2. PageOK' /\ view'.at # "open"
  <2>1. CASE view.at = "open"
    <3>1. view' = Address(view.tenant, view.account, view.role)
          /\ view.tenant \in Tenants /\ view.account \in Accounts /\ view.role \in PageRoles
      BY <1>1, <2>1 DEF AccessInv, AccessTypeOK, PageOK
    <3>2. view' \in Views /\ view'.at = "opening" /\ view'.tenant \in Tenants /\ view'.account \in Accounts
          /\ view'.role \in PageRoles
      BY <3>1 DEF Address, Views
    <3>3. QED
      BY <1>1, <3>2, NoneTyped DEF PageOK
  <2>2. CASE view.at # "open"
    BY <1>1, <2>2, NoneTyped DEF PageOK
  <2>3. QED
    BY <2>1, <2>2
<1> HIDE DEF p
<1>3. req' \in [FetchSlots -> Fetches] /\ \A s \in FetchSlots : req'[s].at = "idle"
  BY NoneTyped DEF Reload
<1>4. BlockOK' /\ LoginOK'
  BY NoneTyped DEF Reload, AccessInv, AccessTypeOK, BlockOK, LoginOK, NoBlock
<1>5. AccessTypeOK'
  BY <1>2, <1>3, <1>4 DEF Reload, AccessInv, AccessTypeOK, ContextsOK, server
<1>6. Waits' /\ Leaves' /\ Heard'
  BY <1>2, <1>3, NoneTyped, AccessAssumption DEF Reload, Waits, Leaves, Heard, NoBlock
<1>7. QED
  BY <1>5, <1>6 DEF AccessInv

(* A request that comes to its end, and the hook that waited for it.        *)
LEMMA Ended ==
    ASSUME AccessTypeOK, NEW s \in FetchSlots, Done(s),
           grantHook' = IF Mine(s) THEN [grantHook EXCEPT !.at = "failed", !.slot = None] ELSE grantHook,
           UNCHANGED <<user, grant, grantTimer>>
    PROVE  /\ req' \in [FetchSlots -> Fetches] /\ req'[s].at = "idle" /\ \A o \in FetchSlots \ {s} : req'[o] = req[o]
           /\ PageOK' /\ view' = view /\ login' = login /\ pending' = pending
<1>1. req' \in [FetchSlots -> Fetches] /\ req'[s].at = "idle" /\ \A o \in FetchSlots \ {s} : req'[o] = req[o]
  BY NoneTyped, OneRequest DEF Done
<1>2. grantHook' \in GrantHooks /\ (grantHook'.at # "idle" => grantHook.at # "idle")
  BY DEF Mine, AccessTypeOK, PageOK, GrantHooks
<1>3. PageOK'
  BY <1>2 DEF AccessTypeOK, PageOK, user
<1>4. QED
  BY <1>1, <1>3 DEF user

LEMMA ArriveKeeps ==
    ASSUME AccessInv, NEW s \in FetchSlots, Arrive(s)
    PROVE  AccessInv'
<1>1. /\ req' \in [FetchSlots -> Fetches] /\ req'[s].at = "idle" /\ \A o \in FetchSlots \ {s} : req'[o] = req[o]
      /\ PageOK' /\ view' = view /\ login' = login /\ pending' = pending
  BY Ended DEF Arrive, AccessInv
<1>2. AccessTypeOK'
  BY <1>1 DEF Arrive, AccessInv, AccessTypeOK, ContextsOK, LoginOK, BlockOK, server, blocked, history
<1>3. Waits' /\ Leaves' /\ Heard'
  BY <1>1 DEF Arrive, AccessInv, Waits, Leaves, Heard, HasContext, blocked, history
<1>4. QED
  BY <1>2, <1>3 DEF AccessInv

LEMMA ScheduleKeeps ==
    ASSUME AccessInv, NEW s \in FetchSlots, Schedule(s)
    PROVE  AccessInv'
<1>1. /\ req' \in [FetchSlots -> Fetches] /\ req'[s].at = "idle" /\ \A o \in FetchSlots \ {s} : req'[o] = req[o]
      /\ PageOK' /\ view' = view /\ login' = login /\ pending' = pending
  BY Ended DEF Schedule, AccessInv
<1>2. /\ req[s].left \in Nat /\ req[s].at = "scheduling" /\ timer' = UnblockDelay(req[s].left)
  BY DEF Schedule, AccessInv, AccessTypeOK, Fetches
<1>3. timer' \in 0..Cap /\ (timer' = req[s].left \/ timer' = Cap)
  BY <1>2, AccessAssumption DEF UnblockDelay, LeastOf
<1>4. AccessTypeOK'
  BY <1>1, <1>3 DEF Schedule, AccessInv, AccessTypeOK, ContextsOK, LoginOK, BlockOK, server, history
<1>5. Waits' /\ Leaves'
  BY <1>1 DEF Schedule, AccessInv, Waits, Leaves, HasContext, history
<1>6. Heard'
  BY <1>1, <1>2, <1>3 DEF Schedule, AccessInv, Heard, history
<1>7. QED
  BY <1>4, <1>5, <1>6 DEF AccessInv

LEMMA ServeKeeps ==
    ASSUME AccessInv, NEW s \in FetchSlots, Serve(s) \/ Fail(s)
    PROVE  AccessInv'
<1>1. PICK r \in Fetches : r.at = "answered" /\ req' = [req EXCEPT ![s] = r]
  <2>1. CASE Serve(s)
    BY <2>1, Answers DEF AccessInv
  <2>2. CASE Fail(s)
    <3> DEFINE r == [NoRequest EXCEPT !.at = "answered", !.kind = req[s].kind, !.tenant = req[s].tenant, !.answer = "failed"]
    <3>1. r \in Fetches /\ r.at = "answered"
      BY DEF AccessInv, AccessTypeOK, Fetches, NoRequest
    <3>2. QED
      BY <2>2, <3>1 DEF Fail
  <2>3. QED
    BY <2>1, <2>2
<1>2. req' \in [FetchSlots -> Fetches] /\ req'[s].at = "answered" /\ \A o \in FetchSlots \ {s} : req'[o] = req[o]
  BY <1>1, OneRequest DEF AccessInv
<1>3. UNCHANGED <<server, contexts, known, token, user, blocked, grants, history>>
  BY DEF Serve, Fail
<1>4. AccessTypeOK'
  BY <1>2, <1>3 DEF AccessInv, AccessTypeOK, ContextsOK, LoginOK, PageOK, BlockOK, server, user, blocked, grants, history
<1>5. Waits' /\ Leaves' /\ Heard'
  BY <1>2, <1>3 DEF AccessInv, Waits, Leaves, Heard, HasContext, user, blocked, history
<1>6. QED
  BY <1>4, <1>5 DEF AccessInv

LEMMA ArriveBlockedKeeps ==
    ASSUME AccessInv, NEW s \in FetchSlots, ArriveBlocked(s)
    PROVE  AccessInv'
<1> DEFINE r == [req[s] EXCEPT !.at = "clearing"]
<1>1. r \in Fetches /\ r.at = "clearing" /\ r.left = req[s].left /\ req' = [req EXCEPT ![s] = r] /\ req[s].left \in Nat
  BY DEF ArriveBlocked, AccessInv, AccessTypeOK, Fetches
<1> HIDE DEF r
<1>2. /\ req' \in [FetchSlots -> Fetches] /\ req'[s].at = "clearing" /\ req'[s].left = req[s].left
      /\ \A o \in FetchSlots \ {s} : req'[o] = req[o]
  BY <1>1, OneRequest DEF AccessInv
<1>3. AccessTypeOK'
  BY <1>1, <1>2 DEF ArriveBlocked, AccessInv, AccessTypeOK, ContextsOK, LoginOK, PageOK, BlockOK, server, user, grants
<1>4. Waits'
  BY DEF ArriveBlocked, AccessInv, Waits, user
<1>5. late' \/ redirect'
  BY DEF ArriveBlocked, AccessInv, Leaves
<1>6. Leaves'
  BY <1>5 DEF ArriveBlocked, AccessInv, Leaves, HasContext, user
<1>7. told' = req[s].left /\ block' = [on |-> TRUE, left |-> req[s].left] /\ timer' = timer
  BY DEF ArriveBlocked
<1>8. ~capped' => ~(req[s].left > Cap)
  BY DEF ArriveBlocked
<1>9. ~late' => timer = None /\ \A o \in FetchSlots : req[o].at \notin {"clearing", "scheduling"}
  BY DEF ArriveBlocked
<1>10. Heard'
  BY <1>1, <1>2, <1>7, <1>8, <1>9, AccessAssumption DEF Heard
<1>11. QED
  BY <1>3, <1>4, <1>6, <1>10 DEF AccessInv

LEMMA TickTyped ==
    ASSUME AccessTypeOK, Tick
    PROVE  AccessTypeOK'
<1>1. \A n \in Nat : Less(n) \in Nat
  BY DEF Less
<1>2. \A g \in Grants \cup {None} : OlderGrant(g) \in Grants \cup {None}
  BY <1>1 DEF OlderGrant, Grants
<1>3. \A k \in Tokens \cup {None} : OlderToken(k) \in Tokens \cup {None}
  BY AccessAssumption DEF OlderToken, Tokens, Less
<1>4. \A m \in Nat : \A n \in 0..m \cup {None} : OlderTimer(n) \in 0..m \cup {None} /\ (OlderTimer(n) # None => n # None)
  BY DEF OlderTimer, Less
<1>5. req' \in [FetchSlots -> Fetches]
  <2>1. \A s \in FetchSlots : [req[s] EXCEPT !.left = Less(@), !.token = OlderToken(@)] \in Fetches
    BY <1>1, <1>3 DEF AccessTypeOK, Fetches
  <2>2. QED
    BY <2>1 DEF Tick
<1>6. cache' \in [Tenants \X Accounts -> Grants \cup {None}]
  BY <1>2 DEF Tick, AccessTypeOK
<1>7. PageOK'
  <2>1. grantHook' \in GrantHooks /\ grantHook'.at = grantHook.at
    BY <1>2 DEF Tick, AccessTypeOK, PageOK, GrantHooks
  <2>2. QED
    BY <1>2, <1>4, <2>1, AccessAssumption DEF Tick, AccessTypeOK, PageOK, user
<1>8. BlockOK'
  <2>1. block' = [block EXCEPT !.left = Less(@)] /\ timer' = OlderTimer(timer) /\ UNCHANGED <<toasted, redirect>>
    BY DEF Tick
  <2>2. block' \in [on: BOOLEAN, left: Nat] /\ (block'.on \/ block' = NoBlock)
    <3>1. block' = [on |-> block.on, left |-> Less(block.left)] /\ block.left \in Nat /\ block.on \in BOOLEAN
      BY <2>1 DEF AccessTypeOK, BlockOK
    <3>2. ~block.on => block.left = 0 /\ block.on = FALSE
      BY <3>1 DEF AccessTypeOK, BlockOK, NoBlock
    <3>3. QED
      BY <1>1, <3>1, <3>2 DEF NoBlock, Less
  <2>3. timer' \in 0..Cap \cup {None}
    BY <1>4, <2>1, AccessAssumption DEF AccessTypeOK, BlockOK
  <2>4. QED
    BY <2>1, <2>2, <2>3 DEF AccessTypeOK, BlockOK
<1>9. LoginOK'
  BY <1>3 DEF Tick, AccessTypeOK, LoginOK, user
<1>10. QED
  BY <1>1, <1>5, <1>6, <1>7, <1>8, <1>9 DEF Tick, AccessTypeOK, ContextsOK

LEMMA TickKeeps ==
    ASSUME AccessInv, Tick
    PROVE  AccessInv'
<1>1. Waits'
  BY DEF AccessInv, Tick, Waits, user
<1>2. \A s \in FetchSlots : req'[s].at = req[s].at /\ req'[s].left = Less(req[s].left)
  BY DEF AccessInv, AccessTypeOK, Tick, Fetches
<1>3. Leaves'
  BY <1>2 DEF AccessInv, AccessTypeOK, BlockOK, Tick, Leaves, user, HasContext
<1>4. /\ block'.on = block.on /\ block'.left = Less(block.left) /\ told' = Less(told) /\ timer' = OlderTimer(timer)
      /\ late' = late /\ capped' = capped
  BY DEF AccessInv, AccessTypeOK, BlockOK, Tick
<1>5. block.left \in Nat /\ told \in Nat /\ timer \in Nat \cup {None} /\ \A s \in FetchSlots : req[s].left \in Nat
  BY AccessAssumption DEF AccessInv, AccessTypeOK, BlockOK, Fetches
<1>6. Heard'
  BY <1>2, <1>4, <1>5, AccessAssumption DEF AccessInv, Heard, Less, OlderTimer
<1>7. QED
  BY <1>1, <1>3, <1>6, TickTyped DEF AccessInv

LEMMA OpenKeeps == ASSUME AccessInv, Open PROVE AccessInv'
<1>1. PageOK' /\ (view'.at = "open" => HasContext(view'.tenant))
  BY OpenTyped DEF AccessInv
<1>2. view.at = "opening" /\ pending = None /\ login.at # "setup"
  BY DEF Open, AccessInv, Waits
<1>3. AccessTypeOK'
  BY <1>1 DEF Open, AccessInv, AccessTypeOK, ContextsOK, LoginOK, BlockOK, server, blocked, history
<1>4. Waits' /\ Leaves' /\ Heard'
  BY <1>1, <1>2 DEF Open, AccessInv, Waits, Leaves, Heard, HasContext, blocked, history
<1>5. QED
  BY <1>3, <1>4 DEF AccessInv

LEMMA BootKeeps == ASSUME AccessInv, Boot PROVE AccessInv'
<1>1. PageOK' /\ view'.at \in {"login", "opening"}
  BY BootTyped DEF AccessInv
<1>2. view.at = "boot" /\ pending = None /\ login.at # "setup"
  BY DEF Boot, AccessInv, Waits
<1>3. AccessTypeOK'
  BY <1>1 DEF Boot, AccessInv, AccessTypeOK, ContextsOK, LoginOK, BlockOK, server, blocked, grants, history
<1>4. Waits' /\ Leaves' /\ Heard'
  BY <1>1, <1>2 DEF Boot, AccessInv, Waits, Leaves, Heard, blocked, history
<1>5. QED
  BY <1>3, <1>4 DEF AccessInv

LEMMA ReadKeeps == ASSUME AccessInv, Read PROVE AccessInv'
<1>1. PageOK'
  BY ReadTyped DEF AccessInv
<1>2. AccessTypeOK'
  BY <1>1 DEF Read, AccessInv, AccessTypeOK, ContextsOK, LoginOK, BlockOK, server, user, blocked, history
<1>3. Waits' /\ Leaves' /\ Heard'
  BY DEF Read, AccessInv, Waits, Leaves, Heard, HasContext, user, blocked, history
<1>4. QED
  BY <1>2, <1>3 DEF AccessInv

(* Who writes the contexts: a log-in, a choice of role or mode, a log-out,  *)
(* and a block.                                                             *)
LEMMA ContextsTyped ==
    ASSUME AccessInv
    PROVE  /\ \A t \in Tenants, a \in Accounts, r \in PageRoles : EachOnce(Put(t, a, r))
           /\ \A t : EachOnce(Without(t)) /\ EachOnce(Cleared(t))
           /\ \A t : \A r \in PageRoles : HasContext(t) =>
                EachOnce(Append(Without(t), [contexts[Where(t)] EXCEPT !.role = r]))
<1>1. EachOnce(contexts)
  BY ContextsAre DEF AccessInv, AccessTypeOK
<1>2. ASSUME NEW t \in Tenants, NEW a \in Accounts, NEW r \in PageRoles
      PROVE  EachOnce(Put(t, a, r))
  <2> DEFINE c == [tenant |-> t, account |-> a, role |-> r, station |-> r = "admin"]
  <2>1. (r = "admin") \in BOOLEAN
    OBVIOUS
  <2>2. c \in Contexts /\ c.tenant = t
    BY <2>1 DEF Contexts
  <2> HIDE DEF c
  <2>3. EachOnce(Append(Without(t), c))
    BY <1>1, <2>2, PutLast
  <2>4. QED
    BY <2>3 DEF Put, c
<1>3. ASSUME NEW t PROVE EachOnce(Without(t)) /\ EachOnce(Cleared(t))
  <2>1. EachOnce(Without(t))
    BY <1>1, TakenOut
  <2>2. EachOnce(<<>>)
    BY DEF EachOnce
  <2>3. QED
    BY <2>1, <2>2 DEF Cleared
<1>4. ASSUME NEW t, NEW r \in PageRoles, HasContext(t)
      PROVE  EachOnce(Append(Without(t), [contexts[Where(t)] EXCEPT !.role = r]))
  <2> DEFINE c == [contexts[Where(t)] EXCEPT !.role = r]
  <2>1. Where(t) \in DOMAIN contexts /\ contexts[Where(t)].tenant = t
    BY <1>4 DEF HasContext, Where
  <2>2. contexts[Where(t)] \in Contexts
    BY <1>1, <2>1 DEF EachOnce
  <2>3. c \in Contexts /\ c.tenant = t
    BY <2>1, <2>2 DEF Contexts
  <2> HIDE DEF c
  <2>4. EachOnce(Append(Without(t), c))
    BY <1>1, <2>3, PutLast
  <2>5. QED
    BY <2>4 DEF c
<1>5. QED
  BY <1>2, <1>3, <1>4

LEMMA ContextsKept ==
    ASSUME AccessInv
    PROVE  /\ Logout \/ (\E s \in FetchSlots : Clear(s)) \/ (\E r \in PageRoles : SwitchMode(r)) => ContextsOK'
           /\ (\E t \in Tenants : Login(t) \/ Scout(t)) \/ ServerAnswer \/ PickRole => ContextsOK'
<1>1. "own" \in Accounts /\ "scout" \in Accounts /\ "admin" \in PageRoles /\ "terminal" \in PageRoles /\ "scout" \in PageRoles
  BY DEF Accounts, PageRoles
<1>2. contexts' = contexts => ContextsOK'
  BY DEF AccessInv, AccessTypeOK, ContextsOK
<1>3. EachOnce(contexts') => ContextsOK'
  <2>1. EachOnce(contexts') => Len(contexts') <= Cardinality(Tenants)
    BY OneEach
  <2>2. EachOnce(contexts') => contexts' \in Seq(Contexts)
                               /\ \A i, j \in DOMAIN contexts' : contexts'[i].tenant = contexts'[j].tenant => i = j
    BY DEF EachOnce
  <2>3. QED
    BY <2>1, <2>2 DEF ContextsOK
<1>4. ASSUME Logout PROVE ContextsOK'
  BY <1>3, <1>4, ContextsTyped DEF Logout
<1>5. ASSUME NEW s \in FetchSlots, Clear(s) PROVE ContextsOK'
  BY <1>3, <1>5, ContextsTyped DEF Clear
<1>6. ASSUME NEW r \in PageRoles, SwitchMode(r) PROVE ContextsOK'
  BY <1>2, <1>3, <1>6, ContextsTyped DEF SwitchMode
<1>7. ASSUME NEW t \in Tenants, Login(t) PROVE ContextsOK'
  BY <1>1, <1>2, <1>3, <1>7, ContextsTyped DEF Login
<1>8. ASSUME NEW t \in Tenants, Scout(t) PROVE ContextsOK'
  BY <1>1, <1>3, <1>8, ContextsTyped DEF Scout
<1>9. ASSUME ServerAnswer PROVE ContextsOK'
  <2>1. login.tenant \in Tenants
    BY <1>9 DEF ServerAnswer, AccessInv, AccessTypeOK, LoginOK
  <2>2. QED
    BY <1>1, <1>2, <1>3, <1>9, <2>1, ContextsTyped DEF ServerAnswer
<1>10. ASSUME PickRole PROVE ContextsOK'
  <2>1. pending \in Tenants
    BY <1>10 DEF PickRole, AccessInv, AccessTypeOK, LoginOK
  <2>2. QED
    BY <1>1, <1>3, <1>10, <2>1, ContextsTyped DEF PickRole
<1>11. QED
  BY <1>4, <1>5, <1>6, <1>7, <1>8, <1>9, <1>10

LEMMA SilentAnswerKeeps ==
    ASSUME AccessInv, SilentAnswer
    PROVE  AccessInv'
<1>1. ContextsOK'
  BY DEF SilentAnswer, AccessInv, AccessTypeOK, ContextsOK
<1>2. AccessTypeOK'
  BY <1>1, AccessAssumption DEF AccessInv, SilentAnswer, NewToken, Enters, server, blocked, history, GoesTo, Address, Idle,
    NoHook, AccessTypeOK, LoginOK, PageOK, BlockOK, Views, PageRoles, Accounts, NoPage, GrantHooks, Grants, Logins,
    Tokens
<1>3. Waits' /\ Leaves' /\ Heard'
  BY <1>2 DEF AccessInv, Waits, Leaves, Heard, HasContext, SilentAnswer, NewToken, Enters, server, blocked, history,
    GoesTo, Address, Idle, NoHook
<1>4. QED
  BY <1>2, <1>3 DEF AccessInv

LEMMA ServerAnswerKeeps ==
    ASSUME AccessInv, ServerAnswer
    PROVE  AccessInv'
<1>1. ContextsOK'
  BY ContextsKept
<1>2. AccessTypeOK'
  BY <1>1, AccessAssumption DEF AccessInv, ServerAnswer, NewToken, Remembers, Enters, Idle, server, blocked, history,
    GoesTo, Address, NoHook, AccessTypeOK, LoginOK, PageOK, BlockOK, Views, PageRoles, Accounts, NoPage, GrantHooks,
    Grants, Logins, Tokens
<1>3. Waits' /\ Leaves' /\ Heard'
  BY <1>2 DEF AccessInv, Waits, Leaves, Heard, HasContext, ServerAnswer, NewToken, Remembers, Enters, Idle, server,
    blocked, history, GoesTo, Address, NoHook
<1>4. QED
  BY <1>2, <1>3 DEF AccessInv

LEMMA SetupAnswerKeeps ==
    ASSUME AccessInv, SetupAnswer
    PROVE  AccessInv'
<1>1. ContextsOK'
  BY DEF SetupAnswer, AccessInv, AccessTypeOK, ContextsOK
<1>2. AccessTypeOK'
  BY <1>1, AccessAssumption DEF AccessInv, SetupAnswer, Idle, Remembers, server, blocked, grants, history, AccessTypeOK,
    LoginOK, PageOK, BlockOK, Logins
<1>3. Waits' /\ Leaves' /\ Heard'
  BY <1>2 DEF AccessInv, Waits, Leaves, Heard, HasContext, SetupAnswer, Idle, Remembers, server, blocked, grants,
    history
<1>4. QED
  BY <1>2, <1>3 DEF AccessInv

LEMMA SuppressedKeeps ==
    ASSUME AccessInv, Suppressed
    PROVE  AccessInv'
<1>1. ContextsOK'
  BY DEF Suppressed, AccessInv, AccessTypeOK, ContextsOK
<1>2. AccessTypeOK'
  BY <1>1, AccessAssumption DEF AccessInv, Suppressed, Blocked, server, user, blocked, history, AccessTypeOK, LoginOK,
    PageOK, BlockOK, Views, PageRoles, Accounts, NoPage, GrantHooks, Grants
<1>3. Waits' /\ Leaves' /\ Heard'
  BY <1>2 DEF AccessInv, Waits, Leaves, Heard, HasContext, Suppressed, Blocked, server, user, blocked, history
<1>4. QED
  BY <1>2, <1>3 DEF AccessInv

LEMMA FallBackKeeps ==
    ASSUME AccessInv, FallBack
    PROVE  AccessInv'
<1>1. ContextsOK'
  BY DEF FallBack, AccessInv, AccessTypeOK, ContextsOK
<1>2. AccessTypeOK'
  BY <1>1, AccessAssumption DEF AccessInv, FallBack, GenerateLocalSessionGrant, NoHook, DelayAfterFallback, server, user,
    blocked, history, LocalGrant, RefreshDelay, AccessTypeOK, LoginOK, PageOK, BlockOK, Views, PageRoles, Accounts,
    NoPage, GrantHooks, Grants
<1>3. Waits' /\ Leaves' /\ Heard'
  BY <1>2 DEF AccessInv, Waits, Leaves, Heard, HasContext, FallBack, GenerateLocalSessionGrant, NoHook,
    DelayAfterFallback, server, user, blocked, history, LocalGrant, RefreshDelay
<1>4. QED
  BY <1>2, <1>3 DEF AccessInv

LEMMA RenewKeeps ==
    ASSUME AccessInv, Renew
    PROVE  AccessInv'
<1>1. ContextsOK'
  BY DEF Renew, AccessInv, AccessTypeOK, ContextsOK
<1>2. AccessTypeOK'
  BY <1>1, AccessAssumption DEF AccessInv, Renew, NoHook, server, user, blocked, history, AccessTypeOK, LoginOK, PageOK,
    BlockOK, Views, PageRoles, Accounts, NoPage, GrantHooks, Grants
<1>3. Waits' /\ Leaves' /\ Heard'
  BY <1>2 DEF AccessInv, Waits, Leaves, Heard, HasContext, Renew, NoHook, server, user, blocked, history
<1>4. QED
  BY <1>2, <1>3 DEF AccessInv

LEMMA ClearKeeps ==
    ASSUME AccessInv, NEW s \in FetchSlots, Clear(s)
    PROVE  AccessInv'
<1>1. ContextsOK'
  BY ContextsKept
<1>2. AccessTypeOK'
  BY <1>1, AccessAssumption DEF AccessInv, Clear, server, user, blocked, grants, history, AccessTypeOK, LoginOK, PageOK,
    BlockOK, Fetches
<1>3. Waits' /\ Leaves' /\ Heard'
  BY <1>2 DEF AccessInv, Waits, Leaves, Heard, HasContext, Clear, server, user, blocked, grants, history
<1>4. QED
  BY <1>2, <1>3 DEF AccessInv

LEMMA GrantedKeeps ==
    ASSUME AccessInv, NEW s \in FetchSlots, Granted(s)
    PROVE  AccessInv'
<1> DEFINE g == [from |-> "server", left |-> req[s].left]
<1>1. g \in Grants /\ RefreshDelay(g) \in 0..MaxDelay
  BY AccessAssumption DEF AccessInv, AccessTypeOK, Fetches, Grants, RefreshDelay
<1>2. /\ WriteGrantToCache(req[s].tenant, req[s].account, g)
      /\ IF Mine(s) THEN grantHook' = NoHook /\ grant' = g /\ grantTimer' = RefreshDelay(g)
         ELSE UNCHANGED <<grantHook, grant, grantTimer>>
      /\ Done(s) /\ UNCHANGED <<server, contexts, known, token, user, blocked, history>>
  BY DEF Granted
<1> HIDE DEF g
<1>3. req' \in [FetchSlots -> Fetches] /\ req'[s].at = "idle" /\ \A o \in FetchSlots \ {s} : req'[o] = req[o]
  BY <1>2, NoneTyped, OneRequest DEF Done, AccessInv
<1>4. PageOK'
  BY <1>1, <1>2, NoneTyped DEF AccessInv, AccessTypeOK, PageOK, Mine, user
<1>5. cache' \in [Tenants \X Accounts -> Grants \cup {None}]
  BY <1>1, <1>2 DEF AccessInv, AccessTypeOK, WriteGrantToCache
<1>6. AccessTypeOK'
  BY <1>2, <1>3, <1>4, <1>5 DEF AccessInv, AccessTypeOK, ContextsOK, LoginOK, BlockOK, server, user, blocked, history
<1>7. Waits' /\ Leaves' /\ Heard'
  BY <1>2, <1>3 DEF AccessInv, Waits, Leaves, Heard, HasContext, user, blocked, history
<1>8. QED
  BY <1>6, <1>7 DEF AccessInv

LEMMA LoginKeeps ==
    ASSUME AccessInv, NEW t \in Tenants, Login(t)
    PROVE  AccessInv'
<1>1. ContextsOK'
  BY ContextsKept
<1>2. AccessTypeOK'
  BY <1>1, AccessAssumption DEF AccessInv, Login, KnowsLocally, Enters, AskServer, server, blocked, history, GoesTo,
    Address, Idle, NoHook, AccessTypeOK, LoginOK, PageOK, BlockOK, Views, PageRoles, Accounts, NoPage, GrantHooks,
    Grants, Logins
<1>3. Waits' /\ Leaves' /\ Heard'
  BY <1>2 DEF AccessInv, Waits, Leaves, Heard, HasContext, Login, KnowsLocally, Enters, AskServer, server, blocked,
    history, GoesTo, Address, Idle, NoHook
<1>4. QED
  BY <1>2, <1>3 DEF AccessInv

LEMMA SetupKeeps ==
    ASSUME AccessInv, NEW t \in Tenants, Setup(t)
    PROVE  AccessInv'
<1>1. ContextsOK'
  BY DEF Setup, AccessInv, AccessTypeOK, ContextsOK
<1>2. AccessTypeOK'
  BY <1>1, AccessAssumption DEF AccessInv, Setup, KnowsLocally, server, blocked, grants, history, AccessTypeOK, LoginOK,
    PageOK, BlockOK, Logins
<1>3. Waits' /\ Leaves' /\ Heard'
  BY <1>2 DEF AccessInv, Waits, Leaves, Heard, HasContext, Setup, KnowsLocally, server, blocked, grants, history
<1>4. QED
  BY <1>2, <1>3 DEF AccessInv

LEMMA ScoutKeeps ==
    ASSUME AccessInv, NEW t \in Tenants, Scout(t)
    PROVE  AccessInv'
<1>1. ContextsOK'
  BY ContextsKept
<1>2. AccessTypeOK'
  BY <1>1, AccessAssumption DEF AccessInv, Scout, LocalGrant, GoesTo, Address, server, blocked, history, NoHook,
    AccessTypeOK, LoginOK, PageOK, BlockOK, Views, PageRoles, Accounts, NoPage, GrantHooks, Grants
<1>3. Waits' /\ Leaves' /\ Heard'
  BY <1>2 DEF AccessInv, Waits, Leaves, Heard, HasContext, Scout, LocalGrant, GoesTo, Address, server, blocked,
    history, NoHook
<1>4. QED
  BY <1>2, <1>3 DEF AccessInv

LEMMA PickRoleKeeps ==
    ASSUME AccessInv, PickRole
    PROVE  AccessInv'
<1>1. ContextsOK'
  BY ContextsKept
<1>2. AccessTypeOK'
  BY <1>1, AccessAssumption DEF AccessInv, PickRole, LocalGrant, Enters, server, blocked, history, GoesTo, Address, Idle,
    NoHook, AccessTypeOK, LoginOK, PageOK, BlockOK, Views, PageRoles, Accounts, NoPage, GrantHooks, Grants, Logins
<1>3. Waits' /\ Leaves' /\ Heard'
  BY <1>2 DEF AccessInv, Waits, Leaves, Heard, HasContext, PickRole, LocalGrant, Enters, server, blocked, history,
    GoesTo, Address, Idle, NoHook
<1>4. QED
  BY <1>2, <1>3 DEF AccessInv

LEMMA LeaveSetupKeeps ==
    ASSUME AccessInv, LeaveSetup
    PROVE  AccessInv'
<1>1. ContextsOK'
  BY DEF LeaveSetup, AccessInv, AccessTypeOK, ContextsOK
<1>2. AccessTypeOK'
  BY <1>1, AccessAssumption DEF AccessInv, LeaveSetup, server, blocked, grants, history, AccessTypeOK, LoginOK, PageOK,
    BlockOK, Logins
<1>3. Waits' /\ Leaves' /\ Heard'
  BY <1>2 DEF AccessInv, Waits, Leaves, Heard, HasContext, LeaveSetup, server, blocked, grants, history
<1>4. QED
  BY <1>2, <1>3 DEF AccessInv

LEMMA ReenterSetupKeeps ==
    ASSUME AccessInv, ReenterSetup
    PROVE  AccessInv'
<1>1. ContextsOK'
  BY DEF ReenterSetup, AccessInv, AccessTypeOK, ContextsOK
<1>2. AccessTypeOK'
  BY <1>1, AccessAssumption DEF AccessInv, ReenterSetup, server, blocked, grants, history, AccessTypeOK, LoginOK, PageOK,
    BlockOK, Logins
<1>3. Waits' /\ Leaves' /\ Heard'
  BY <1>2 DEF AccessInv, Waits, Leaves, Heard, HasContext, ReenterSetup, server, blocked, grants, history
<1>4. QED
  BY <1>2, <1>3 DEF AccessInv

LEMMA VisitKeeps ==
    ASSUME AccessInv, Visit
    PROVE  AccessInv'
<1>1. ContextsOK'
  BY DEF Visit, AccessInv, AccessTypeOK, ContextsOK
<1>2. AccessTypeOK'
  BY <1>1, AccessAssumption DEF AccessInv, Visit, GoesTo, Address, server, blocked, history, NoHook, AccessTypeOK, LoginOK,
    PageOK, BlockOK, Views, PageRoles, Accounts, NoPage, GrantHooks, Grants
<1>3. Waits' /\ Leaves' /\ Heard'
  BY <1>2 DEF AccessInv, Waits, Leaves, Heard, HasContext, Visit, GoesTo, Address, server, blocked, history, NoHook
<1>4. QED
  BY <1>2, <1>3 DEF AccessInv

LEMMA LogoutKeeps ==
    ASSUME AccessInv, Logout
    PROVE  AccessInv'
<1>1. ContextsOK'
  BY ContextsKept
<1>2. AccessTypeOK'
  BY <1>1, AccessAssumption DEF AccessInv, Logout, GoesTo, NoPage, server, blocked, history, NoHook, AccessTypeOK, LoginOK,
    PageOK, BlockOK, Views, PageRoles, Accounts, GrantHooks, Grants
<1>3. Waits' /\ Leaves' /\ Heard'
  BY <1>2 DEF AccessInv, Waits, Leaves, Heard, HasContext, Logout, GoesTo, NoPage, server, blocked, history, NoHook
<1>4. QED
  BY <1>2, <1>3 DEF AccessInv

LEMMA ConnectKeeps ==
    ASSUME AccessInv, Connect
    PROVE  AccessInv'
<1>1. ContextsOK'
  BY DEF Connect, AccessInv, AccessTypeOK, ContextsOK
<1>2. AccessTypeOK'
  BY <1>1, AccessAssumption DEF AccessInv, Connect, user, blocked, grants, history, AccessTypeOK, LoginOK, PageOK, BlockOK
<1>3. Waits' /\ Leaves' /\ Heard'
  BY <1>2 DEF AccessInv, Waits, Leaves, Heard, HasContext, Connect, user, blocked, grants, history
<1>4. QED
  BY <1>2, <1>3 DEF AccessInv

LEMMA UnblockKeeps ==
    ASSUME AccessInv, Unblock
    PROVE  AccessInv'
<1>1. ContextsOK'
  BY DEF Unblock, AccessInv, AccessTypeOK, ContextsOK
<1>2. AccessTypeOK'
  BY <1>1, AccessAssumption DEF AccessInv, Unblock, user, blocked, grants, history, AccessTypeOK, LoginOK, PageOK, BlockOK
<1>3. Waits' /\ Leaves' /\ Heard'
  BY <1>2 DEF AccessInv, Waits, Leaves, Heard, HasContext, Unblock, user, blocked, grants, history
<1>4. QED
  BY <1>2, <1>3 DEF AccessInv

LEMMA SwitchModeKeeps ==
    ASSUME AccessInv, NEW r \in PageRoles, SwitchMode(r)
    PROVE  AccessInv'
<1>1. ContextsOK'
  BY ContextsKept
<1>2. AccessTypeOK'
  BY <1>1, AccessAssumption DEF AccessInv, SwitchMode, HasContext, GoesTo, Address, server, blocked, history, NoHook,
    AccessTypeOK, LoginOK, PageOK, BlockOK, Views, PageRoles, Accounts, NoPage, GrantHooks, Grants
<1>3. Waits' /\ Leaves' /\ Heard'
  BY <1>2 DEF AccessInv, Waits, Leaves, Heard, HasContext, SwitchMode, GoesTo, Address, server, blocked, history,
    NoHook
<1>4. QED
  BY <1>2, <1>3 DEF AccessInv

LEMMA BlockKeeps ==
    ASSUME AccessInv, NEW d \in site.blocks, Block(d)
    PROVE  AccessInv'
<1>1. ContextsOK'
  BY DEF Block, AccessInv, AccessTypeOK, ContextsOK
<1>2. AccessTypeOK'
  BY <1>1, AccessAssumption DEF AccessInv, Block, user, blocked, grants, history, AccessTypeOK, LoginOK, PageOK, BlockOK,
    Site
<1>3. Waits' /\ Leaves' /\ Heard'
  BY <1>2 DEF AccessInv, Waits, Leaves, Heard, HasContext, Block, user, blocked, grants, history
<1>4. QED
  BY <1>2, <1>3 DEF AccessInv

LEMMA AccessStarts == AccessInit => AccessInv
<1> SUFFICES ASSUME AccessInit PROVE AccessInv
  OBVIOUS
<1>1. EachOnce(contexts)
  BY DEF AccessInit, EachOnce
<1>2. ContextsOK
  BY <1>1, ContextsAre
<1>3. LoginOK /\ PageOK /\ BlockOK
  BY NoneTyped DEF AccessInit, LoginOK, PageOK, BlockOK, NoBlock
<1>4. AccessTypeOK
  BY <1>2, <1>3, NoneTyped DEF AccessInit, AccessTypeOK
<1>5. Waits /\ Leaves /\ Heard
  BY NoneTyped, AccessAssumption DEF AccessInit, Waits, Leaves, Heard, NoPage, NoRequest, Idle
<1>6. QED
  BY <1>4, <1>5 DEF AccessInv

LEMMA AccessKept == AccessInv /\ [AccessNext]_accessVars => AccessInv'
<1> SUFFICES ASSUME AccessInv, [AccessNext]_accessVars PROVE AccessInv'
  OBVIOUS
<1>1. CASE UNCHANGED accessVars
  <2>1. UNCHANGED <<server, contexts, known, token, user, blocked, req, grants, history>>
    BY <1>1 DEF accessVars
  <2>2. AccessTypeOK'
    BY <2>1 DEF AccessInv, AccessTypeOK, ContextsOK, LoginOK, PageOK, BlockOK, server, user, blocked, grants, history
  <2>3. Waits' /\ Leaves' /\ Heard'
    BY <2>1 DEF AccessInv, Waits, Leaves, Heard, HasContext, user, blocked, history
  <2>4. QED
    BY <2>2, <2>3 DEF AccessInv
<1>2. CASE Page
  BY <1>2, BootKeeps, OpenKeeps, SilentAnswerKeeps, ServerAnswerKeeps, SetupAnswerKeeps DEF Page
<1>3. CASE Hook
  BY <1>3, ReadKeeps, SendGrantKeeps, SuppressedKeeps, FallBackKeeps, RenewKeeps DEF Hook
<1>4. CASE Fire \/ Visible \/ Redirect \/ Tick
  BY <1>4, FireKeeps, VisibleKeeps, RedirectKeeps, TickKeeps
<1>5. CASE \E s \in FetchSlots : Steps(s) \/ SendOther(s)
  BY <1>5, ServeKeeps, ArriveKeeps, ArriveBlockedKeeps, ClearKeeps, ScheduleKeeps, GrantedKeeps, SendOtherKeeps DEF Steps
<1>6. CASE \E t \in Tenants : Login(t) \/ Setup(t) \/ Scout(t)
  BY <1>6, LoginKeeps, SetupKeeps, ScoutKeeps
<1>7. CASE PickRole \/ LeaveSetup \/ ReenterSetup \/ Visit \/ Logout \/ Reload
  BY <1>7, PickRoleKeeps, LeaveSetupKeeps, ReenterSetupKeeps, VisitKeeps, LogoutKeeps, ReloadKeeps
<1>8. CASE Connect \/ Unblock \/ (\E d \in site.blocks : Block(d)) \/ (\E r \in PageRoles : SwitchMode(r))
  BY <1>8, ConnectKeeps, UnblockKeeps, BlockKeeps, SwitchModeKeeps
<1>9. QED
  BY <1>1, <1>2, <1>3, <1>4, <1>5, <1>6, <1>7, <1>8 DEF AccessNext

-----------------------------------------------------------------------------
(* The behaviours of Browser: one of its two parts moves, the other rests.  *)
LEMMA OnePart ==
    ASSUME [BrowserNext]_<<accessVars, localVars, part>>
    PROVE  [AccessNext]_accessVars /\ [Local!Next]_localVars
<1>1. CASE BrowserNext
  BY <1>1 DEF BrowserNext
<1>2. CASE UNCHANGED <<accessVars, localVars, part>>
  BY <1>2
<1>3. QED
  BY <1>1, <1>2

LEMMA AccessHolds == BrowserSpec => []AccessInv
<1>1. BrowserInit => AccessInv
  BY AccessStarts DEF BrowserInit
<1>2. AccessInv /\ [BrowserNext]_<<accessVars, localVars, part>> => AccessInv'
  BY AccessKept, OnePart
<1>3. QED
  BY <1>1, <1>2, PTL DEF BrowserSpec

(* A page whose context a block has deleted is left.                        *)
THEOREM NoPageOrphaned == BrowserSpec => []NoOrphanPage
<1>1. AccessInv => NoOrphanPage
  BY DEF AccessInv, Leaves, NoOrphanPage
<1>2. QED
  BY <1>1, AccessHolds, PTL

(* A request that is begun, and a grant of this browser's own that takes    *)
(* another's place.                                                         *)
LEMMA WhoSends ==
    ASSUME AccessInv, AccessNext, NEW s \in FetchSlots, req[s].at = "idle", req'[s].at = "sent"
    PROVE  ~Blocked
<1>1. CASE \E o \in FetchSlots : SendGrant(o) \/ SendOther(o)
  BY <1>1 DEF SendGrant, SendOther, Sends
<1>2. CASE Page \/ Read \/ Suppressed \/ FallBack \/ Renew \/ Fire \/ Visible \/ Redirect
  <2>1. req' = req
    BY <1>2 DEF Page, Boot, Open, SilentAnswer, ServerAnswer, SetupAnswer, Read, Suppressed, FallBack, Renew, Fire, Visible,
                Unblocks, Redirect
  <2>2. QED
    BY <2>1
<1>3. CASE Tick
  BY <1>3 DEF AccessInv, AccessTypeOK, Tick, Fetches
<1>4. CASE Reload
  BY <1>4, NoneTyped DEF Reload
<1>5. ASSUME NEW o \in FetchSlots, Steps(o) PROVE FALSE
  <2>1. CASE o # s
    BY <1>5, <2>1 DEF AccessInv, AccessTypeOK, Steps, Serve, Fail, Arrive, ArriveBlocked, Clear, Schedule, Granted, Done
  <2>2. CASE o = s
    BY <1>5, <2>2 DEF Steps, Serve, Fail, Arrive, ArriveBlocked, Clear, Schedule, Granted
  <2>3. QED
    BY <2>1, <2>2
<1>6. CASE \E t \in Tenants : Login(t) \/ Setup(t) \/ Scout(t)
  BY <1>6 DEF Login, Setup, Scout
<1>7. CASE PickRole \/ LeaveSetup \/ ReenterSetup \/ Visit \/ Logout \/ Connect \/ Unblock
  BY <1>7 DEF PickRole, LeaveSetup, ReenterSetup, Visit, Logout, Connect, Unblock
<1>8. CASE (\E r \in PageRoles : SwitchMode(r)) \/ (\E d \in site.blocks : Block(d))
  BY <1>8 DEF SwitchMode, Block
<1>9. QED
  BY <1>1, <1>2, <1>3, <1>4, <1>5, <1>6, <1>7, <1>8 DEF AccessNext, Hook

LEMMA Silent == AccessInv /\ [AccessNext]_accessVars => SilentWhileBlocked \/ UNCHANGED accessVars
<1> SUFFICES ASSUME AccessInv, AccessNext, NEW s \in FetchSlots, req[s].at = "idle", req'[s].at = "sent",
                    told # 0, ~late, ~capped
             PROVE  FALSE
  BY DEF SilentWhileBlocked
<1>1. told \in Nat /\ told > 0
  BY DEF AccessInv, AccessTypeOK
<1>2. block.on /\ block.left >= told /\ block.left \in Nat
  BY <1>1 DEF AccessInv, AccessTypeOK, BlockOK, Heard
<1>3. QED
  BY <1>1, <1>2, WhoSends DEF Blocked

LEMMA GrantsKept == AccessInv /\ [AccessNext]_accessVars => RealGrantIsKept
<1> SUFFICES ASSUME AccessInv, [AccessNext]_accessVars, NEW k \in DOMAIN cache,
                    cache[k] # None, cache[k].from = "server", cache'[k] # None, cache'[k].from = "local"
             PROVE  view.at = "login" /\ view'.at = "opening"
  BY DEF RealGrantIsKept
<1>1. cache' # cache
  OBVIOUS
<1>2. CASE \E s \in FetchSlots : Granted(s)
  <2>1. PICK s \in FetchSlots : WriteGrantToCache(req[s].tenant, req[s].account, [from |-> "server", left |-> req[s].left])
    BY <1>2 DEF Granted
  <2>2. QED
    BY <2>1 DEF AccessInv, AccessTypeOK, WriteGrantToCache
<1>3. CASE Tick
  <2>1. cache'[k] = OlderGrant(cache[k]) /\ cache[k] \in Grants
    BY <1>3 DEF Tick, AccessInv, AccessTypeOK
  <2>2. cache'[k].from = cache[k].from
    BY <2>1 DEF OlderGrant, Grants
  <2>3. QED
    BY <2>2
<1>4. CASE PickRole
  <2>1. view.at = "login"
    BY <1>4 DEF PickRole, AccessInv, Waits
  <2>2. QED
    BY <1>4, <2>1 DEF PickRole, Enters, GoesTo, Address
<1>5. CASE \E t \in Tenants : Scout(t)
  BY <1>5 DEF Scout, GoesTo, Address
<1>6. CASE Page
  BY <1>1, <1>6 DEF Page, Boot, Open, SilentAnswer, ServerAnswer, SetupAnswer, grants
<1>7. CASE Hook
  <2>1. ASSUME NEW s \in FetchSlots, SendGrant(s) PROVE cache' = cache
    BY <2>1 DEF SendGrant, Sends
  <2>2. QED
    BY <1>1, <1>7, <2>1 DEF Hook, Read, Suppressed, FallBack, Renew
<1>8. CASE Fire \/ Visible \/ Redirect
  BY <1>1, <1>8 DEF Fire, Visible, Unblocks, Redirect
<1>9. ASSUME NEW s \in FetchSlots, Serve(s) \/ Fail(s) \/ Arrive(s) \/ ArriveBlocked(s) \/ Clear(s) \/ Schedule(s) \/ SendOther(s)
      PROVE  FALSE
  BY <1>1, <1>9 DEF Serve, Fail, Arrive, ArriveBlocked, Clear, Schedule, SendOther, Sends, grants
<1>10. ASSUME NEW t \in Tenants, Login(t) \/ Setup(t) PROVE FALSE
  BY <1>1, <1>10 DEF Login, Setup, grants
<1>11. CASE LeaveSetup \/ ReenterSetup \/ Visit \/ Logout \/ Reload \/ Connect \/ Unblock \/ UNCHANGED accessVars
  BY <1>1, <1>11 DEF LeaveSetup, ReenterSetup, Visit, Logout, Reload, Connect, Unblock, grants, accessVars
<1>12. CASE (\E r \in PageRoles : SwitchMode(r)) \/ (\E d \in site.blocks : Block(d))
  BY <1>1, <1>12 DEF SwitchMode, Block, grants
<1>13. QED
  BY <1>2, <1>3, <1>4, <1>5, <1>6, <1>7, <1>8, <1>9, <1>10, <1>11, <1>12 DEF AccessNext, Steps

(* While it is blocked the browser is silent, and it never trades the       *)
(* server's grant for one of its own.                                       *)
THEOREM Obeyed == BrowserSpec => ServerIsObeyed
<1>1. AccessInv /\ [BrowserNext]_<<accessVars, localVars, part>> => [SilentWhileBlocked /\ RealGrantIsKept]_accessVars
  BY Silent, GrantsKept, OnePart
<1>2. QED
  BY <1>1, AccessHolds, PTL DEF BrowserSpec, ServerIsObeyed

-----------------------------------------------------------------------------
(* Local tenants and accounts.  The form of a set-up has a slug from where  *)
(* its second step, a question or a set-up under way would read it.         *)
Doing(j, kind) == jobs[j] # Nothing /\ jobs[j].kind = kind

Forms == [step : {"tenant", "admin", "done"}, slug : Slugs \cup {Nothing}, due : BOOLEAN, error : BOOLEAN,
          asks : SUBSET Local!Ask, checked : Slugs \cup {Nothing}, loading : Jobs \cup {Nothing}]

Filled(f) == \/ f.step # "tenant"
             \/ f.asks # {}
             \/ f.due
             \/ f.loading # Nothing
             => f.slug # Nothing

FormFilled ==
    /\ Filled(form)
    /\ screen.at \in {"login", "setup"} => screen.chosen = Nothing

(* A tenant of the server's is written down with the slug it has there.     *)
SlugsKept == \A t \in Servers : configs[t] # Nothing => configs[t].slug = plan.slugOf[t]

(* What was stored is still in both tables, but for a name in dispute.      *)
EntersHere ==
    \A e \in entered : e.user \notin disputed =>
        /\ accounts[e.user] # Nothing /\ accounts[e.user].tenant = e.tenant /\ accounts[e.user].pass = e.pass
        /\ configs[e.tenant] # Nothing

(* A set-up has a tenant of its own, whose configuration is there from its  *)
(* second step on.                                                          *)
SetupsFit ==
    /\ \A j \in Jobs : Doing(j, "setup") =>
          /\ jobs[j].at = "check" <=> jobs[j].tenant = Nothing
          /\ jobs[j].at = "config" => configs[jobs[j].tenant] = Nothing
          /\ jobs[j].at \in {"account", "complete"} => configs[jobs[j].tenant] # Nothing
    /\ \A j, k \in Jobs :
          Doing(j, "setup") /\ Doing(k, "setup") /\ jobs[j].tenant = jobs[k].tenant /\ j # k => jobs[j].tenant = Nothing

(* Of the copies of one user name one is under way, and at its last step    *)
(* the account is stored as it is; but for a name in dispute.               *)
CopiesFit ==
    /\ \A j, k \in Jobs :
          Doing(j, "copy") /\ Doing(k, "copy") /\ jobs[j].user = jobs[k].user /\ j # k => jobs[j].user \in disputed
    /\ \A j \in Jobs : Doing(j, "copy") /\ jobs[j].at = "config" /\ jobs[j].user \notin disputed =>
          accounts[jobs[j].user] = Local!Copy(jobs[j])

LocalInv ==
    /\ Local!LocalTypeOK /\ FormFilled /\ SlugsKept /\ EntersHere /\ SetupsFit /\ CopiesFit
    /\ Local!HasAdmin /\ Local!RightTenant

LEMMA JobTyped ==
    ASSUME Local!LocalTypeOK, NEW j \in Jobs, jobs[j] # Nothing
    PROVE  /\ jobs[j].kind = "setup" => jobs[j] \in Local!Setups
           /\ jobs[j].kind \in {"login", "device"} => jobs[j] \in Local!Logins
           /\ jobs[j].kind = "copy" => jobs[j] \in Local!Copies
           /\ jobs[j].kind \in {"setup", "login", "device", "copy"}
BY DEF Local!LocalTypeOK, Local!Setups, Local!Logins, Local!Copies

(* A job that takes a step, or ends.                                        *)
LEMMA JobSteps ==
    ASSUME Local!LocalTypeOK, NEW j \in Jobs, NEW x \in Local!Setups \cup Local!Logins \cup Local!Copies \cup {Nothing},
           jobs' = [jobs EXCEPT ![j] = x]
    PROVE  /\ jobs' \in [Jobs -> Local!Setups \cup Local!Logins \cup Local!Copies \cup {Nothing}]
           /\ jobs'[j] = x /\ \A k \in Jobs \ {j} : jobs'[k] = jobs[k]
BY DEF Local!LocalTypeOK

LEMMA NotNothing ==
    /\ \A x \in Local!Setups \cup Local!Logins \cup Local!Copies : x # Nothing
    /\ \A x \in Local!Config : x # Nothing
    /\ \A x \in Local!Account : x # Nothing
    /\ \A x \in Slugs : x # Nothing
    /\ \A j \in Jobs : j # Nothing
    /\ \A t \in Fresh \cup Servers : t # Nothing
BY BrowserAssumption DEF Local!LocalBounds, Local!AllTenants

LEMMA ShowsKept ==
    ASSUME form \in Forms, Filled(form), NEW j \in Jobs, NEW step \in {"tenant", "admin", "done"}, Local!Shows(j, step)
    PROVE  form' \in Forms /\ Filled(form)'
<1>1. CASE form.loading = j
  <2>1. form' = [form EXCEPT !.step = step, !.loading = Nothing] /\ form.slug # Nothing
    BY <1>1, NotNothing DEF Local!Shows, Filled
  <2>2. QED
    BY <2>1 DEF Forms, Filled
<1>2. CASE form.loading # j
  BY <1>2 DEF Local!Shows
<1>3. QED
  BY <1>1, <1>2

(* The first look at the slug: a set-up ends, or goes on with a new tenant. *)
LEMMA SlugCheckedKeeps == ASSUME LocalInv, NEW j \in Jobs, Local!SlugChecked(j) PROVE LocalInv'
<1>1. jobs[j] \in Local!Setups /\ jobs[j].at = "check" /\ jobs[j].tenant = Nothing /\ Doing(j, "setup")
  <2>1. jobs[j] # Nothing /\ jobs[j].kind = "setup" /\ jobs[j].at = "check"
    BY DEF Local!SlugChecked, Local!Is
  <2>2. QED
    BY <2>1, JobTyped DEF LocalInv, SetupsFit, Doing
<1>2. UNCHANGED <<plan, left, connected, people, accounts, configs, screen, entered, disputed>>
  BY DEF Local!SlugChecked, Local!tables, Local!history
<1>3. form' \in Forms /\ Filled(form)'
  BY ShowsKept DEF Local!SlugChecked, LocalInv, Local!LocalTypeOK, FormFilled, Forms
<1>4. CASE jobs' = [jobs EXCEPT ![j] = Nothing]
  <2>1. /\ jobs' \in [Jobs -> Local!Setups \cup Local!Logins \cup Local!Copies \cup {Nothing}]
        /\ jobs'[j] = Nothing /\ \A k \in Jobs \ {j} : jobs'[k] = jobs[k]
    BY <1>4, JobSteps DEF LocalInv
  <2>2. Local!LocalTypeOK'
    BY <1>2, <1>3, <2>1 DEF LocalInv, Local!LocalTypeOK, Forms
  <2>3. FormFilled' /\ SlugsKept' /\ EntersHere' /\ Local!RightTenant'
    BY <1>2, <1>3 DEF LocalInv, FormFilled, SlugsKept, EntersHere, Local!RightTenant
  <2>4. SetupsFit' /\ CopiesFit'
    BY <1>2, <2>1 DEF LocalInv, SetupsFit, CopiesFit, Doing, Local!Copy
  <2>5. Local!HasAdmin'
    BY <1>1, <1>2, <2>1 DEF LocalInv, Local!HasAdmin, Local!Is
  <2>6. QED
    BY <2>2, <2>3, <2>4, <2>5 DEF LocalInv
<1>5. ASSUME NEW t \in Local!NewId, jobs' = [jobs EXCEPT ![j] = [jobs[j] EXCEPT !.at = "config", !.tenant = t]]
      PROVE  LocalInv'
  <2> DEFINE x == [jobs[j] EXCEPT !.at = "config", !.tenant = t]
  <2>1. t \in Fresh /\ configs[t] = Nothing /\ \A k \in Jobs : Doing(k, "setup") => jobs[k].tenant # t
    BY DEF Local!NewId, Doing
  <2>2. x \in Local!Setups /\ x.kind = "setup" /\ x.at = "config" /\ x.tenant = t /\ x # Nothing
    BY <1>1, <2>1, NotNothing DEF Local!Setups
  <2>3. /\ jobs' \in [Jobs -> Local!Setups \cup Local!Logins \cup Local!Copies \cup {Nothing}]
        /\ jobs'[j] = x /\ \A k \in Jobs \ {j} : jobs'[k] = jobs[k]
    BY <1>5, <2>2, JobSteps DEF LocalInv
  <2> HIDE DEF x
  <2>4. Local!LocalTypeOK'
    BY <1>2, <1>3, <2>3 DEF LocalInv, Local!LocalTypeOK, Forms
  <2>5. FormFilled' /\ SlugsKept' /\ EntersHere' /\ Local!RightTenant'
    BY <1>2, <1>3 DEF LocalInv, FormFilled, SlugsKept, EntersHere, Local!RightTenant
  <2>6. SetupsFit'
    BY <1>2, <2>1, <2>2, <2>3, NotNothing DEF LocalInv, SetupsFit, Doing
  <2>7. CopiesFit'
    BY <1>2, <2>2, <2>3 DEF LocalInv, CopiesFit, Doing, Local!Copy
  <2>8. Local!HasAdmin'
    BY <1>1, <1>2, <2>3 DEF LocalInv, Local!HasAdmin, Local!Is
  <2>9. QED
    BY <2>4, <2>5, <2>6, <2>7, <2>8 DEF LocalInv
<1>6. QED
  <2>1. CASE Local!Local(jobs[j].slug)
    BY <1>4, <2>1 DEF Local!SlugChecked, Local!Ends, Local!Becomes
  <2>2. CASE ~Local!Local(jobs[j].slug)
    BY <1>5, <2>2 DEF Local!SlugChecked, Local!Becomes
  <2>3. QED
    BY <2>1, <2>2

(* The account of a set-up, or the end of one whose name is taken.          *)
LEMMA AdminStoredKeeps == ASSUME LocalInv, NEW j \in Jobs, Local!AdminStored(j) PROVE LocalInv'
<1> DEFINE who == jobs[j].user
           t    == jobs[j].tenant
<1>1. jobs[j] \in Local!Setups /\ jobs[j].at = "account" /\ Doing(j, "setup")
  <2>1. jobs[j] # Nothing /\ jobs[j].kind = "setup" /\ jobs[j].at = "account"
    BY DEF Local!AdminStored, Local!Is
  <2>2. QED
    BY <2>1, JobTyped DEF LocalInv, Doing
<1>2. who \in Users /\ t \in Fresh /\ configs[t] # Nothing /\ jobs[j].pass \in Passwords
  BY <1>1 DEF LocalInv, SetupsFit, Local!Setups
<1>3. UNCHANGED <<plan, left, connected, people, configs, screen>>
  BY DEF Local!AdminStored
<1>4. CASE accounts[who] = Nothing
  <2> DEFINE row == [tenant |-> t, pass |-> jobs[j].pass, role |-> "admin"]
             x   == [jobs[j] EXCEPT !.at = "complete"]
             e   == [tenant |-> t, user |-> who, pass |-> jobs[j].pass]
  <2>1. /\ accounts' = [accounts EXCEPT ![who] = row] /\ entered' = entered \cup {e} /\ disputed' = disputed
        /\ Local!Shows(j, "done") /\ jobs' = [jobs EXCEPT ![j].at = "complete"]
    BY <1>4 DEF Local!AdminStored, Local!Goes
  <2>2. row \in Local!Account /\ row # Nothing /\ row.tenant = t /\ row.pass = jobs[j].pass /\ row.role = "admin"
    BY <1>2, NotNothing DEF Local!Account, Local!AllTenants, Local!PersonRoles
  <2>3. x \in Local!Setups /\ x.kind = "setup" /\ x.at = "complete" /\ x.tenant = t /\ x # Nothing
    BY <1>1, NotNothing DEF Local!Setups
  <2>4. jobs' = [jobs EXCEPT ![j] = x]
    BY <2>1
  <2>5. /\ jobs' \in [Jobs -> Local!Setups \cup Local!Logins \cup Local!Copies \cup {Nothing}]
        /\ jobs'[j] = x /\ \A k \in Jobs \ {j} : jobs'[k] = jobs[k]
    BY <2>3, <2>4, JobSteps DEF LocalInv
  <2>6. form' \in Forms /\ Filled(form)'
    BY <2>1, ShowsKept DEF LocalInv, Local!LocalTypeOK, FormFilled, Forms
  <2>7. /\ accounts' \in [Users -> Local!Account \cup {Nothing}] /\ accounts'[who] = row
        /\ \A u \in Users \ {who} : accounts'[u] = accounts[u]
    BY <1>2, <2>1, <2>2 DEF LocalInv, Local!LocalTypeOK
  <2> HIDE DEF row, x
  <2>8. entered' \subseteq [tenant : Local!AllTenants, user : Users, pass : Passwords]
    BY <1>2, <2>1 DEF LocalInv, Local!LocalTypeOK, Local!AllTenants
  <2>9. Local!LocalTypeOK'
    BY <1>3, <2>1, <2>5, <2>6, <2>7, <2>8 DEF LocalInv, Local!LocalTypeOK, Forms
  <2>10. FormFilled' /\ SlugsKept' /\ Local!RightTenant'
    BY <1>3, <2>6 DEF LocalInv, FormFilled, SlugsKept, Local!RightTenant
  <2>11. EntersHere'
    <3> SUFFICES ASSUME NEW d \in entered', d.user \notin disputed
                 PROVE  /\ accounts'[d.user] # Nothing /\ accounts'[d.user].tenant = d.tenant
                        /\ accounts'[d.user].pass = d.pass /\ configs[d.tenant] # Nothing
      BY <1>3, <2>1 DEF EntersHere
    <3>1. CASE d = e
      BY <1>2, <2>2, <2>7, <3>1
    <3>2. CASE d \in entered
      <4>1. accounts[d.user] # Nothing /\ accounts[d.user].tenant = d.tenant /\ accounts[d.user].pass = d.pass
            /\ configs[d.tenant] # Nothing /\ d.user \in Users
        BY <3>2 DEF LocalInv, EntersHere, Local!LocalTypeOK
      <4>2. QED
        BY <1>4, <2>7, <4>1
    <3>3. QED
      BY <2>1, <3>1, <3>2
  <2>12. SetupsFit'
    BY <1>1, <1>2, <1>3, <2>3, <2>5, NotNothing DEF LocalInv, SetupsFit, Doing
  <2>13. CopiesFit'
    <3>1. \A k \in Jobs : Doing(k, "copy")' => k # j /\ jobs'[k] = jobs[k] /\ Doing(k, "copy") /\ jobs[k] \in Local!Copies
      BY <2>3, <2>5, JobTyped DEF Doing, LocalInv
    <3>2. \A k \in Jobs : Doing(k, "copy") => Local!Copy(jobs[k]) # Nothing /\ jobs[k].user \in Users
      BY JobTyped, NotNothing DEF Doing, LocalInv, Local!Copies, Local!Copy, Local!Account, Local!AllTenants
    <3>3. QED
      BY <1>4, <2>1, <2>7, <3>1, <3>2 DEF LocalInv, CopiesFit, Local!Copy
  <2>14. Local!HasAdmin'
    <3> SUFFICES ASSUME NEW f \in Fresh, configs[f] # Nothing
                 PROVE  \/ \E u \in Users : accounts'[u] # Nothing /\ accounts'[u].tenant = f /\ accounts'[u].role = "admin"
                        \/ \E k \in Jobs : Local!Is(k, {"setup"}, "account")' /\ jobs'[k].tenant = f
                        \/ disputed # {}
      BY <1>3, <2>1 DEF Local!HasAdmin, Local!Is
    <3>1. CASE f = t
      BY <1>2, <2>2, <2>7, <3>1
    <3>2. CASE f # t
      <4>1. CASE \E u \in Users : accounts[u] # Nothing /\ accounts[u].tenant = f /\ accounts[u].role = "admin"
        BY <1>4, <2>7, <4>1
      <4>2. CASE \E k \in Jobs : Local!Is(k, {"setup"}, "account") /\ jobs[k].tenant = f
        BY <2>5, <3>2, <4>2 DEF Local!Is
      <4>3. QED
        BY <4>1, <4>2 DEF LocalInv, Local!HasAdmin
    <3>3. QED
      BY <3>1, <3>2
  <2>15. QED
    BY <2>9, <2>10, <2>11, <2>12, <2>13, <2>14 DEF LocalInv
<1>5. CASE accounts[who] # Nothing
  <2>1. /\ disputed' = disputed \cup {who} /\ Local!Shows(j, form.step) /\ jobs' = [jobs EXCEPT ![j] = Nothing]
        /\ accounts' = accounts /\ entered' = entered
    BY <1>5 DEF Local!AdminStored, Local!Ends, Local!Becomes
  <2>2. /\ jobs' \in [Jobs -> Local!Setups \cup Local!Logins \cup Local!Copies \cup {Nothing}]
        /\ jobs'[j] = Nothing /\ \A k \in Jobs \ {j} : jobs'[k] = jobs[k]
    BY <2>1, JobSteps DEF LocalInv
  <2>3. form' \in Forms /\ Filled(form)'
    BY <2>1, ShowsKept DEF LocalInv, Local!LocalTypeOK, FormFilled, Forms
  <2>4. Local!LocalTypeOK'
    BY <1>2, <1>3, <2>1, <2>2, <2>3 DEF LocalInv, Local!LocalTypeOK, Forms
  <2>5. FormFilled' /\ SlugsKept' /\ EntersHere' /\ Local!RightTenant'
    BY <1>3, <2>1, <2>3 DEF LocalInv, FormFilled, SlugsKept, EntersHere, Local!RightTenant
  <2>6. SetupsFit' /\ CopiesFit'
    BY <1>3, <2>1, <2>2 DEF LocalInv, SetupsFit, CopiesFit, Doing, Local!Copy
  <2>7. Local!HasAdmin'
    BY <2>1 DEF Local!HasAdmin
  <2>8. QED
    BY <2>4, <2>5, <2>6, <2>7 DEF LocalInv
<1>6. QED
  BY <1>4, <1>5

(* A log-in looks here.                                                     *)
LEMMA LocalLoginKeeps == ASSUME LocalInv, NEW j \in Jobs, Local!LocalLogin(j) PROVE LocalInv'
<1>1. jobs[j] \in Local!Logins /\ jobs[j].at = "account" /\ jobs[j] # Nothing
  BY JobTyped DEF Local!LocalLogin, Local!Is, LocalInv
<1>2. UNCHANGED <<plan, left, connected, people, accounts, configs, entered, disputed>>
  BY DEF Local!LocalLogin, Local!tables, Local!history
<1>3. PICK x \in Local!Logins \cup {Nothing} : jobs' = [jobs EXCEPT ![j] = x]
  <2>1. CASE jobs' = [jobs EXCEPT ![j] = Nothing]
    BY <2>1
  <2>2. CASE jobs' = [jobs EXCEPT ![j].at = "server"]
    BY <1>1, <2>2 DEF Local!Logins
  <2>3. QED
    BY <2>1, <2>2 DEF Local!LocalLogin, Local!Ends, Local!Becomes, Local!Goes
<1>4. /\ jobs' \in [Jobs -> Local!Setups \cup Local!Logins \cup Local!Copies \cup {Nothing}]
      /\ jobs'[j] = x /\ \A k \in Jobs \ {j} : jobs'[k] = jobs[k]
  BY <1>3, JobSteps DEF LocalInv
<1>5. \/ UNCHANGED <<screen, form>>
      \/ /\ Local!Reason(jobs[j]) = "success"
         /\ Local!Opens(accounts[jobs[j].user].tenant, jobs[j].slug)
  BY DEF Local!LocalLogin
<1>6. /\ screen' \in [at : Local!OnScreen, chosen : Slugs \cup {Nothing}] /\ form' \in Forms
      /\ FormFilled' /\ Local!RightTenant'
  <2>1. CASE UNCHANGED <<screen, form>>
    BY <1>2, <2>1 DEF LocalInv, Local!LocalTypeOK, FormFilled, Local!RightTenant, Forms
  <2>2. CASE Local!Reason(jobs[j]) = "success" /\ Local!Opens(accounts[jobs[j].user].tenant, jobs[j].slug)
    <3> DEFINE row == accounts[jobs[j].user]
    <3>1. row # Nothing /\ configs[row.tenant] # Nothing
          /\ (jobs[j].slug # Nothing => configs[row.tenant].slug = jobs[j].slug)
      BY <2>2 DEF Local!Reason, Local!Outcome
    <3>2. row.tenant \in Local!AllTenants /\ jobs[j].slug \in Slugs \cup {Nothing}
      BY <1>1, <3>1 DEF LocalInv, Local!LocalTypeOK, Local!Logins, Local!Account
    <3> HIDE DEF row
    <3>3. screen' = [at |-> row.tenant, chosen |-> jobs[j].slug] /\ form' = Local!NoForm
      BY <2>2 DEF Local!Opens, row
    <3>4. row.tenant \notin {"login", "setup"}
      BY <3>2, BrowserAssumption DEF Local!LocalBounds
    <3>5. QED
      BY <1>2, <3>1, <3>2, <3>3, <3>4 DEF Local!OnScreen, Forms, Filled, FormFilled, Local!NoForm, Local!RightTenant
  <2>3. QED
    BY <1>5, <2>1, <2>2
<1>7. Local!LocalTypeOK'
  BY <1>2, <1>4, <1>6 DEF LocalInv, Local!LocalTypeOK, Forms
<1>8. x = Nothing \/ x.kind \in {"login", "device"}
  BY <1>3 DEF Local!Logins
<1>9. SlugsKept' /\ EntersHere'
  BY <1>2 DEF LocalInv, SlugsKept, EntersHere
<1>10. SetupsFit' /\ CopiesFit'
  BY <1>2, <1>4, <1>8 DEF LocalInv, SetupsFit, CopiesFit, Doing, Local!Copy
<1>11. Local!HasAdmin'
  BY <1>1, <1>2, <1>4 DEF LocalInv, Local!HasAdmin, Local!Is, Local!Logins
<1>12. QED
  BY <1>6, <1>7, <1>9, <1>10, <1>11 DEF LocalInv

(* The server lets somebody in: the configuration is stored, if there was   *)
(* none, and the copy of the account begins.                                *)
LEMMA ServerLoginKeeps == ASSUME LocalInv, NEW j \in Jobs, Local!ServerLogin(j) PROVE LocalInv'
<1>1. jobs[j] \in Local!Logins /\ jobs[j].at = "server" /\ jobs[j] # Nothing
  BY JobTyped DEF Local!ServerLogin, Local!Is, LocalInv
<1>2. UNCHANGED <<plan, connected, people, accounts, entered>>
  BY DEF Local!ServerLogin
<1>3. ASSUME NEW p \in Local!Found(jobs[j].user, jobs[j].slug),
             Local!Becomes(j, [kind |-> "copy", at |-> "account", user |-> p.user, pass |-> p.pass, tenant |-> p.tenant,
                               role |-> p.role, setsUp |-> jobs[j].kind = "device"]),
             IF jobs[j].kind = "device" THEN UNCHANGED <<configs, screen, form>>
             ELSE /\ configs' = IF configs[p.tenant] # Nothing THEN configs
                                ELSE [configs EXCEPT ![p.tenant] = [slug |-> plan.slugOf[p.tenant], mode |-> "synced"]]
                  /\ Local!Opens(p.tenant, jobs[j].slug),
             disputed' = IF Local!Copying(p.user) THEN disputed \cup {p.user} ELSE disputed,
             UNCHANGED left
      PROVE  LocalInv'
  <2> DEFINE x == [kind |-> "copy", at |-> "account", user |-> p.user, pass |-> p.pass, tenant |-> p.tenant,
                   role |-> p.role, setsUp |-> jobs[j].kind = "device"]
             row == [slug |-> plan.slugOf[p.tenant], mode |-> "synced"]
  <2>1. p \in Local!Person /\ (jobs[j].slug # Nothing => plan.slugOf[p.tenant] = jobs[j].slug)
    BY <1>3 DEF Local!Found, LocalInv, Local!LocalTypeOK
  <2>2. p.tenant \in Servers /\ p.user \in Users /\ p.pass \in Passwords /\ p.role \in Local!PersonRoles
    BY <2>1 DEF Local!Person
  <2>3. plan.slugOf[p.tenant] \in Slugs
    BY <2>2, BrowserAssumption DEF LocalInv, Local!LocalTypeOK, Local!LocalBounds
  <2>4. row \in Local!Config /\ row # Nothing /\ row.slug = plan.slugOf[p.tenant]
    BY <2>3, NotNothing DEF Local!Config
  <2>5. x \in Local!Copies /\ x.kind = "copy" /\ x.at = "account" /\ x.user = p.user /\ x # Nothing
    <3>1. (jobs[j].kind = "device") \in BOOLEAN
      OBVIOUS
    <3>2. x \in Local!Copies
      BY <2>2, <3>1 DEF Local!Copies
    <3>3. QED
      BY <3>2, NotNothing
  <2>6. /\ jobs' \in [Jobs -> Local!Setups \cup Local!Logins \cup Local!Copies \cup {Nothing}]
        /\ jobs'[j] = x /\ \A k \in Jobs \ {j} : jobs'[k] = jobs[k]
    BY <1>3, <2>5, JobSteps DEF LocalInv, Local!Becomes
  <2> HIDE DEF x, row
  <2>7. /\ configs' \in [Local!AllTenants -> Local!Config \cup {Nothing}]
        /\ \A t \in Local!AllTenants \ {p.tenant} : configs'[t] = configs[t]
        /\ configs'[p.tenant] = configs[p.tenant] \/ (configs[p.tenant] = Nothing /\ configs'[p.tenant] = row)
    <3>1. configs' = configs \/ (configs[p.tenant] = Nothing /\ configs' = [configs EXCEPT ![p.tenant] = row])
      BY <1>3 DEF row
    <3>2. p.tenant \in Local!AllTenants /\ configs \in [Local!AllTenants -> Local!Config \cup {Nothing}]
      BY <2>2 DEF Local!AllTenants, LocalInv, Local!LocalTypeOK
    <3>3. QED
      BY <2>4, <3>1, <3>2
  <2>8. p.tenant \notin Fresh /\ p.tenant \in Local!AllTenants /\ p.tenant \notin {"login", "setup"}
    BY <2>2, BrowserAssumption DEF Local!LocalBounds, Local!AllTenants
  <2>9. SlugsKept'
    BY <1>2, <2>2, <2>4, <2>7 DEF LocalInv, SlugsKept, Local!AllTenants
  <2>10. /\ screen' \in [at : Local!OnScreen, chosen : Slugs \cup {Nothing}] /\ form' \in Forms
         /\ FormFilled' /\ Local!RightTenant'
    <3>1. CASE jobs[j].kind = "device"
      BY <1>3, <3>1 DEF LocalInv, Local!LocalTypeOK, FormFilled, Local!RightTenant, Forms
    <3>2. CASE jobs[j].kind # "device"
      <4>1. screen' = [at |-> p.tenant, chosen |-> jobs[j].slug] /\ form' = Local!NoForm
        BY <1>3, <3>2 DEF Local!Opens
      <4>2. jobs[j].slug \in Slugs \cup {Nothing}
        BY <1>1 DEF Local!Logins
      <4>3. configs'[p.tenant] # Nothing
        <5>1. CASE configs[p.tenant] = Nothing
          <6>1. configs' = [configs EXCEPT ![p.tenant] = row]
            BY <1>3, <3>2, <5>1 DEF row
          <6>2. configs'[p.tenant] = row
            BY <2>8, <6>1 DEF LocalInv, Local!LocalTypeOK
          <6>3. QED
            BY <2>4, <6>2
        <5>2. CASE configs[p.tenant] # Nothing
          BY <2>7, <5>2
        <5>3. QED
          BY <5>1, <5>2
      <4>4. jobs[j].slug # Nothing => configs'[p.tenant].slug = jobs[j].slug
        BY <1>2, <2>1, <2>2, <2>9, <4>3 DEF SlugsKept
      <4>5. QED
        BY <2>8, <4>1, <4>2, <4>3, <4>4 DEF Local!OnScreen, Forms, Filled, FormFilled, Local!NoForm, Local!RightTenant
    <3>3. QED
      BY <3>1, <3>2
  <2>11. disputed' = disputed \/ (Local!Copying(p.user) /\ disputed' = disputed \cup {p.user})
    BY <1>3
  <2>12. Local!LocalTypeOK'
    BY <1>2, <1>3, <2>2, <2>6, <2>7, <2>10, <2>11 DEF LocalInv, Local!LocalTypeOK, Forms
  <2>13. EntersHere'
    <3> SUFFICES ASSUME NEW e \in entered, e.user \notin disputed'
                 PROVE  /\ accounts[e.user] # Nothing /\ accounts[e.user].tenant = e.tenant
                        /\ accounts[e.user].pass = e.pass /\ configs'[e.tenant] # Nothing
      BY <1>2 DEF EntersHere
    <3>1. e.user \notin disputed /\ e.tenant \in Local!AllTenants
      BY <2>11 DEF LocalInv, Local!LocalTypeOK
    <3>2. QED
      BY <2>4, <2>7, <3>1 DEF LocalInv, EntersHere
  <2>14. SetupsFit'
    <3>1. \A k \in Jobs : Doing(k, "setup")' => k # j /\ jobs'[k] = jobs[k] /\ Doing(k, "setup") /\ jobs[k].tenant \in Fresh \cup {Nothing}
      BY <2>5, <2>6, JobTyped DEF Doing, LocalInv, Local!Setups
    <3>2. \A t \in Fresh : configs'[t] = configs[t]
      BY <2>7, <2>8 DEF Local!AllTenants
    <3>3. \A k \in Jobs : Doing(k, "setup") /\ jobs[k].at # "check" => jobs[k].tenant \in Fresh
      BY JobTyped DEF Doing, LocalInv, Local!Setups, SetupsFit
    <3>4. QED
      BY <3>1, <3>2, <3>3 DEF LocalInv, SetupsFit
  <2>15. CopiesFit'
    <3>1. \A k \in Jobs \ {j} : Doing(k, "copy")' => jobs'[k] = jobs[k] /\ Doing(k, "copy")
      BY <2>6 DEF Doing
    <3>2. \A k \in Jobs : Doing(k, "copy") /\ jobs[k].user = p.user => p.user \in disputed'
      BY <2>11, <1>3 DEF Local!Copying, Doing
    <3>3. \A u \in disputed : u \in disputed'
      BY <2>11
    <3>4. jobs'[j].at = "account" /\ jobs'[j].user = p.user
      BY <2>5, <2>6
    <3>5. \A k, l \in Jobs : Doing(k, "copy")' /\ Doing(l, "copy")' /\ jobs'[k].user = jobs'[l].user /\ k # l
                               => jobs'[k].user \in disputed'
      BY <3>1, <3>2, <3>3, <3>4 DEF LocalInv, CopiesFit
    <3>6. \A k \in Jobs : Doing(k, "copy")' /\ jobs'[k].at = "config" /\ jobs'[k].user \notin disputed' =>
             accounts[jobs'[k].user] = Local!Copy(jobs[k]) /\ jobs'[k] = jobs[k]
      BY <3>1, <3>3, <3>4 DEF LocalInv, CopiesFit
    <3>7. QED
      BY <1>2, <3>5, <3>6 DEF CopiesFit, Local!Copy
  <2>16. Local!HasAdmin'
    <3>1. \A t \in Fresh : configs'[t] = configs[t]
      BY <2>7, <2>8 DEF Local!AllTenants
    <3>2. \A k \in Jobs : Local!Is(k, {"setup"}, "account") => k # j /\ jobs'[k] = jobs[k]
      BY <1>1, <2>6 DEF Local!Is, Local!Logins
    <3>3. disputed # {} => disputed' # {}
      BY <2>11
    <3>4. QED
      BY <1>2, <3>1, <3>2, <3>3 DEF LocalInv, Local!HasAdmin, Local!Is
  <2>17. QED
    BY <2>9, <2>10, <2>12, <2>13, <2>14, <2>15, <2>16 DEF LocalInv
<1>4. ASSUME Local!Ends(j), UNCHANGED <<configs, screen, form, disputed>>, UNCHANGED left \/ Local!Spend("faults")
      PROVE  LocalInv'
  <2>1. /\ jobs' \in [Jobs -> Local!Setups \cup Local!Logins \cup Local!Copies \cup {Nothing}]
        /\ jobs'[j] = Nothing /\ \A k \in Jobs \ {j} : jobs'[k] = jobs[k]
    BY <1>4, JobSteps DEF LocalInv, Local!Ends, Local!Becomes
  <2>2. left' \in [Local!Counts -> Nat]
    BY <1>4 DEF LocalInv, Local!LocalTypeOK, Local!Spend, Local!Counts
  <2>3. Local!LocalTypeOK'
    BY <1>2, <1>4, <2>1, <2>2 DEF LocalInv, Local!LocalTypeOK
  <2>4. FormFilled' /\ SlugsKept' /\ EntersHere' /\ Local!RightTenant'
    BY <1>2, <1>4 DEF LocalInv, FormFilled, SlugsKept, EntersHere, Local!RightTenant
  <2>5. SetupsFit' /\ CopiesFit'
    BY <1>2, <1>4, <2>1 DEF LocalInv, SetupsFit, CopiesFit, Doing, Local!Copy
  <2>6. Local!HasAdmin'
    BY <1>1, <1>2, <1>4, <2>1 DEF LocalInv, Local!HasAdmin, Local!Is, Local!Logins
  <2>7. QED
    BY <2>3, <2>4, <2>5, <2>6 DEF LocalInv
<1>5. QED
  BY <1>3, <1>4 DEF Local!ServerLogin

(* The configuration of a copy is stored: now the account opens its tenant. *)
LEMMA ConfigCopiedKeeps == ASSUME LocalInv, NEW j \in Jobs, Local!ConfigCopied(j) PROVE LocalInv'
<1> DEFINE job == jobs[j]
           t   == job.tenant
           row == [slug |-> plan.slugOf[t], mode |-> IF configs[t] = Nothing THEN "synced" ELSE configs[t].mode]
           e   == [tenant |-> t, user |-> job.user, pass |-> job.pass]
<1>1. job \in Local!Copies /\ job.at = "config" /\ Doing(j, "copy")
  <2>1. job # Nothing /\ job.kind = "copy" /\ job.at = "config"
    BY DEF Local!ConfigCopied, Local!Is
  <2>2. QED
    BY <2>1, JobTyped DEF LocalInv, Doing
<1>2. t \in Servers /\ job.user \in Users /\ job.pass \in Passwords /\ t \in Local!AllTenants
      /\ t \notin Fresh /\ t \notin {"login", "setup"}
  BY <1>1, BrowserAssumption DEF Local!Copies, Local!LocalBounds, Local!AllTenants
<1>3. /\ UNCHANGED <<plan, left, connected, people, accounts, disputed>>
      /\ jobs' = [jobs EXCEPT ![j] = Nothing]
      /\ configs' = [configs EXCEPT ![t] = row]
      /\ entered' = entered \cup {e}
      /\ UNCHANGED <<screen, form>> \/ Local!Opens(t, Nothing)
  BY DEF Local!ConfigCopied, Local!Ends, Local!Becomes
<1>4. row \in Local!Config /\ row # Nothing /\ row.slug = plan.slugOf[t]
  <2>1. plan.slugOf[t] \in Slugs
    BY <1>2, BrowserAssumption DEF LocalInv, Local!LocalTypeOK, Local!LocalBounds
  <2>2. configs[t] # Nothing => configs[t].mode \in {"local", "synced"}
    BY <1>2 DEF LocalInv, Local!LocalTypeOK, Local!Config
  <2>3. row \in Local!Config
    BY <2>1, <2>2 DEF Local!Config
  <2>4. QED
    BY <2>3, NotNothing
<1> HIDE DEF row
<1>5. /\ jobs' \in [Jobs -> Local!Setups \cup Local!Logins \cup Local!Copies \cup {Nothing}]
      /\ jobs'[j] = Nothing /\ \A k \in Jobs \ {j} : jobs'[k] = jobs[k]
  BY <1>3, JobSteps DEF LocalInv
<1>6. /\ configs' \in [Local!AllTenants -> Local!Config \cup {Nothing}] /\ configs'[t] = row
      /\ \A s \in Local!AllTenants \ {t} : configs'[s] = configs[s]
  BY <1>2, <1>3, <1>4 DEF LocalInv, Local!LocalTypeOK
<1>7. SlugsKept'
  BY <1>2, <1>3, <1>4, <1>6 DEF LocalInv, SlugsKept, Local!AllTenants
<1>8. /\ screen' \in [at : Local!OnScreen, chosen : Slugs \cup {Nothing}] /\ form' \in Forms
      /\ FormFilled' /\ Local!RightTenant'
  <2>1. CASE UNCHANGED <<screen, form>>
    <3>1. screen.at \in Local!AllTenants /\ screen.chosen # Nothing =>
             configs'[screen.at] # Nothing /\ configs'[screen.at].slug = screen.chosen
      <4>1. CASE screen.at = t
        <5>1. configs[t] # Nothing => configs[t].slug = plan.slugOf[t]
          BY <1>2 DEF LocalInv, SlugsKept
        <5>2. QED
          BY <1>2, <1>4, <1>6, <4>1, <5>1 DEF LocalInv, Local!RightTenant
      <4>2. CASE screen.at # t
        BY <1>6, <4>2 DEF LocalInv, Local!RightTenant
      <4>3. QED
        BY <4>1, <4>2
    <3>2. QED
      BY <2>1, <3>1 DEF LocalInv, Local!LocalTypeOK, FormFilled, Local!RightTenant, Forms
  <2>2. CASE Local!Opens(t, Nothing)
    <3>1. screen' = [at |-> t, chosen |-> Nothing] /\ form' = Local!NoForm
      BY <2>2 DEF Local!Opens
    <3>2. QED
      BY <1>2, <3>1 DEF Local!OnScreen, Forms, Filled, FormFilled, Local!NoForm, Local!RightTenant
  <2>3. QED
    BY <1>3, <2>1, <2>2
<1>9. entered' \subseteq [tenant : Local!AllTenants, user : Users, pass : Passwords]
  BY <1>2, <1>3 DEF LocalInv, Local!LocalTypeOK
<1>10. Local!LocalTypeOK'
  BY <1>3, <1>5, <1>6, <1>8, <1>9 DEF LocalInv, Local!LocalTypeOK, Forms
<1>11. EntersHere'
  <2> SUFFICES ASSUME NEW d \in entered', d.user \notin disputed
               PROVE  /\ accounts[d.user] # Nothing /\ accounts[d.user].tenant = d.tenant
                      /\ accounts[d.user].pass = d.pass /\ configs'[d.tenant] # Nothing
    BY <1>3 DEF EntersHere
  <2>1. CASE d = e
    <3>1. accounts[job.user] = Local!Copy(job)
      BY <1>1, <2>1 DEF LocalInv, CopiesFit
    <3>2. accounts[job.user] \in Local!Account \cup {Nothing} /\ Local!Copy(job) \in Local!Account
      BY <1>1, <1>2 DEF LocalInv, Local!LocalTypeOK, Local!Copy, Local!Account, Local!Copies
    <3>3. QED
      BY <1>4, <1>6, <2>1, <3>1, <3>2, NotNothing DEF Local!Copy
  <2>2. CASE d \in entered
    <3>1. d.tenant \in Local!AllTenants
      BY <2>2 DEF LocalInv, Local!LocalTypeOK
    <3>2. QED
      BY <1>4, <1>6, <2>2, <3>1 DEF LocalInv, EntersHere
  <2>3. QED
    BY <1>3, <2>1, <2>2
<1>12. \A f \in Fresh : configs'[f] = configs[f]
  BY <1>2, <1>6 DEF Local!AllTenants
<1>13. SetupsFit'
  <2>1. \A k \in Jobs : Doing(k, "setup")' => jobs'[k] = jobs[k] /\ Doing(k, "setup")
    BY <1>5 DEF Doing
  <2>2. \A k \in Jobs : Doing(k, "setup") /\ jobs[k].at # "check" => jobs[k].tenant \in Fresh
    BY JobTyped DEF Doing, LocalInv, Local!Setups, SetupsFit
  <2>3. QED
    BY <1>12, <2>1, <2>2 DEF LocalInv, SetupsFit
<1>14. CopiesFit'
  BY <1>3, <1>5 DEF LocalInv, CopiesFit, Doing, Local!Copy
<1>15. Local!HasAdmin'
  <2>1. \A k \in Jobs : Local!Is(k, {"setup"}, "account") => k # j /\ jobs'[k] = jobs[k]
    BY <1>1, <1>5 DEF Local!Is, Local!Copies
  <2>2. QED
    BY <1>3, <1>12, <2>1 DEF LocalInv, Local!HasAdmin, Local!Is
<1>16. QED
  BY <1>7, <1>8, <1>10, <1>11, <1>13, <1>14, <1>15 DEF LocalInv

(* Steps that touch neither the tables nor what is under way.               *)
LEMMA PageActs ==
    ASSUME LocalInv, UNCHANGED <<plan, accounts, configs, jobs, entered, disputed>>,
           connected' \in BOOLEAN, people' \subseteq Local!Person, left' \in [Local!Counts -> Nat],
           form' \in Forms, Filled(form)',
           \/ screen' = screen
           \/ screen' \in [at : {"login", "setup"}, chosen : {Nothing}]
    PROVE  LocalInv'
<1>1. screen' \in [at : Local!OnScreen, chosen : Slugs \cup {Nothing}]
  BY DEF LocalInv, Local!LocalTypeOK, Local!OnScreen
<1>2. Local!LocalTypeOK'
  BY <1>1 DEF LocalInv, Local!LocalTypeOK, Forms
<1>3. FormFilled' /\ Local!RightTenant'
  BY BrowserAssumption DEF LocalInv, FormFilled, Local!RightTenant, Local!LocalBounds
<1>4. SlugsKept' /\ EntersHere'
  BY DEF LocalInv, SlugsKept, EntersHere
<1>5. SetupsFit' /\ CopiesFit'
  BY DEF LocalInv, SetupsFit, CopiesFit, Doing, Local!Copy
<1>6. Local!HasAdmin'
  BY DEF LocalInv, Local!HasAdmin, Local!Is
<1>7. QED
  BY <1>2, <1>3, <1>4, <1>5, <1>6 DEF LocalInv

LEMMA Spent ==
    ASSUME LocalInv, NEW what \in Local!Counts, Local!Spend(what)
    PROVE  left' \in [Local!Counts -> Nat]
BY DEF LocalInv, Local!LocalTypeOK, Local!Spend

LEMMA NoFormFits == Local!NoForm \in Forms /\ Filled(Local!NoForm)
BY NotNothing DEF Local!NoForm, Forms, Filled

LEMMA FormOf == ASSUME LocalInv PROVE form \in Forms /\ Filled(form) /\ left \in [Local!Counts -> Nat]
                                      /\ connected \in BOOLEAN /\ people \subseteq Local!Person
BY DEF LocalInv, Local!LocalTypeOK, FormFilled, Forms

LEMMA SetupEnterLeaves == ASSUME LocalInv, Local!EnterSetup \/ Local!LeaveSetup \/ Local!Logout PROVE LocalInv'
<1>1. form' = Local!NoForm /\ left' = left
  BY DEF Local!EnterSetup, Local!LeaveSetup, Local!Logout, Local!Opens
<1>2. screen' \in [at : {"login", "setup"}, chosen : {Nothing}]
  <2>1. CASE Local!EnterSetup \/ Local!LeaveSetup
    <3>1. /\ screen.chosen = Nothing /\ screen \in [at : Local!OnScreen, chosen : Slugs \cup {Nothing}]
          /\ screen' = [screen EXCEPT !.at = "setup"] \/ screen' = [screen EXCEPT !.at = "login"]
      BY <2>1 DEF LocalInv, FormFilled, Local!LocalTypeOK, Local!EnterSetup, Local!LeaveSetup
    <3>2. QED
      BY <3>1
  <2>2. CASE Local!Logout
    BY <2>2 DEF Local!Logout, Local!Opens
  <2>3. QED
    BY <2>1, <2>2
<1>3. UNCHANGED <<plan, connected, people, accounts, configs, jobs, entered, disputed>>
  BY DEF Local!EnterSetup, Local!LeaveSetup, Local!Logout, Local!tables, Local!history
<1>4. QED
  BY <1>1, <1>2, <1>3, PageActs, FormOf, NoFormFits

(* The keys, the debounced question, the buttons and the answers.           *)
LEMMA FormSteps ==
    ASSUME LocalInv,
           \/ Local!Validate \/ Local!PressNext \/ Local!BackToTenant
           \/ \E slug \in Slugs : Local!Edit(slug)
           \/ \E ask \in form.asks : Local!Answered(ask)
    PROVE  LocalInv'
<1>1. UNCHANGED <<plan, connected, people, accounts, configs, screen, jobs, entered, disputed>>
  BY DEF Local!Validate, Local!PressNext, Local!BackToTenant, Local!Edit, Local!Answered, Local!tables, Local!history
<1>2. CASE Local!Validate
  <2>1. form' = [form EXCEPT !.due = FALSE, !.asks = @ \cup {[by |-> "validate", slug |-> form.slug]}]
        /\ form.due /\ left' = left
    BY <1>2 DEF Local!Validate
  <2>2. form.slug # Nothing /\ form.slug \in Slugs
    BY <2>1, FormOf DEF Filled, Forms
  <2>3. [by |-> "validate", slug |-> form.slug] \in Local!Ask
    BY <2>2 DEF Local!Ask
  <2>4. form' \in Forms /\ Filled(form)'
    BY <2>1, <2>2, <2>3, FormOf DEF Forms, Filled
  <2>5. QED
    BY <1>1, <2>1, <2>4, PageActs, FormOf
<1>3. CASE Local!PressNext
  <2>1. form' = [form EXCEPT !.asks = @ \cup {[by |-> "next", slug |-> form.slug]}]
        /\ form.slug # Nothing /\ left' = left
    BY <1>3 DEF Local!PressNext
  <2>2. form.slug \in Slugs
    BY <2>1, FormOf DEF Forms
  <2>3. [by |-> "next", slug |-> form.slug] \in Local!Ask
    BY <2>2 DEF Local!Ask
  <2>4. form' \in Forms /\ Filled(form)'
    BY <2>1, <2>2, <2>3, FormOf DEF Forms, Filled
  <2>5. QED
    BY <1>1, <2>1, <2>4, PageActs, FormOf
<1>4. CASE Local!BackToTenant
  <2>1. form' = [form EXCEPT !.step = "tenant"] /\ form.step = "admin" /\ left' = left
    BY <1>4 DEF Local!BackToTenant, Local!OnForm
  <2>2. form' \in Forms /\ Filled(form)'
    BY <2>1, FormOf DEF Forms, Filled
  <2>3. QED
    BY <1>1, <2>1, <2>2, PageActs, FormOf
<1>5. ASSUME NEW slug \in Slugs, Local!Edit(slug) PROVE LocalInv'
  <2>1. form' = [form EXCEPT !.slug = slug, !.due = TRUE] /\ Local!Spend("edits")
    BY <1>5 DEF Local!Edit
  <2>2. form' \in Forms /\ Filled(form)'
    BY <2>1, FormOf, NotNothing DEF Forms, Filled
  <2>3. left' \in [Local!Counts -> Nat]
    BY <2>1, Spent DEF Local!Counts
  <2>4. QED
    BY <1>1, <2>2, <2>3, PageActs, FormOf
<1>6. ASSUME NEW ask \in form.asks, Local!Answered(ask) PROVE LocalInv'
  <2> DEFINE next == [form EXCEPT !.asks = @ \ {ask}]
  <2>1. PICK taken \in BOOLEAN :
           form' = IF ask.by = "validate" THEN [next EXCEPT !.error = taken]
                   ELSE IF taken THEN [next EXCEPT !.error = TRUE]
                   ELSE [next EXCEPT !.step = "admin", !.checked = ask.slug]
    <3>1. Local!Taken(ask.slug) \subseteq BOOLEAN
      BY DEF Local!Taken, Local!Local, Local!Remote
    <3>2. QED
      BY <1>6, <3>1 DEF Local!Answered
  <2>2. form.slug # Nothing /\ ask.slug \in Slugs /\ left' = left
    BY <1>6, FormOf DEF Filled, Forms, Local!Ask, Local!Answered
  <2>3. next \in Forms /\ next.slug = form.slug
    BY <2>2, FormOf DEF Forms
  <2> HIDE DEF next
  <2>4. form' \in Forms /\ form'.slug = form.slug
    BY <2>1, <2>2, <2>3 DEF Forms
  <2>5. QED
    BY <1>1, <2>2, <2>4, PageActs, FormOf DEF Filled
<1>7. QED
  BY <1>2, <1>3, <1>4, <1>5, <1>6

LEMMA ElsewhereKeeps ==
    ASSUME LocalInv, Local!Connect \/ \E p \in people, pass \in Passwords : Local!ChangePassword(p, pass)
    PROVE  LocalInv'
<1>1. UNCHANGED <<plan, accounts, configs, screen, form, jobs, entered, disputed>>
  BY DEF Local!Connect, Local!ChangePassword, Local!tables, Local!history
<1>2. connected' \in BOOLEAN /\ left' \in [Local!Counts -> Nat]
  <2>1. Local!Spend("faults") \/ Local!Spend("changes")
    BY DEF Local!Connect, Local!ChangePassword
  <2>2. left' \in [Local!Counts -> Nat]
    BY <2>1, Spent DEF Local!Counts
  <2>3. connected' = ~connected \/ connected' = connected
    BY DEF Local!Connect, Local!ChangePassword
  <2>4. QED
    BY <2>2, <2>3, FormOf
<1>3. people' \subseteq Local!Person
  <2>1. CASE Local!Connect
    BY <2>1, FormOf DEF Local!Connect
  <2>2. ASSUME NEW p \in people, NEW pass \in Passwords, Local!ChangePassword(p, pass)
        PROVE  people' \subseteq Local!Person
    <3>1. people' = (people \ {p}) \cup {[p EXCEPT !.pass = pass]} /\ p \in Local!Person
      BY <2>2, FormOf DEF Local!ChangePassword
    <3>2. [p EXCEPT !.pass = pass] \in Local!Person
      BY <3>1 DEF Local!Person
    <3>3. QED
      BY <3>1, <3>2, FormOf
  <2>3. QED
    BY <2>1, <2>2
<1>4. QED
  BY <1>1, <1>2, <1>3, PageActs, FormOf

(* A visitor's tenant: one that is here, or one of the server's, written    *)
(* down with the slug it has there.                                         *)
LEMMA ScoutEnters == ASSUME LocalInv, NEW slug \in Slugs, Local!Scout(slug) PROVE LocalInv'
<1>1. UNCHANGED <<plan, connected, people, accounts, jobs, entered, disputed>> /\ Local!Spend("scouts")
  BY DEF Local!Scout, Local!history
<1>2. PICK t \in Local!AllTenants :
         /\ Local!Opens(t, slug)
         /\ \/ configs' = configs /\ configs[t] # Nothing /\ configs[t].slug = slug
            \/ /\ t \in Servers /\ plan.slugOf[t] = slug
               /\ configs' = [configs EXCEPT ![t] = [slug |-> slug, mode |-> "synced"]]
  BY DEF Local!Scout, Local!AllTenants
<1>3. /\ configs' \in [Local!AllTenants -> Local!Config \cup {Nothing}]
      /\ configs'[t] # Nothing /\ configs'[t].slug = slug
      /\ \A s \in Local!AllTenants : configs'[s] = configs[s] \/ (s = t /\ t \in Servers /\ plan.slugOf[t] = slug)
  <2>1. configs \in [Local!AllTenants -> Local!Config \cup {Nothing}]
    BY DEF LocalInv, Local!LocalTypeOK
  <2>2. CASE configs' = configs /\ configs[t] # Nothing /\ configs[t].slug = slug
    BY <2>1, <2>2
  <2>3. CASE t \in Servers /\ plan.slugOf[t] = slug
             /\ configs' = [configs EXCEPT ![t] = [slug |-> slug, mode |-> "synced"]]
    <3> DEFINE row == [slug |-> slug, mode |-> "synced"]
    <3>1. row \in Local!Config /\ row # Nothing /\ row.slug = slug
      BY NotNothing DEF Local!Config
    <3> HIDE DEF row
    <3>2. configs' = [configs EXCEPT ![t] = row]
      BY <2>3 DEF row
    <3>3. QED
      BY <2>1, <2>3, <3>1, <3>2
  <2>4. QED
    BY <1>2, <2>2, <2>3
<1>4. \A s \in Local!AllTenants : configs[s] # Nothing => configs'[s] # Nothing
  BY <1>3
<1>5. \A f \in Fresh : configs'[f] = configs[f]
  BY <1>3, BrowserAssumption DEF Local!LocalBounds, Local!AllTenants
<1>6. screen' = [at |-> t, chosen |-> slug] /\ form' = Local!NoForm /\ t \notin {"login", "setup"}
  BY <1>2, BrowserAssumption DEF Local!Opens, Local!LocalBounds
<1>7. form' \in Forms /\ Filled(form)' /\ left' \in [Local!Counts -> Nat]
  BY <1>1, <1>6, NoFormFits, Spent DEF Local!Counts
<1>8. Local!LocalTypeOK'
  BY <1>1, <1>3, <1>6, <1>7 DEF LocalInv, Local!LocalTypeOK, Local!OnScreen, Forms
<1>9. FormFilled' /\ Local!RightTenant'
  BY <1>3, <1>6, <1>7 DEF FormFilled, Local!RightTenant
<1>10. SlugsKept' /\ EntersHere'
  <2>1. \A e \in entered : e.tenant \in Local!AllTenants
    BY DEF LocalInv, Local!LocalTypeOK
  <2>2. SlugsKept'
    BY <1>1, <1>3 DEF LocalInv, SlugsKept, Local!AllTenants
  <2>3. EntersHere'
    BY <1>1, <1>4, <2>1 DEF LocalInv, EntersHere
  <2>4. QED
    BY <2>2, <2>3
<1>11. SetupsFit'
  <2>1. \A k \in Jobs : Doing(k, "setup") /\ jobs[k].at # "check" => jobs[k].tenant \in Fresh
    BY JobTyped DEF Doing, LocalInv, Local!Setups, SetupsFit
  <2>2. QED
    BY <1>1, <1>5, <2>1 DEF LocalInv, SetupsFit, Doing
<1>12. CopiesFit' /\ Local!HasAdmin'
  BY <1>1, <1>5 DEF LocalInv, CopiesFit, Local!HasAdmin, Local!Is, Doing, Local!Copy
<1>13. QED
  BY <1>8, <1>9, <1>10, <1>11, <1>12 DEF LocalInv

(* A log-in or a set-up begins, a copy goes on to its second step or fails. *)
LEMMA JobActs ==
    ASSUME LocalInv, NEW j \in Jobs, NEW x \in Local!Setups \cup Local!Logins \cup Local!Copies \cup {Nothing},
           jobs' = [jobs EXCEPT ![j] = x],
           UNCHANGED <<plan, connected, people, accounts, configs, screen, entered, disputed>>,
           left' \in [Local!Counts -> Nat], form' \in Forms, Filled(form)',
           \/ x \in Local!Logins /\ jobs[j] = Nothing
           \/ x \in Local!Setups /\ x.at = "check" /\ x.tenant = Nothing /\ jobs[j] = Nothing
           \/ x = Nothing /\ Doing(j, "copy")
           \/ x \in Local!Copies /\ x.at # "config" /\ Doing(j, "copy") /\ x.user = jobs[j].user
    PROVE  LocalInv'
<1>1. /\ jobs' \in [Jobs -> Local!Setups \cup Local!Logins \cup Local!Copies \cup {Nothing}]
      /\ jobs'[j] = x /\ \A k \in Jobs \ {j} : jobs'[k] = jobs[k]
  BY JobSteps DEF LocalInv
<1>2. Local!LocalTypeOK'
  BY <1>1 DEF LocalInv, Local!LocalTypeOK, Forms
<1>3. FormFilled' /\ SlugsKept' /\ EntersHere' /\ Local!RightTenant'
  BY DEF LocalInv, FormFilled, SlugsKept, EntersHere, Local!RightTenant
<1>4. /\ x \in Local!Logins => x.kind \in {"login", "device"}
      /\ x \in Local!Setups => x.kind = "setup"
      /\ x \in Local!Copies => x.kind = "copy"
  BY DEF Local!Logins, Local!Setups, Local!Copies
<1>5. SetupsFit'
  <2>1. \A k \in Jobs : Doing(k, "setup")' /\ k # j => jobs'[k] = jobs[k] /\ Doing(k, "setup")
    BY <1>1 DEF Doing
  <2>2. Doing(j, "setup")' => jobs'[j].at = "check" /\ jobs'[j].tenant = Nothing
    BY <1>1, <1>4 DEF Doing
  <2>3. QED
    BY <2>1, <2>2 DEF LocalInv, SetupsFit
<1>6. CopiesFit'
  <2>1. \A k \in Jobs : Doing(k, "copy")' /\ k # j => jobs'[k] = jobs[k] /\ Doing(k, "copy")
    BY <1>1 DEF Doing
  <2>2. Doing(j, "copy")' => jobs'[j].at # "config" /\ Doing(j, "copy") /\ jobs'[j].user = jobs[j].user
    BY <1>1, <1>4 DEF Doing
  <2>3. QED
    BY <2>1, <2>2 DEF LocalInv, CopiesFit, Local!Copy
<1>7. Local!HasAdmin'
  <2>1. \A k \in Jobs : Local!Is(k, {"setup"}, "account") => k # j /\ jobs'[k] = jobs[k]
    BY <1>1 DEF Local!Is, Doing
  <2>2. QED
    BY <2>1 DEF LocalInv, Local!HasAdmin, Local!Is
<1>8. QED
  BY <1>2, <1>3, <1>5, <1>6, <1>7 DEF LocalInv

LEMMA FirstFree == ASSUME NEW j \in Local!First PROVE j \in Jobs /\ jobs[j] = Nothing
BY DEF Local!First, Local!Free

LEMMA PressSetupKeeps ==
    ASSUME LocalInv, NEW who \in Users, NEW pass \in Passwords, Local!PressSetup(who, pass)
    PROVE  LocalInv'
<1>1. PICK j \in Local!First :
         /\ Local!Becomes(j, [kind |-> "setup", at |-> "check", slug |-> form.slug, user |-> who, pass |-> pass,
                              tenant |-> Nothing])
         /\ form' = [form EXCEPT !.loading = j]
  BY DEF Local!PressSetup
<1> DEFINE x == [kind |-> "setup", at |-> "check", slug |-> form.slug, user |-> who, pass |-> pass, tenant |-> Nothing]
<1>2. j \in Jobs /\ jobs[j] = Nothing
  BY FirstFree
<1>3. form.slug \in Slugs /\ form.slug # Nothing
  <2>1. form.step = "admin"
    BY DEF Local!PressSetup, Local!OnForm
  <2>2. QED
    BY <2>1, FormOf DEF Forms, Filled
<1>4. form' \in Forms /\ Filled(form)'
  BY <1>1, <1>2, <1>3, FormOf DEF Forms, Filled
<1>5. x \in Local!Setups /\ x.at = "check" /\ x.tenant = Nothing
  BY <1>3 DEF Local!Setups
<1>6. jobs' = [jobs EXCEPT ![j] = x]
  BY <1>1 DEF Local!Becomes
<1> HIDE DEF x
<1>7. left' \in [Local!Counts -> Nat]
  BY Spent DEF Local!PressSetup, Local!Counts
<1>8. UNCHANGED <<plan, connected, people, accounts, configs, screen, entered, disputed>>
  BY DEF Local!PressSetup, Local!tables, Local!history
<1>9. QED
  BY <1>2, <1>4, <1>5, <1>6, <1>7, <1>8, JobActs

LEMMA LoginBegins ==
    ASSUME LocalInv, NEW kind \in {"login", "device"}, NEW who \in Users, NEW pass \in Passwords,
           NEW slug \in Slugs \cup {Nothing}, Local!Login(kind, who, pass, slug)
    PROVE  LocalInv'
<1> DEFINE x == [kind |-> kind, at |-> "account", user |-> who, pass |-> pass, slug |-> slug]
<1>1. PICK j \in Local!First : Local!Becomes(j, x)
  BY DEF Local!Login, Local!Starts
<1>2. j \in Jobs /\ jobs[j] = Nothing /\ jobs' = [jobs EXCEPT ![j] = x]
  BY <1>1, FirstFree DEF Local!Becomes
<1>3. x \in Local!Logins
  BY DEF Local!Logins
<1> HIDE DEF x
<1>4. left' \in [Local!Counts -> Nat]
  BY Spent DEF Local!Login, Local!Counts
<1>5. UNCHANGED <<plan, connected, people, accounts, configs, screen, form, entered, disputed>>
  BY DEF Local!Login, Local!tables, Local!history
<1>6. form' \in Forms /\ Filled(form)'
  BY <1>5, FormOf DEF Filled
<1>7. QED
  BY <1>2, <1>3, <1>4, <1>5, <1>6, JobActs

(* A copy reads the account, or fails.                                      *)
LEMMA CopyActs == ASSUME LocalInv, NEW j \in Jobs, Local!AccountRead(j) \/ Local!CopyFails(j) PROVE LocalInv'
<1>1. jobs[j] \in Local!Copies /\ Doing(j, "copy")
  <2>1. jobs[j] # Nothing /\ jobs[j].kind = "copy"
    BY DEF Local!AccountRead, Local!CopyFails, Local!Is
  <2>2. QED
    BY <2>1, JobTyped DEF LocalInv, Doing
<1>2. UNCHANGED <<plan, connected, people, accounts, configs, screen, form, entered, disputed>>
  BY DEF Local!AccountRead, Local!CopyFails, Local!tables, Local!history
<1>3. form' \in Forms /\ Filled(form)'
  BY <1>2, FormOf DEF Filled
<1>4. left' \in [Local!Counts -> Nat]
  <2>1. left' = left \/ Local!Spend("faults")
    BY DEF Local!AccountRead, Local!CopyFails
  <2>2. QED
    BY <2>1, Spent, FormOf DEF Local!Counts
<1>5. CASE Local!AccountRead(j)
  <2> DEFINE at == IF accounts[jobs[j].user] = Nothing THEN "add" ELSE "update"
             x  == [jobs[j] EXCEPT !.at = at]
  <2>1. x \in Local!Copies /\ x.at # "config" /\ x.user = jobs[j].user
    BY <1>1 DEF Local!Copies
  <2>2. jobs' = [jobs EXCEPT ![j] = x]
    BY <1>5 DEF Local!AccountRead, Local!Becomes
  <2> HIDE DEF x
  <2>3. QED
    BY <1>1, <1>2, <1>3, <1>4, <2>1, <2>2, JobActs
<1>6. CASE Local!CopyFails(j)
  <2>1. jobs' = [jobs EXCEPT ![j] = Nothing]
    BY <1>6 DEF Local!CopyFails, Local!Ends, Local!Becomes
  <2>2. QED
    BY <1>1, <1>2, <1>3, <1>4, <2>1, JobActs
<1>7. QED
  BY <1>5, <1>6

(* The configuration of a tenant that is set up here.                       *)
LEMMA ConfigStoredKeeps == ASSUME LocalInv, NEW j \in Jobs, Local!ConfigStored(j) PROVE LocalInv'
<1> DEFINE t   == jobs[j].tenant
           row == [slug |-> jobs[j].slug, mode |-> "local"]
           x   == [jobs[j] EXCEPT !.at = "account"]
<1>1. jobs[j] \in Local!Setups /\ jobs[j].at = "config" /\ Doing(j, "setup")
  <2>1. jobs[j] # Nothing /\ jobs[j].kind = "setup" /\ jobs[j].at = "config"
    BY DEF Local!ConfigStored, Local!Is
  <2>2. QED
    BY <2>1, JobTyped DEF LocalInv, Doing
<1>2. t \in Fresh /\ t \in Local!AllTenants /\ configs[t] = Nothing /\ t \notin Servers /\ t # Nothing
  <2>1. t \in Fresh /\ configs[t] = Nothing
    BY <1>1 DEF LocalInv, SetupsFit, Local!Setups
  <2>2. QED
    BY <2>1, NotNothing, BrowserAssumption DEF Local!LocalBounds, Local!AllTenants
<1>3. /\ UNCHANGED <<plan, left, connected, people, accounts, screen, form, entered, disputed>>
      /\ configs' = [configs EXCEPT ![t] = row] /\ jobs' = [jobs EXCEPT ![j] = x]
  BY DEF Local!ConfigStored, Local!Goes, Local!history
<1>4. row \in Local!Config /\ row # Nothing
  <2>1. row \in Local!Config
    BY <1>1 DEF Local!Config, Local!Setups
  <2>2. QED
    BY <2>1, NotNothing
<1>5. x \in Local!Setups /\ x.kind = "setup" /\ x.at = "account" /\ x.tenant = t /\ x # Nothing
  <2>1. x \in Local!Setups /\ x.kind = "setup" /\ x.at = "account" /\ x.tenant = t
    BY <1>1 DEF Local!Setups
  <2>2. QED
    BY <2>1, NotNothing
<1>6. /\ jobs' \in [Jobs -> Local!Setups \cup Local!Logins \cup Local!Copies \cup {Nothing}]
      /\ jobs'[j] = x /\ \A k \in Jobs \ {j} : jobs'[k] = jobs[k]
  BY <1>3, <1>5, JobSteps DEF LocalInv
<1> HIDE DEF row, x
<1>7. /\ configs' \in [Local!AllTenants -> Local!Config \cup {Nothing}] /\ configs'[t] # Nothing
      /\ \A s \in Local!AllTenants \ {t} : configs'[s] = configs[s]
  BY <1>2, <1>3, <1>4 DEF LocalInv, Local!LocalTypeOK
<1>8. Local!LocalTypeOK'
  BY <1>3, <1>6, <1>7 DEF LocalInv, Local!LocalTypeOK
<1>9. FormFilled' /\ SlugsKept' /\ Local!RightTenant'
  <2>1. FormFilled'
    BY <1>3 DEF LocalInv, FormFilled, Filled
  <2>2. SlugsKept'
    BY <1>2, <1>3, <1>7 DEF LocalInv, SlugsKept, Local!AllTenants
  <2>3. Local!RightTenant'
    BY <1>2, <1>3, <1>7 DEF LocalInv, Local!RightTenant
  <2>4. QED
    BY <2>1, <2>2, <2>3
<1>10. EntersHere'
  <2>1. \A e \in entered : e.tenant \in Local!AllTenants
    BY DEF LocalInv, Local!LocalTypeOK
  <2>2. QED
    BY <1>3, <1>7, <2>1 DEF LocalInv, EntersHere
<1>11. SetupsFit'
  <2>1. \A k \in Jobs : Doing(k, "setup")' => Doing(k, "setup") /\ jobs'[k].tenant = jobs[k].tenant
                                              /\ (k # j => jobs'[k] = jobs[k])
    BY <1>1, <1>5, <1>6 DEF Doing
  <2>2. \A k \in Jobs : Doing(k, "setup") => jobs[k].tenant \in Fresh \cup {Nothing}
    BY JobTyped DEF Doing, LocalInv, Local!Setups
  <2>3. \A k \in Jobs : Doing(k, "setup") /\ k # j => jobs[k].tenant # t
    BY <1>1, <1>2 DEF LocalInv, SetupsFit
  <2>4. \A k \in Jobs : Doing(k, "setup") /\ k # j /\ jobs[k].at # "check" => configs'[jobs[k].tenant] = configs[jobs[k].tenant]
    BY <1>7, <2>2, <2>3 DEF LocalInv, SetupsFit, Local!AllTenants
  <2>5. QED
    BY <1>2, <1>5, <1>6, <1>7, <2>1, <2>4 DEF LocalInv, SetupsFit
<1>12. CopiesFit'
  <2>1. \A k \in Jobs : Doing(k, "copy")' => jobs'[k] = jobs[k] /\ Doing(k, "copy")
    BY <1>5, <1>6 DEF Doing
  <2>2. QED
    BY <1>3, <2>1 DEF LocalInv, CopiesFit, Local!Copy
<1>13. Local!HasAdmin'
  <2>1. Local!Is(j, {"setup"}, "account")' /\ jobs'[j].tenant = t
    BY <1>5, <1>6 DEF Local!Is
  <2>2. \A k \in Jobs : Local!Is(k, {"setup"}, "account") => k # j /\ jobs'[k] = jobs[k]
    BY <1>1, <1>6 DEF Local!Is
  <2>3. \A f \in Fresh : configs'[f] # Nothing => f = t \/ configs[f] # Nothing
    BY <1>7 DEF Local!AllTenants
  <2>4. QED
    BY <1>3, <2>1, <2>2, <2>3 DEF LocalInv, Local!HasAdmin, Local!Is
<1>14. QED
  BY <1>8, <1>9, <1>10, <1>11, <1>12, <1>13 DEF LocalInv

(* The timer of a set-up opens its tenant.                                  *)
LEMMA CompletesKeeps == ASSUME LocalInv, NEW j \in Jobs, Local!Completes(j) PROVE LocalInv'
<1>1. jobs[j] \in Local!Setups /\ jobs[j].at = "complete" /\ Doing(j, "setup")
  <2>1. jobs[j] # Nothing /\ jobs[j].kind = "setup" /\ jobs[j].at = "complete"
    BY DEF Local!Completes, Local!Is
  <2>2. QED
    BY <2>1, JobTyped DEF LocalInv, Doing
<1>2. jobs[j].tenant \in Local!AllTenants
  BY <1>1 DEF LocalInv, SetupsFit, Local!Setups, Local!AllTenants
<1>3. /\ UNCHANGED <<plan, left, connected, people, accounts, configs, entered, disputed>>
      /\ jobs' = [jobs EXCEPT ![j] = Nothing]
      /\ screen' = [at |-> jobs[j].tenant, chosen |-> Nothing] /\ form' = Local!NoForm
  BY DEF Local!Completes, Local!Ends, Local!Becomes, Local!tables, Local!history
<1>4. /\ jobs' \in [Jobs -> Local!Setups \cup Local!Logins \cup Local!Copies \cup {Nothing}]
      /\ jobs'[j] = Nothing /\ \A k \in Jobs \ {j} : jobs'[k] = jobs[k]
  BY <1>3, JobSteps DEF LocalInv
<1>5. form' \in Forms /\ Filled(form)'
  BY <1>3, NoFormFits DEF Filled
<1>6. Local!LocalTypeOK'
  BY <1>2, <1>3, <1>4, <1>5 DEF LocalInv, Local!LocalTypeOK, Local!OnScreen, Forms
<1>7. FormFilled' /\ SlugsKept' /\ EntersHere' /\ Local!RightTenant'
  BY <1>3, <1>5 DEF LocalInv, FormFilled, SlugsKept, EntersHere, Local!RightTenant
<1>8. SetupsFit' /\ CopiesFit'
  BY <1>3, <1>4 DEF LocalInv, SetupsFit, CopiesFit, Doing, Local!Copy
<1>9. Local!HasAdmin'
  BY <1>1, <1>3, <1>4 DEF LocalInv, Local!HasAdmin, Local!Is
<1>10. QED
  BY <1>6, <1>7, <1>8, <1>9 DEF LocalInv

(* The account of a copy is stored, over one that was there.                *)
LEMMA AccountCopiedKeeps == ASSUME LocalInv, NEW j \in Jobs, Local!AccountCopied(j) PROVE LocalInv'
<1> DEFINE job == jobs[j]
           row == accounts[job.user]
           x   == [job EXCEPT !.at = "config"]
           new == Local!Copy(job)
<1>1. job \in Local!Copies /\ job.at # "config" /\ Doing(j, "copy")
  <2>1. job # Nothing /\ job.kind = "copy" /\ job.at # "config"
    BY DEF Local!AccountCopied, Local!Is
  <2>2. QED
    BY <2>1, JobTyped DEF LocalInv, Doing
<1>2. job.user \in Users /\ job.tenant \in Servers /\ job.tenant \in Local!AllTenants /\ job.tenant \notin Fresh
  BY <1>1, BrowserAssumption DEF Local!Copies, Local!LocalBounds, Local!AllTenants
<1>3. /\ UNCHANGED <<plan, left, connected, people, configs, screen, form>>
      /\ jobs' = [jobs EXCEPT ![j] = x] /\ accounts' = [accounts EXCEPT ![job.user] = new]
      /\ entered' = {e \in entered : e.tenant # job.tenant \/ e.user # job.user}
      /\ disputed' = IF row # Nothing /\ row.tenant # job.tenant THEN disputed \cup {job.user} ELSE disputed
  BY DEF Local!AccountCopied, Local!Goes
<1>4. new \in Local!Account /\ new # Nothing
  <2>1. new \in Local!Account
    BY <1>1, <1>2 DEF Local!Copy, Local!Account, Local!Copies
  <2>2. QED
    BY <2>1, NotNothing
<1>5. x \in Local!Copies /\ x.kind = "copy" /\ x.at = "config" /\ x.user = job.user /\ Local!Copy(x) = new /\ x # Nothing
  <2>1. x \in Local!Copies /\ x.kind = "copy" /\ x.at = "config" /\ x.user = job.user /\ Local!Copy(x) = new
    BY <1>1 DEF Local!Copies, Local!Copy
  <2>2. QED
    BY <2>1, NotNothing
<1>6. /\ jobs' \in [Jobs -> Local!Setups \cup Local!Logins \cup Local!Copies \cup {Nothing}]
      /\ jobs'[j] = x /\ \A k \in Jobs \ {j} : jobs'[k] = jobs[k]
  BY <1>3, <1>5, JobSteps DEF LocalInv
<1> HIDE DEF x, new
<1>7. /\ accounts' \in [Users -> Local!Account \cup {Nothing}] /\ accounts'[job.user] = new
      /\ \A u \in Users \ {job.user} : accounts'[u] = accounts[u]
  BY <1>2, <1>3, <1>4 DEF LocalInv, Local!LocalTypeOK
<1>8. /\ \A u \in disputed : u \in disputed'
      /\ row # Nothing /\ row.tenant # job.tenant => job.user \in disputed'
      /\ disputed' \subseteq Users
  BY <1>2, <1>3 DEF LocalInv, Local!LocalTypeOK
<1>9. Local!LocalTypeOK'
  <2>1. entered' \subseteq entered
    BY <1>3
  <2>2. QED
    BY <1>3, <1>6, <1>7, <1>8, <2>1 DEF LocalInv, Local!LocalTypeOK
<1>10. FormFilled' /\ SlugsKept' /\ Local!RightTenant'
  BY <1>3 DEF LocalInv, FormFilled, Filled, SlugsKept, Local!RightTenant
<1>11. EntersHere'
  <2> SUFFICES ASSUME NEW e \in entered', e.user \notin disputed'
               PROVE  /\ accounts'[e.user] # Nothing /\ accounts'[e.user].tenant = e.tenant
                      /\ accounts'[e.user].pass = e.pass /\ configs[e.tenant] # Nothing
    BY <1>3 DEF EntersHere
  <2>1. /\ accounts[e.user] # Nothing /\ accounts[e.user].tenant = e.tenant /\ accounts[e.user].pass = e.pass
        /\ configs[e.tenant] # Nothing /\ e.user \in Users /\ (e.tenant # job.tenant \/ e.user # job.user)
    BY <1>3, <1>8 DEF LocalInv, EntersHere, Local!LocalTypeOK
  <2>2. e.user # job.user
    BY <1>8, <2>1
  <2>3. QED
    BY <1>7, <2>1, <2>2
<1>12. SetupsFit'
  <2>1. \A k \in Jobs : Doing(k, "setup")' => jobs'[k] = jobs[k] /\ Doing(k, "setup")
    BY <1>5, <1>6 DEF Doing
  <2>2. QED
    BY <1>3, <2>1 DEF LocalInv, SetupsFit
<1>13. CopiesFit'
  <2>1. \A k \in Jobs : Doing(k, "copy")' => /\ Doing(k, "copy") /\ jobs'[k].user = jobs[k].user
                                             /\ k # j => jobs'[k] = jobs[k]
    BY <1>1, <1>5, <1>6 DEF Doing
  <2>2. \A k \in Jobs : Doing(k, "copy") /\ jobs[k].user = job.user /\ k # j => job.user \in disputed'
    BY <1>1, <1>8 DEF LocalInv, CopiesFit
  <2>3. \A k \in Jobs : Doing(k, "copy") => jobs[k].user \in Users
    BY JobTyped DEF Doing, LocalInv, Local!Copies
  <2>4. \A k, l \in Jobs : Doing(k, "copy")' /\ Doing(l, "copy")' /\ jobs'[k].user = jobs'[l].user /\ k # l
                             => jobs'[k].user \in disputed'
    BY <1>8, <2>1 DEF LocalInv, CopiesFit
  <2>5. ASSUME NEW k \in Jobs, Doing(k, "copy")', jobs'[k].at = "config", jobs'[k].user \notin disputed'
        PROVE  accounts'[jobs'[k].user] = Local!Copy(jobs'[k])
    <3>1. CASE k = j
      BY <1>5, <1>6, <1>7, <3>1
    <3>2. CASE k # j
      <4>1. jobs'[k] = jobs[k] /\ Doing(k, "copy") /\ jobs[k].user # job.user /\ jobs[k].user \in Users
        BY <2>1, <2>2, <2>3, <2>5, <3>2
      <4>2. accounts[jobs[k].user] = Local!Copy(jobs[k])
        BY <1>8, <2>5, <4>1 DEF LocalInv, CopiesFit
      <4>3. QED
        BY <1>7, <4>1, <4>2
    <3>3. QED
      BY <3>1, <3>2
  <2>6. QED
    BY <2>4, <2>5 DEF CopiesFit, Local!Copy
<1>14. Local!HasAdmin'
  <2> SUFFICES ASSUME NEW f \in Fresh, configs[f] # Nothing, disputed' = {}
               PROVE  \/ \E u \in Users : accounts'[u] # Nothing /\ accounts'[u].tenant = f /\ accounts'[u].role = "admin"
                      \/ \E k \in Jobs : Local!Is(k, {"setup"}, "account")' /\ jobs'[k].tenant = f
    BY <1>3 DEF Local!HasAdmin, Local!Is
  <2>1. \A k \in Jobs : Local!Is(k, {"setup"}, "account") => k # j /\ jobs'[k] = jobs[k]
    BY <1>1, <1>6 DEF Local!Is, Doing
  <2>2. CASE \E u \in Users : accounts[u] # Nothing /\ accounts[u].tenant = f /\ accounts[u].role = "admin"
    BY <1>2, <1>7, <1>8, <2>2
  <2>3. CASE \E k \in Jobs : Local!Is(k, {"setup"}, "account") /\ jobs[k].tenant = f
    BY <2>1, <2>3 DEF Local!Is
  <2>4. QED
    BY <1>8, <2>2, <2>3 DEF LocalInv, Local!HasAdmin
<1>15. QED
  BY <1>9, <1>10, <1>11, <1>12, <1>13, <1>14 DEF LocalInv

LEMMA LocalStarts == Local!Init => LocalInv
<1> SUFFICES ASSUME Local!Init PROVE LocalInv
  OBVIOUS
<1>1. plan \in Plans /\ left \in [Local!Counts -> Nat] /\ people \subseteq Local!Person
  BY BrowserAssumption DEF Local!Init, Local!LocalBounds
<1>2. form \in Forms /\ Filled(form)
  BY NoFormFits DEF Local!Init
<1>3. screen \in [at : Local!OnScreen, chosen : Slugs \cup {Nothing}]
  BY DEF Local!Init, Local!OnScreen
<1>4. Local!LocalTypeOK
  BY <1>1, <1>2, <1>3 DEF Local!Init, Local!LocalTypeOK, Forms
<1>5. FormFilled /\ Local!RightTenant
  BY <1>2 DEF Local!Init, FormFilled, Local!RightTenant
<1>6. SlugsKept /\ EntersHere /\ SetupsFit /\ CopiesFit /\ Local!HasAdmin
  BY DEF Local!Init, SlugsKept, EntersHere, SetupsFit, CopiesFit, Local!HasAdmin, Doing, Local!AllTenants
<1>7. QED
  BY <1>4, <1>5, <1>6 DEF LocalInv

LEMMA LocalRested == LocalInv /\ UNCHANGED localVars => LocalInv'
<1> SUFFICES ASSUME LocalInv, UNCHANGED localVars PROVE LocalInv'
  OBVIOUS
<1>1. UNCHANGED <<plan, left, connected, people, accounts, configs, screen, form, jobs, entered, disputed>>
  BY DEF localVars
<1>2. QED
  BY <1>1, PageActs, FormOf DEF Filled

LEMMA LocalKept == LocalInv /\ Local!Next => LocalInv'
<1> SUFFICES ASSUME LocalInv, Local!Next PROVE LocalInv'
  OBVIOUS
<1>1. CASE Local!EnterSetup \/ Local!LeaveSetup \/ Local!Logout
  BY <1>1, SetupEnterLeaves
<1>2. CASE Local!Validate \/ Local!PressNext \/ Local!BackToTenant
           \/ (\E slug \in Slugs : Local!Edit(slug)) \/ (\E ask \in form.asks : Local!Answered(ask))
  BY <1>2, FormSteps
<1>3. CASE Local!Connect \/ (\E p \in people, pass \in Passwords : Local!ChangePassword(p, pass))
  BY <1>3, ElsewhereKeeps
<1>4. ASSUME NEW slug \in Slugs, Local!Scout(slug) PROVE LocalInv'
  BY <1>4, ScoutEnters
<1>5. ASSUME NEW typed \in plan.types,
             \/ Local!PressSetup(typed.user, typed.pass)
             \/ \E slug \in Slugs \cup {Nothing}, kind \in {"login", "device"} :
                   Local!Login(kind, typed.user, typed.pass, slug)
      PROVE  LocalInv'
  <2>1. typed.user \in Users /\ typed.pass \in Passwords
    BY BrowserAssumption DEF LocalInv, Local!LocalTypeOK, Local!LocalBounds
  <2>2. QED
    BY <1>5, <2>1, PressSetupKeeps, LoginBegins
<1>6. ASSUME NEW j \in Jobs, Local!JobSteps(j) PROVE LocalInv'
  BY <1>6, SlugCheckedKeeps, ConfigStoredKeeps, AdminStoredKeeps, CompletesKeeps, LocalLoginKeeps, ServerLoginKeeps,
     CopyActs, AccountCopiedKeeps, ConfigCopiedKeeps DEF Local!JobSteps
<1>7. QED
  BY <1>1, <1>2, <1>3, <1>4, <1>5, <1>6 DEF Local!Next

LEMMA LocalAgrees == LocalInv => LocalBooksAgree
<1> SUFFICES ASSUME LocalInv PROVE Local!EntersAgain
  BY DEF LocalInv, LocalBooksAgree, Local!LocalBooksAgree
<1> SUFFICES ASSUME NEW e \in entered, e.user \notin disputed
             PROVE  /\ accounts[e.user].tenant = e.tenant
                    /\ configs[e.tenant] # Nothing
                    /\ Local!Outcome(e.user, e.pass, configs[e.tenant].slug) = "success"
  BY DEF Local!EntersAgain
<1>1. /\ accounts[e.user] # Nothing /\ accounts[e.user].tenant = e.tenant /\ accounts[e.user].pass = e.pass
      /\ configs[e.tenant] # Nothing
  BY DEF LocalInv, EntersHere
<1>2. QED
  BY <1>1 DEF Local!Outcome

(* The tables of local tenants and accounts agree with one another and with *)
(* what was stored: stored credentials open their tenant, a tenant that was *)
(* set up here has an admin, and the page that opens is the one chosen.     *)
THEOREM LocalTables == BrowserSpec => []LocalBooksAgree
<1>1. BrowserInit => LocalInv
  BY LocalStarts DEF BrowserInit
<1>2. LocalInv /\ [BrowserNext]_<<accessVars, localVars, part>> => LocalInv'
  BY LocalKept, LocalRested, OnePart
<1>3. QED
  BY <1>1, <1>2, LocalAgrees, PTL DEF BrowserSpec
=============================================================================

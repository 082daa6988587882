------------------------------ MODULE NfcWrite ------------------------------
(***************************************************************************)
(* The card write pipeline of useNfcCard: scan, write, verify, record, and *)
(* the write-ahead journal, the deferred write and the retry paths that    *)
(* are to save a write when the card leaves the reader too early.          *)
(*                                                                         *)
(* A card's content is the sequence of operations it embodies, so its      *)
(* counter is the length and an overwritten operation is visible.  A write *)
(* lands whole or not at all.  One device runs one section; it reads one   *)
(* card, may be interrupted by the reader, the operator, its own timers or *)
(* a crash, and cards move freely between devices.  The session grant      *)
(* stays valid until the write is on the card.                             *)
(*                                                                         *)
(* Bounds: MaxOps operations are prepared, a device runs at most MaxPipes  *)
(* write pipelines at a time.                                              *)
(***************************************************************************)
EXTENDS Naturals, FiniteSets, Sequences, SequencesExt

CONSTANTS
    Devices, Cards,
    MaxAttempts,    \* MAX_JOURNAL_RECOVERY_ATTEMPTS, 3
    Sites,          \* the kinds of place a device may stand in, see NfcAssumption
    MaxOps, MaxPipes,
    NoCard          \* model value: nothing is shown, pending or journalled

ASSUME NfcAssumption ==
    /\ MaxAttempts \in Nat \ {0} /\ MaxOps \in Nat /\ MaxPipes \in Nat
    /\ NoCard \notin Cards
    /\ \A s \in Sites :
          /\ s.mayCancel \in BOOLEAN      \* a station drawer can be closed at any time,
                                          \* a kiosk's screen cannot
          /\ s.tapDuringSave \in BOOLEAN  \* may a card be presented again while the
                                          \* journal is saved?
          /\ s.saveMayFail \in BOOLEAN    \* may IndexedDB refuse the journal entry?
          /\ s.cards \subseteq Cards /\ s.ops \in 0..MaxOps

VARIABLES
    phase, err,     \* NfcCardState.phase and what kind of error it shows
    shown,          \* the payload in the state: card and content
    triggered,      \* autoCheckinTriggered / autoCheckoutTriggered of a kiosk
    last,           \* lastWriteCardIdHexRef
    retry,          \* journalRetryModeRef
    inline,         \* inlineWriteInProgressRef
    pending, timer, \* pendingWriteRef and its timeout
    autoReset,      \* postWriteAutoResetRef
    pipes,          \* the asynchronous write pipelines in flight
    journal,        \* IndexedDB writeJournal
    outbox, txlog,  \* IndexedDB reconciliationOutbox and transactionLog
    content,        \* what each card holds
    landed,         \* history: every content a card ever held
    ops,            \* number of operations prepared so far
    site            \* where the devices stand: a member of Sites, never changed

screen == <<phase, err, shown, triggered>>
refs   == <<last, retry, inline, pending, timer, autoReset>>
books  == <<outbox, txlog>>
world  == <<content, landed>>
limits == <<ops, site>>
vars   == <<screen, refs, pipes, journal, books, world, limits>>

Contents == SeqOf(1..MaxOps, MaxOps)
CardData == [card: Cards, data: Contents]
Kinds == {"inline", "pending", "recover"}
Steps == {"save", "write", "rewrite", "verify", "record", "clear"}
WriteJournal == [data: Contents, attempts: 0..MaxAttempts]

(* NoCard stands for the absence of these, so it is none of them.          *)
ASSUME NoCardAssumption == NoCard \notin CardData \cup WriteJournal

TypeOK ==
    /\ phase \in [Devices -> {"idle", "scanning", "ready", "writing", "success", "error"}]
    /\ err \in [Devices -> {"none", "verify", "read", "other"}]
    /\ shown \in [Devices -> CardData \cup {NoCard}]
    /\ last \in [Devices -> Cards \cup {NoCard}]
    /\ {triggered, retry, inline, timer, autoReset} \subseteq [Devices -> BOOLEAN]
    /\ pending \in [Devices -> CardData \cup {NoCard}]
    /\ \A d \in Devices : pipes[d] \subseteq
          [kind: Kinds, step: Steps, card: Cards, data: Contents, aborted: BOOLEAN]
    /\ journal \in [Devices -> [Cards ->
          WriteJournal \cup {NoCard}]]
    /\ \A d \in Devices : outbox[d] \subseteq CardData /\ txlog[d] \subseteq CardData
    /\ content \in [Cards -> Contents] /\ landed \subseteq CardData
    /\ ops \in 0..MaxOps /\ site \in Sites

Init ==
    /\ phase = [d \in Devices |-> "idle"] /\ err = [d \in Devices |-> "none"]
    /\ shown = [d \in Devices |-> NoCard] /\ last = [d \in Devices |-> NoCard]
    /\ triggered = [d \in Devices |-> FALSE]
    /\ retry = triggered /\ inline = triggered /\ timer = triggered /\ autoReset = triggered
    /\ pending = shown /\ pipes = [d \in Devices |-> {}]
    /\ journal = [d \in Devices |-> [c \in Cards |-> NoCard]]
    /\ outbox = pipes /\ txlog = pipes
    /\ content = [c \in Cards |-> <<>>]
    /\ landed = {[card |-> c, data |-> <<>>] : c \in Cards}
    /\ ops = 0 /\ site \in Sites

-----------------------------------------------------------------------------
Show(d, ph, e, s) ==
    /\ phase' = [phase EXCEPT ![d] = ph]
    /\ err' = [err EXCEPT ![d] = e]
    /\ shown' = [shown EXCEPT ![d] = s]

Of(w) == [card |-> w.card, data |-> w.data]
(* The reader of the session and its handlers are given up: what runs on   *)
(* its signal is aborted, what was started beside it is not.               *)
Aborted(ps) == {[p EXCEPT !.aborted = TRUE] : p \in ps}
Fresh(kind, step, w) ==
    [kind |-> kind, step |-> step, card |-> w.card, data |-> w.data, aborted |-> FALSE]

(* getPendingJournal: an exhausted entry stays in the store, unused.       *)
PendingJournal(d, c) ==
    LET j == journal[d][c] IN
    IF j = NoCard THEN NoCard
    ELSE IF j.attempts >= MaxAttempts THEN NoCard ELSE [card |-> c, data |-> j.data]

(* The journal is kept per card: a new entry replaces the old one.  None   *)
(* of the three may fail the write it protects.                            *)
SaveWriteJournal(d, p) ==
    journal' = [journal EXCEPT ![d][p.card] = [data |-> p.data, attempts |-> 0]]

ClearWriteJournal(d, c) == journal' = [journal EXCEPT ![d][c] = NoCard]

MarkJournalRecovering(d, c) == journal' = [journal EXCEPT ![d][c].attempts = @ + 1]

ClearPendingWriteTimeout(d) == timer' = [timer EXCEPT ![d] = FALSE]

MayStart(d) == Cardinality(pipes[d]) < MaxPipes

-----------------------------------------------------------------------------
(* Starting to scan.  The previous reading session is aborted; a deferred  *)
(* write and its timer survive.                                            *)
StartScan(d, w) ==
    /\ pipes' = [pipes EXCEPT ![d] = Aborted(@)]
    /\ pending' = [pending EXCEPT ![d] = w]
    /\ timer' = [timer EXCEPT ![d] = @ /\ w # NoCard]
    /\ autoReset' = [autoReset EXCEPT ![d] = FALSE]
    /\ Show(d, "scanning", "none", NoCard)
    /\ UNCHANGED <<last, inline, journal, books, world, limits>>

Scan(d) ==
    /\ phase[d] \in {"idle", "error"}
    /\ StartScan(d, pending[d])
    /\ UNCHANGED <<triggered, retry>>

(* "Coba Lagi": the journal of the last written card becomes a deferred    *)
(* write, without a timeout of its own.                                    *)
RetryScan(d) ==
    LET w == IF last[d] = NoCard THEN NoCard ELSE PendingJournal(d, last[d]) IN
    /\ phase[d] = "error"
    /\ StartScan(d, IF w # NoCard THEN w ELSE pending[d])
    /\ retry' = [retry EXCEPT ![d] = TRUE]
    /\ triggered' = [triggered EXCEPT ![d] = FALSE]

-----------------------------------------------------------------------------
(* Mutant: inlineWriteInProgressRef is not looked at.                      *)
ListeningWhileWriting(d) ==
    \/ phase[d] = "scanning"
    \/ phase[d] = "writing" /\ (site.tapDuringSave \/ \A p \in pipes[d] : p.step # "save")

(* The reading event.  In phase "writing" it is ignored while an inline    *)
(* write runs, unless a deferred write waits for its card.                 *)
Listening(d) ==
    \/ phase[d] = "scanning"
    \/ /\ phase[d] = "writing"
       /\ ~(inline[d] /\ pending[d] = NoCard)
       /\ site.tapDuringSave \/ \A p \in pipes[d] : p.step # "save"

StartPipe(d, p) ==
    /\ pipes' = [pipes EXCEPT ![d] = @ \cup {p}]
    /\ inline' = [inline EXCEPT ![d] = TRUE]
    /\ Show(d, "writing", "none", [card |-> p.card, data |-> Front(p.data)])

(* completePendingWrite: the serial matches, so the deferred bytes are     *)
(* written without looking at what the card holds now.                     *)
TapPending(d) ==
    /\ Listening(d) /\ MayStart(d)
    /\ pending[d] # NoCard
    /\ pending' = [pending EXCEPT ![d] = NoCard]
    /\ ClearPendingWriteTimeout(d)
    /\ StartPipe(d, Fresh("pending", "write", pending[d]))
    /\ UNCHANGED <<triggered, last, retry, autoReset, journal, books, world, limits>>

(* Mutant: a deferred write survives the normal reading of any card.       *)
DropPendingNever(d, c) == c \in Cards /\ Listening(d) /\ UNCHANGED <<pending, timer>>

(* Another card than the deferred one is presented: the deferred write is  *)
(* dropped and the card read afresh.                                       *)
DropPending(d, c) ==
    /\ Listening(d)
    /\ pending[d] # NoCard => pending[d].card # c
    /\ pending' = [pending EXCEPT ![d] = NoCard]
    /\ timer' = [timer EXCEPT ![d] = @ /\ pending[d] = NoCard]

(* A card was read without a deferred write.  In retry mode its journal is *)
(* written again whatever the card holds, else if the write did not land.  *)
WritesAgain(d, c, w) == w # NoCard /\ (retry[d] \/ Len(content[c]) < Len(w.data))

(* handleJournalRecovery, from a normal scan only if the write did not     *)
(* land, in retry mode whatever the card holds.                            *)
TapRecover(d, c) ==
    LET w == PendingJournal(d, c) IN
    /\ MayStart(d)
    /\ DropPending(d, c)
    /\ WritesAgain(d, c, w)
    /\ retry' = [retry EXCEPT ![d] = FALSE]
    /\ MarkJournalRecovering(d, c)
    /\ StartPipe(d, Fresh("recover", "write", w))
    /\ UNCHANGED <<triggered, last, autoReset, books, world, limits>>

(* handleNormalScan and handleJournalRetryMode reaching "ready".  A        *)
(* journal whose write had landed is cleared here, unrecorded.             *)
TapReady(d, c) ==
    LET w == PendingJournal(d, c) IN
    /\ DropPending(d, c)
    /\ ~WritesAgain(d, c, w)
    /\ retry' = [retry EXCEPT ![d] = FALSE]
    /\ IF w # NoCard THEN ClearWriteJournal(d, c) ELSE UNCHANGED journal
    /\ Show(d, "ready", "none", [card |-> c, data |-> content[c]])
    /\ UNCHANGED <<triggered, last, inline, autoReset, pipes, books, world, limits>>

(* The tag's data cannot be extracted ("read" is the error shown shortly   *)
(* after a write, which schedules the reset) or decoded.                   *)
TapUnreadable(d, c, e) ==
    /\ DropPending(d, c)
    /\ retry' \in {retry, [retry EXCEPT ![d] = FALSE]}
    /\ Show(d, "error", e, NoCard)
    /\ autoReset' = [autoReset EXCEPT ![d] = @ \/ e = "read"]
    /\ UNCHANGED <<triggered, last, inline, pipes, journal, books, world, limits>>

ReadingError(d) ==
    /\ phase[d] = "scanning"
    /\ Show(d, "error", "other", shown[d])
    /\ UNCHANGED <<triggered, refs, pipes, journal, books, world, limits>>

-----------------------------------------------------------------------------
(* write(): a section applies an operation to the payload it was shown.    *)
Write(d) ==
    /\ phase[d] = "ready"
    /\ site.mayCancel \/ ~triggered[d]
    /\ ops < site.ops /\ MayStart(d)
    /\ ops' = ops + 1
    /\ phase' = [phase EXCEPT ![d] = "writing"]
    /\ triggered' = [triggered EXCEPT ![d] = TRUE]
    /\ pipes' = [pipes EXCEPT ![d] = @ \cup
          {Fresh("inline", "save", [card |-> shown[d].card, data |-> Append(shown[d].data, ops + 1)])}]
    /\ UNCHANGED <<err, shown, refs, journal, books, world, site>>

(* Mutant: the deferred write gets no timeout.                             *)
DeferNoTimer(d, p) ==
    /\ pipes' = [pipes EXCEPT ![d] = @ \ {p}]
    /\ pending' = [pending EXCEPT ![d] = Of(p)]
    /\ UNCHANGED timer

Defer(d, p) ==
    /\ pipes' = [pipes EXCEPT ![d] = @ \ {p}]
    /\ pending' = [pending EXCEPT ![d] = Of(p)]
    /\ timer' = [timer EXCEPT ![d] = TRUE]

Advance(d, p, step) == pipes' = [pipes EXCEPT ![d] = (@ \ {p}) \cup {[p EXCEPT !.step = step]}]

Save(d, p, saved) ==
    /\ p.step = "save"
    /\ last' = [last EXCEPT ![d] = p.card]
    /\ IF saved THEN SaveWriteJournal(d, p) ELSE UNCHANGED journal
    /\ IF p.aborted
         THEN Defer(d, p) /\ UNCHANGED inline
         ELSE /\ Advance(d, p, "write")
              /\ inline' = [inline EXCEPT ![d] = TRUE]
              /\ UNCHANGED <<pending, timer>>
    /\ UNCHANGED <<screen, retry, autoReset, books, world, limits>>

PutOnCard(p) ==
    /\ content' = [content EXCEPT ![p.card] = p.data]
    /\ landed' = landed \cup {Of(p)}

Land(d, p) ==
    /\ p.step \in {"write", "rewrite"} /\ ~p.aborted
    /\ PutOnCard(p)
    /\ Advance(d, p, "verify")
    /\ UNCHANGED <<screen, refs, journal, books, limits>>

(* An error ends the pipeline; the inline write reports it even after the  *)
(* session was torn down, the other two keep silent then.                  *)
Throw(d, p, e) ==
    /\ pipes' = [pipes EXCEPT ![d] = @ \ {p}]
    /\ inline' = [inline EXCEPT ![d] = FALSE]
    /\ IF p.kind = "inline" \/ ~p.aborted THEN Show(d, "error", e, shown[d])
                                          ELSE UNCHANGED <<phase, err, shown>>
    /\ UNCHANGED <<triggered, last, retry, pending, timer, autoReset>>

(* Mutant: the error of the second attempt is swallowed.                   *)
WriteFailsSilently(d, p, itLanded) ==
    /\ p.step \in {"write", "rewrite"} /\ p.kind # "inline" /\ ~p.aborted
    /\ IF itLanded THEN PutOnCard(p) ELSE UNCHANGED world
    /\ Advance(d, p, IF p.step = "write" THEN "rewrite" ELSE "record")
    /\ UNCHANGED <<screen, refs, journal, books, limits>>

(* The write is reported as failed, whether or not it landed.  An inline   *)
(* write is deferred to the next tap; a deferred or recovered one is tried *)
(* once more, unless it was aborted or the error is final.                 *)
WriteFails(d, p, itLanded) ==
    /\ p.step \in {"write", "rewrite"}
    /\ IF itLanded THEN PutOnCard(p) ELSE UNCHANGED world
    /\ \/ /\ p.kind = "inline"
          /\ Defer(d, p)
          /\ inline' = [inline EXCEPT ![d] = FALSE]
          /\ UNCHANGED <<screen, last, retry, autoReset>>
       \/ /\ p.kind # "inline" /\ p.step = "write" /\ ~p.aborted
          /\ Advance(d, p, "rewrite")
          /\ UNCHANGED <<screen, refs>>
       \/ /\ p.kind # "inline"
          /\ Throw(d, p, "other")
    /\ UNCHANGED <<journal, books, limits>>

(* verifyWrittenPayload reads the card back; its reader is not aborted     *)
(* with the session.                                                       *)
Verify(d, p) ==
    /\ p.step = "verify" /\ content[p.card] = p.data
    /\ Advance(d, p, "record")
    /\ UNCHANGED <<screen, refs, journal, books, world, limits>>

(* Verification times out, reads something else or fails to decode, or the *)
(* outbox refuses the entry.                                               *)
Fail(d, p, e) ==
    /\ \/ p.step = "verify"
       \/ p.step = "record" /\ e = "other"
    /\ Throw(d, p, e)
    /\ UNCHANGED <<journal, books, world, limits>>

SameKey(e, p) == e.card = p.card /\ Len(e.data) = Len(p.data)

(* recordCardWrite: the outbox keeps the newest entry of a card's counter, *)
(* the transaction log the oldest.                                         *)
Record(d, p) ==
    /\ p.step = "record"
    /\ outbox' = [outbox EXCEPT ![d] = {e \in @ : ~SameKey(e, p)} \cup {Of(p)}]
    /\ txlog' = [txlog EXCEPT ![d] = IF \E e \in @ : SameKey(e, p) THEN @ ELSE @ \cup {Of(p)}]
    /\ Advance(d, p, "clear")
    /\ UNCHANGED <<screen, refs, journal, world, limits>>

Finish(d, p) ==
    /\ p.step = "clear"
    /\ ClearWriteJournal(d, p.card)
    /\ pipes' = [pipes EXCEPT ![d] = @ \ {p}]
    /\ inline' = [inline EXCEPT ![d] = FALSE]
    /\ Show(d, "success", "none", Of(p))
    /\ UNCHANGED <<triggered, last, retry, pending, timer, autoReset, books, world, limits>>

Pipeline(d) ==
    \E p \in pipes[d] :
        \/ Save(d, p, TRUE)
        \/ site.saveMayFail /\ Save(d, p, FALSE)
        \/ Land(d, p)
        \/ \E l \in BOOLEAN : WriteFails(d, p, l)
        \/ Verify(d, p)
        \/ \E e \in {"verify", "other"} : Fail(d, p, e)
        \/ Record(d, p)
        \/ Finish(d, p)

-----------------------------------------------------------------------------
(* Timers.                                                                 *)
PendingTimeout(d) ==
    /\ timer[d]
    /\ pending' = [pending EXCEPT ![d] = NoCard]
    /\ ClearPendingWriteTimeout(d)
    /\ autoReset' = [autoReset EXCEPT ![d] = TRUE]
    /\ Show(d, "error", "other", shown[d])
    /\ UNCHANGED <<triggered, last, retry, inline, pipes, journal, books, world, limits>>

AutoReset(d) ==
    /\ autoReset[d]
    /\ autoReset' = [autoReset EXCEPT ![d] = FALSE]
    /\ triggered' = [triggered EXCEPT ![d] = FALSE]
    /\ Show(d, "idle", "none", NoCard)
    /\ UNCHANGED <<last, retry, inline, pending, timer, pipes, journal, books, world, limits>>

(* reset() and cancel().  A kiosk resets after success, on a card that     *)
(* needs no write and on a transient read error; a station drawer can be   *)
(* closed in any phase.                                                    *)
TeardownSession(d) ==
    LET c == IF shown[d] # NoCard THEN shown[d].card ELSE last[d]
        keep == phase[d] = "success" \/ (phase[d] = "error" /\ err[d] = "verify")
    IN
    /\ phase[d] # "idle"
    /\ site.mayCancel \/ phase[d] \in {"ready", "success"} \/ err[d] = "read"
    /\ pipes' = [pipes EXCEPT ![d] = Aborted(@)]
    /\ IF c = NoCard \/ keep THEN UNCHANGED journal ELSE ClearWriteJournal(d, c)
    /\ pending' = [pending EXCEPT ![d] = NoCard]
    /\ inline' = [inline EXCEPT ![d] = FALSE]
    /\ last' = [last EXCEPT ![d] = NoCard]
    /\ ClearPendingWriteTimeout(d)
    /\ autoReset' = [autoReset EXCEPT ![d] = FALSE]
    /\ triggered' = [triggered EXCEPT ![d] = FALSE]
    /\ Show(d, "idle", "none", NoCard)
    /\ UNCHANGED <<retry, books, world, limits>>

(* A journal entry found an hour after it was saved is deleted.            *)
JournalExpires(d, c) ==
    /\ pipes[d] = {} /\ pending[d] = NoCard
    /\ journal[d][c] # NoCard
    /\ ClearWriteJournal(d, c)
    /\ UNCHANGED <<screen, refs, pipes, books, world, limits>>

(* The page is closed or reloaded: what was in memory is gone.             *)
Crash(d) ==
    /\ phase[d] # "idle"
    /\ pipes' = [pipes EXCEPT ![d] = {}]
    /\ Show(d, "idle", "none", NoCard)
    /\ triggered' = [triggered EXCEPT ![d] = FALSE]
    /\ last' = [last EXCEPT ![d] = NoCard]
    /\ retry' = [retry EXCEPT ![d] = FALSE]
    /\ inline' = [inline EXCEPT ![d] = FALSE]
    /\ pending' = [pending EXCEPT ![d] = NoCard]
    /\ timer' = [timer EXCEPT ![d] = FALSE]
    /\ autoReset' = [autoReset EXCEPT ![d] = FALSE]
    /\ UNCHANGED <<journal, books, world, limits>>

Operate(d) ==
    \/ Scan(d) \/ RetryScan(d)
    \/ TapPending(d)
    \/ \E c \in site.cards : \/ TapRecover(d, c)
                             \/ TapReady(d, c)
                             \/ \E e \in {"read", "other"} : TapUnreadable(d, c, e)
                             \/ JournalExpires(d, c)
    \/ ReadingError(d) \/ Write(d)
    \/ TeardownSession(d) \/ Crash(d)

Next == \E d \in Devices : Operate(d) \/ Pipeline(d) \/ PendingTimeout(d) \/ AutoReset(d)

Spec == Init /\ [][Next]_vars

(* Promises of the browser settle and timers fire; nobody has to tap.      *)
Fairness == \A d \in Devices :
    WF_vars(Pipeline(d)) /\ WF_vars(PendingTimeout(d)) /\ WF_vars(AutoReset(d))

FairSpec == Spec /\ Fairness

-----------------------------------------------------------------------------
(* Properties.                                                             *)

(* A kiosk whose reader and journal behave: what the pipeline relies on    *)
(* beyond its own code.                                                    *)
Undisturbed == ~site.mayCancel /\ ~site.tapDuringSave /\ ~site.saveMayFail

(* No phantom transactions (recordCardWrite.ts, step 3 of the pipeline):   *)
(* whatever is in a device's outbox or log was once on its card, through   *)
(* crashes, retries, cancelled or aborted sessions, and a journal that     *)
(* could not be saved.                                                     *)
NoPhantom ==
    \A d \in Devices : outbox[d] \cup txlog[d] \subseteq landed

(* The journal covers every write under way: a crash after this instant    *)
(* leaves an entry from which the write can be repeated or recognised.     *)
JournalCovers ==
    Undisturbed => \A d \in Devices : \A p \in pipes[d] :
        p.step \in {"write", "rewrite", "verify", "record"} /\ ~p.aborted
            => journal[d][p.card] # NoCard /\ journal[d][p.card].data = p.data

(* Card, journal and books go together at every instant at which a device  *)
(* may crash: nothing is in the books that was not on the card, nothing is *)
(* on its way to the card that is not in the journal (and the state is     *)
(* well typed).                                                            *)
BooksGoTogether == TypeOK /\ NoPhantom /\ JournalCovers

(* Nothing that was on a card is ever overwritten by something that does   *)
(* not contain it: no operation is lost, no counter goes back.             *)
NoRollback ==
    [][Undisturbed => \A c \in Cards : IsPrefix(content[c], content'[c])]_content

(* One pipeline at a time holds the reader (the purpose of                 *)
(* inlineWriteInProgressRef), and what the books of a device say happened  *)
(* is still on the card: no later write took it off again.                 *)
RecordedIsOnCard ==
    Undisturbed => \A d \in Devices :
        /\ Cardinality({p \in pipes[d] : ~p.aborted}) <= 1
        /\ \A e \in outbox[d] \cup txlog[d] : IsPrefix(e.data, content[e.card])

(* A device that is writing gets out of it: by success, by an error or by  *)
(* the timeout of the deferred write.                                      *)
WritingEnds == \A d \in Devices : phase[d] = "writing" ~> phase[d] # "writing"

(* useNfcCard.ts:397: a scan that finds a journal whose write did land     *)
(* clears the entry and records the write.                                 *)
SeenIsRecorded ==
    [][\A d \in Devices, c \in Cards :
          /\ phase[d] = "scanning" /\ phase'[d] = "ready"
          /\ journal[d][c] # NoCard /\ journal'[d][c] = NoCard
          => [card |-> c, data |-> journal[d][c].data] \in outbox'[d]]_vars
=============================================================================

------------------------------ MODULE CardsPage ------------------------------
(***************************************************************************)
(* The station's pages of cards and of members: topping up a card that was *)
(* chosen from the list (CardSection, useCardOperations, useCardSync and   *)
(* TopupDrawer), deleting a card, and what suspending or deleting a member *)
(* does to the member's cards (MemberSection).  The reader is the one of   *)
(* useNfcCard, without the details that NfcWrite has.  All cards belong to *)
(* one member; money is counted in top-ups.                                *)
(*                                                                         *)
(* Bounds: Limit top-ups on a card, and a visit, which says how many of    *)
(* each kind of event there are, which cards have a row, and whether the   *)
(* operator hurries: confirms while the check of the card is under way, or *)
(* closes the drawer while the card is being written.                      *)
(***************************************************************************)
EXTENDS Naturals

CONSTANTS Cards, Visits, Limit, Nothing

Counts == {"topups", "edits", "scans", "renders", "pulls", "faults"}
PageBounds == Limit \in Nat /\ Visits \subseteq [hurries : BOOLEAN, known : SUBSET Cards, left : [Counts -> Nat]]

VARIABLES
    visit, left,    \* the visit, and what is left of it
    chip,           \* what the cards carry
    rows, member,   \* localDb.cards of those cards, and their member
    listed,         \* the two lists as the pages show them
    nfc,            \* the state of useNfcCard and its pending write
    writes,         \* pipelines of useNfcCard
    journal,        \* writeJournal: what a card should carry
    page,           \* the drawer, its card and the question that is open
    lookups,        \* checkLocalBlockedStatus, under way
    reads,          \* of the two effects of useCardSync: between get and update
    closing,        \* the timer of 2.5 seconds
    jobs,            \* the mutation of a member or a card
    confirmed,      \* history: top-ups confirmed for the card that was chosen and checked
    checked,        \* history: the card of this scan was found active
    undone,         \* history: the status of a row was changed by something else than a jobs,
                    \* or a job failed, since the member was last changed; or two jobs overlapped
    overtaken       \* history: a card was chosen while another one was being written

books   == <<rows, member>>
reader  == <<nfc, writes, journal>>
history == <<confirmed, checked, undone, overtaken>>
pageVars == <<visit, left, chip, books, listed, reader, page, lookups, reads, closing, jobs, history>>

Kinds    == {"toggle", "delete", "card"}
Amounts  == 0..Limit
Statuses == {"active", "blocked", "deleted"}
Row      == [status : Statuses, bal : Amounts, owned : BOOLEAN]
Read     == [card : Cards, bal : Amounts, by : {"ready", "success"}, at : {"get", "put"}, found : BOOLEAN]
Write    == [card : Cards, to : Amounts, at : {"write", "record"}]
Job      == [to : {"active", "suspended", "deleted"}, card : Cards \cup {Nothing}, at : {"first", "read", "cards"},
             todo : SUBSET Cards]
NoScan   == [phase |-> "idle", card |-> Nothing, bal |-> 0, pending |-> Nothing]
Closed   == [drawer |-> FALSE, target |-> Nothing, question |-> Nothing]
Listed   == [cards |-> [c \in Cards |-> IF rows[c] = Nothing THEN "none" ELSE rows[c].status], member |-> member]

(* Nothing is not a card, an amount, a row or a job.                        *)
NothingApart == Nothing \notin Cards \cup Amounts \cup Row \cup Job

PageTypeOK ==
    /\ visit \in Visits /\ left \in [Counts -> Nat] /\ chip \in [Cards -> Amounts]
    /\ rows \in [Cards -> Row \cup {Nothing}] /\ member \in {"active", "suspended", "deleted"}
    /\ nfc.phase \in {"idle", "scanning", "ready", "writing", "success", "error"}
    /\ nfc.card \in Cards \cup {Nothing} /\ nfc.bal \in Amounts
    /\ nfc.pending \in [card : Cards, to : Amounts] \cup {Nothing}
    /\ writes \subseteq Write /\ journal \in [Cards -> Amounts \cup {Nothing}]
    /\ page.drawer \in BOOLEAN /\ page.target \in Cards \cup {Nothing}
    /\ lookups \subseteq Cards /\ reads \subseteq Read /\ closing \in BOOLEAN
    /\ jobs \in [Kinds -> Job \cup {Nothing}] /\ undone \in BOOLEAN /\ overtaken \in BOOLEAN

Init ==
    /\ visit \in Visits /\ left = visit.left
    /\ chip = [c \in Cards |-> 0] /\ member = "active"
    /\ rows = [c \in Cards |-> IF c \in visit.known THEN [status |-> "active", bal |-> 0, owned |-> TRUE] ELSE Nothing]
    /\ listed = Listed
    /\ nfc = NoScan /\ writes = {} /\ journal = [c \in Cards |-> Nothing] /\ page = Closed
    /\ lookups = {} /\ reads = {} /\ closing = FALSE /\ jobs = [k \in Kinds |-> Nothing]
    /\ confirmed = {} /\ checked = Nothing /\ undone = FALSE /\ overtaken = FALSE

Spend(what) == left[what] > 0 /\ left' = [left EXCEPT ![what] = @ - 1]

-----------------------------------------------------------------------------
(* The effects of the page.  They run when the phase changes; since they   *)
(* depend on closures, which are new in every render, they run again then. *)

(* Mutant: any card will do.                                               *)
IsChosenAny(c) == TRUE

IsChosen(c) == c = page.target

(* Of a card that is ready: not the one chosen, and the drawer closes; else*)
(* the check begins.                                                       *)
Compared(c) ==
    IF page.target = Nothing THEN UNCHANGED <<page, lookups>>
    ELSE IF IsChosen(c) THEN lookups' = lookups \cup {c} /\ UNCHANGED page
    ELSE page' = [page EXCEPT !.drawer = FALSE, !.target = Nothing] /\ UNCHANGED lookups

Reading(c, bal, by) == reads' = reads \cup {[card |-> c, bal |-> bal, by |-> by, at |-> "get", found |-> FALSE]}

(* A card is scanned that has no write to be recovered.                    *)
BecomesReady(c) ==
    /\ nfc' = [phase |-> "ready", card |-> c, bal |-> chip[c], pending |-> Nothing]
    /\ Compared(c) /\ Reading(c, chip[c], "ready") /\ checked' = Nothing
    /\ UNCHANGED closing

(* A write has succeeded: the row is brought up to date once more, and the *)
(* drawer closes by itself.                                                *)
Succeeded(c, bal) ==
    /\ nfc' = [phase |-> "success", card |-> c, bal |-> bal, pending |-> Nothing]
    /\ Reading(c, bal, "success") /\ closing' = TRUE

(* A render for another reason: the engine's state, the list of cards.     *)
Render ==
    /\ nfc.phase \in {"ready", "success"} /\ Spend("renders")
    /\ \/ nfc.phase = "ready" /\ Compared(nfc.card) /\ UNCHANGED <<reads, closing>>
       \/ nfc.phase = "success" /\ Reading(nfc.card, nfc.bal, "success") /\ closing' = TRUE /\ UNCHANGED <<page, lookups>>
    /\ UNCHANGED <<visit, chip, books, listed, reader, jobs, history>>

Blocked(c) == rows[c] # Nothing /\ (rows[c].status # "active" \/ (rows[c].owned /\ member # "active"))

(* The answer closes whatever drawer is open by now.                       *)
CheckAnswered(c) ==
    /\ c \in lookups /\ lookups' = lookups \ {c}
    /\ IF Blocked(c)
         THEN page' = [page EXCEPT !.drawer = FALSE, !.target = Nothing] /\ UNCHANGED checked
         ELSE /\ checked' = IF nfc.phase = "ready" /\ nfc.card = c THEN c ELSE checked
              /\ UNCHANGED page
    /\ UNCHANGED <<visit, left, chip, books, listed, reader, reads, closing, jobs, confirmed, undone, overtaken>>

(* get, then update or put.                                                *)
RowRead(r) ==
    /\ r.at = "get"
    /\ reads' = (reads \ {r}) \cup
                  (IF r.by = "success" /\ rows[r.card] = Nothing THEN {}
                   ELSE {[r EXCEPT !.at = "put", !.found = (rows[r.card] # Nothing)]})
    /\ UNCHANGED <<visit, left, chip, books, listed, reader, page, lookups, closing, jobs, history>>

RowWritten(r) ==
    /\ r.at = "put" /\ reads' = reads \ {r}
    /\ rows' = [rows EXCEPT ![r.card] = IF r.found THEN [@ EXCEPT !.bal = r.bal]
                                        ELSE [status |-> "active", bal |-> r.bal, owned |-> FALSE]]
    /\ undone' = (undone \/ ~r.found)
    /\ UNCHANGED <<visit, left, chip, member, listed, reader, page, lookups, closing, jobs, confirmed, checked, overtaken>>

Closes ==
    /\ closing /\ closing' = FALSE
    /\ nfc' = NoScan /\ writes' = {w \in writes : w.at = "record"}
    /\ page' = [page EXCEPT !.drawer = FALSE]
    /\ UNCHANGED <<visit, left, chip, books, listed, journal, lookups, reads, jobs, history>>

-----------------------------------------------------------------------------
(* The reader.                                                             *)

(* scan: what was begun before is aborted, a pending write stays.          *)
Scans(pending) ==
    /\ nfc' = [NoScan EXCEPT !.phase = "scanning", !.pending = pending]
    /\ writes' = {w \in writes : w.at = "record"} /\ closing' = FALSE

Starts(w) == writes' = writes \cup {w}

(* A tap, while scanning or while a write waits for the card.  A write that*)
(* waits is completed by its card and forgotten at any other; a card with  *)
(* a write in the journal that it does not carry gets it.                  *)
Waiting == nfc.phase = "scanning" \/ (nfc.phase = "writing" /\ nfc.pending # Nothing)
Missing(c) == journal[c] # Nothing /\ chip[c] < journal[c]
Tap(c) ==
    /\ Waiting /\ Spend("scans")
    /\ LET p == nfc.pending
           to == IF p # Nothing /\ p.card = c THEN p.to ELSE journal[c] IN
       IF (p # Nothing /\ p.card = c) \/ Missing(c)
         THEN /\ nfc' = [phase |-> "writing", card |-> c, bal |-> chip[c], pending |-> Nothing]
              /\ Starts([card |-> c, to |-> to, at |-> "write"])
              /\ UNCHANGED <<journal, page, lookups, reads, closing, checked>>
         ELSE /\ BecomesReady(c) /\ journal' = [journal EXCEPT ![c] = Nothing] /\ UNCHANGED writes
    /\ UNCHANGED <<visit, chip, books, listed, jobs, confirmed, undone, overtaken>>

(* The card carries what was written; verification, then the records.      *)
Lands(w) ==
    /\ w.at = "write" /\ chip' = [chip EXCEPT ![w.card] = w.to]
    /\ writes' = (writes \ {w}) \cup {[w EXCEPT !.at = "record"]}
    /\ UNCHANGED <<visit, left, books, listed, nfc, journal, page, lookups, reads, closing, jobs, history>>

(* The card has gone: the write waits for it, once.  A write that was      *)
(* waiting or was recovered fails, with the journal kept.                  *)
Misses(w) ==
    /\ w.at = "write" /\ Spend("faults") /\ writes' = writes \ {w}
    /\ \/ nfc' = [nfc EXCEPT !.pending = [card |-> w.card, to |-> w.to]]
       \/ nfc' = [nfc EXCEPT !.phase = "error", !.pending = Nothing]
    /\ UNCHANGED <<visit, chip, books, listed, journal, page, lookups, reads, closing, jobs, history>>

(* Verification fails: an error, the journal kept.                         *)
Unverified(w) ==
    /\ w.at = "record" /\ Spend("faults") /\ writes' = writes \ {w}
    /\ nfc' = [nfc EXCEPT !.phase = "error", !.pending = Nothing]
    /\ UNCHANGED <<visit, chip, books, listed, journal, page, lookups, reads, closing, jobs, history>>

(* updateLocalCardRecord, with the card's status, which is active.         *)
FromChip(c, bal) ==
    IF rows[c] = Nothing THEN [status |-> "active", bal |-> bal, owned |-> TRUE]
    ELSE IF rows[c].status = "deleted" THEN rows[c]
    ELSE [rows[c] EXCEPT !.status = "active", !.bal = bal, !.owned = TRUE]

Recorded(w) ==
    /\ w.at = "record" /\ writes' = writes \ {w}
    /\ rows' = [rows EXCEPT ![w.card] = FromChip(w.card, w.to)]
    /\ journal' = [journal EXCEPT ![w.card] = Nothing]
    /\ Succeeded(w.card, w.to) /\ undone' = TRUE
    /\ UNCHANGED <<visit, left, chip, member, listed, page, lookups, jobs, confirmed, checked, overtaken>>

(* The 30 seconds of a write that waits; three more, and the page is idle. *)
GivesUp ==
    /\ nfc.phase = "writing" /\ nfc.pending # Nothing
    /\ nfc' = [nfc EXCEPT !.phase = "error", !.pending = Nothing]
    /\ UNCHANGED <<visit, left, chip, books, listed, writes, journal, page, lookups, reads, closing, jobs, history>>

-----------------------------------------------------------------------------
(* The operator, on the page of cards.                                     *)
AtList == ~page.drawer /\ page.question = Nothing

(* TopupDrawer has a button for what can be done in each phase.             *)
Offers(phase) == page.drawer /\ nfc.phase = phase

(* handleTopupCard, of a card that the list shows as active.               *)
ChooseTopup(c) ==
    /\ AtList /\ listed.cards[c] = "active" /\ Spend("topups")
    /\ page' = [page EXCEPT !.drawer = TRUE, !.target = c]
    /\ Scans(nfc.pending) /\ overtaken' = (overtaken \/ writes # {})
    /\ UNCHANGED <<visit, chip, books, listed, journal, lookups, reads, jobs, confirmed, checked, undone>>

(* handleTopupConfirm: an amount that leaves the balance in its limits.    *)
Confirm ==
    /\ Offers("ready") /\ nfc.bal < Limit
    /\ visit.hurries \/ (lookups = {} /\ reads = {})
    /\ LET to == nfc.bal + 1 IN
         /\ nfc' = [nfc EXCEPT !.phase = "writing"]
         /\ journal' = [journal EXCEPT ![nfc.card] = to]
         /\ Starts([card |-> nfc.card, to |-> to, at |-> "write"])
         /\ confirmed' = IF nfc.card = page.target /\ (visit.hurries \/ checked = nfc.card)
                           THEN confirmed \cup {<<nfc.card, to>>} ELSE confirmed
    /\ UNCHANGED <<visit, left, chip, books, listed, page, lookups, reads, closing, jobs, checked, undone, overtaken>>

(* retryScan: the write of the journal waits for its card.                 *)
Retry ==
    /\ Offers("error")
    /\ LET c == nfc.card IN
         Scans(IF c # Nothing /\ journal[c] # Nothing THEN [card |-> c, to |-> journal[c]] ELSE nfc.pending)
    /\ UNCHANGED <<visit, left, chip, books, listed, journal, page, lookups, reads, jobs, history>>

(* reset and cancel: the journal is kept after a failure only.             *)
TornDown ==
    /\ nfc' = NoScan /\ writes' = {w \in writes : w.at = "record"}
    /\ journal' = IF nfc.card = Nothing \/ nfc.phase \in {"success", "error"} THEN journal
                  ELSE [journal EXCEPT ![nfc.card] = Nothing]

(* handleDrawerClose; the target stays.                                    *)
CloseDrawer ==
    /\ page.drawer /\ (nfc.phase = "writing" => visit.hurries)
    /\ TornDown /\ closing' = FALSE
    /\ page' = [page EXCEPT !.drawer = FALSE]
    /\ UNCHANGED <<visit, left, chip, books, listed, lookups, reads, jobs, history>>

(* The lists are fetched anew after a mutation, or when a page is shown.   *)
Fetch ==
    /\ listed # Listed /\ listed' = Listed
    /\ UNCHANGED <<visit, left, chip, books, reader, page, lookups, reads, closing, jobs, history>>

-----------------------------------------------------------------------------
(* Changes of members and cards: three mutations, each with one run at a   *)
(* time (isToggling, isDeleting).  Deleting asks first.                    *)
Task  == [to |-> "active", card |-> Nothing, at |-> "first", todo |-> {}]
AtRest == \A k \in Kinds : jobs[k] = Nothing

Begins(k, task) ==
    /\ jobs[k] = Nothing /\ jobs' = [jobs EXCEPT ![k] = task] /\ Spend("edits")
    /\ undone' = IF k = "card" THEN undone ELSE ~AtRest

AskDelete(what) ==
    /\ AtList /\ page' = [page EXCEPT !.question = what]
    /\ IF what = "member" THEN listed.member # "deleted" ELSE listed.cards[what] \notin {"none", "deleted"}
    /\ left["edits"] > 0
    /\ UNCHANGED <<visit, left, chip, books, listed, reader, lookups, reads, closing, jobs, history>>

AnswerDelete(yes) ==
    /\ page.question # Nothing /\ page' = [page EXCEPT !.question = Nothing]
    /\ IF ~yes THEN UNCHANGED <<left, jobs, undone>>
       ELSE IF page.question = "member" THEN Begins("delete", [Task EXCEPT !.to = "deleted"])
       ELSE Begins("card", [Task EXCEPT !.to = "deleted", !.card = page.question])
    /\ UNCHANGED <<visit, chip, books, listed, reader, lookups, reads, closing, confirmed, checked, overtaken>>

PressToggle ==
    /\ AtList /\ listed.member # "deleted"
    /\ Begins("toggle", [Task EXCEPT !.to = IF listed.member = "active" THEN "suspended" ELSE "active"])
    /\ UNCHANGED <<visit, chip, books, listed, reader, page, lookups, reads, closing, confirmed, checked, overtaken>>

Is(k, step) == jobs[k] # Nothing /\ jobs[k].at = step

(* The member's row, or the card's.                                        *)
FirstWritten(k) ==
    /\ Is(k, "first")
    /\ LET job == jobs[k] IN
       IF k = "card"
         THEN /\ rows' = [rows EXCEPT ![job.card] = IF @ = Nothing THEN @ ELSE [@ EXCEPT !.status = "deleted"]]
              /\ jobs' = [jobs EXCEPT ![k] = Nothing] /\ UNCHANGED member
         ELSE member' = job.to /\ jobs' = [jobs EXCEPT ![k].at = "read"] /\ UNCHANGED rows
    /\ UNCHANGED <<visit, left, chip, listed, reader, page, lookups, reads, closing, history>>

(* The member's cards whose status the change calls for, as they are now.  *)
Affected(to) == IF to = "suspended" THEN {"active"} ELSE IF to = "active" THEN {"blocked"} ELSE {"active", "blocked"}
LinkedRead(k) ==
    /\ Is(k, "read")
    /\ LET linked == {c \in Cards : rows[c] # Nothing /\ rows[c].owned /\ rows[c].status \in Affected(jobs[k].to)} IN
         jobs' = [jobs EXCEPT ![k].at = "cards", ![k].todo = linked]
    /\ UNCHANGED <<visit, left, chip, books, listed, reader, page, lookups, reads, closing, history>>

(* Mutant: the first card is all.                                          *)
TodoAfterFirst(todo, c) == {}

TodoAfter(todo, c) == todo \ {c}

(* One card after the other; the end of the last one ends the mutation.    *)
CardStatusOf(to) == IF to = "suspended" THEN "blocked" ELSE to
CardChanged(k, c) ==
    /\ Is(k, "cards") /\ c \in jobs[k].todo
    /\ rows' = [rows EXCEPT ![c].status = CardStatusOf(jobs[k].to)]
    /\ jobs' = [jobs EXCEPT ![k].todo = TodoAfter(@, c)]
    /\ UNCHANGED <<visit, left, chip, member, listed, reader, page, lookups, reads, closing, history>>

JobEnds(k) ==
    /\ Is(k, "cards") /\ jobs[k].todo = {} /\ jobs' = [jobs EXCEPT ![k] = Nothing]
    /\ UNCHANGED <<visit, left, chip, books, listed, reader, page, lookups, reads, closing, history>>

(* A failed update ends the mutation where it is.                          *)
JobFails(k) ==
    /\ jobs[k] # Nothing /\ Spend("faults") /\ jobs' = [jobs EXCEPT ![k] = Nothing] /\ undone' = TRUE
    /\ UNCHANGED <<visit, chip, books, listed, reader, page, lookups, reads, closing, confirmed, checked, overtaken>>

JobSteps(k) == FirstWritten(k) \/ LinkedRead(k) \/ JobEnds(k) \/ \E c \in Cards : CardChanged(k, c)

(* A pull brings a row, or another status.                                 *)
Pulled(c, status) ==
    /\ Spend("pulls") /\ undone' = TRUE
    /\ rows' = [rows EXCEPT ![c] = IF @ = Nothing THEN [status |-> status, bal |-> chip[c], owned |-> TRUE]
                                   ELSE [@ EXCEPT !.status = status]]
    /\ UNCHANGED <<visit, chip, member, listed, reader, page, lookups, reads, closing, jobs, confirmed, checked, overtaken>>

-----------------------------------------------------------------------------
CodeSteps ==
    \/ Closes \/ GivesUp
    \/ \E k \in Kinds : JobSteps(k)
    \/ \E c \in Cards : CheckAnswered(c)
    \/ \E r \in reads : RowRead(r) \/ RowWritten(r)
    \/ \E w \in writes : Lands(w) \/ Recorded(w)

Next ==
    \/ CodeSteps \/ Render \/ Confirm \/ Retry \/ CloseDrawer \/ Fetch \/ PressToggle
    \/ \E k \in Kinds : JobFails(k)
    \/ \E yes \in BOOLEAN : AnswerDelete(yes)
    \/ AskDelete("member")
    \/ \E c \in Cards : Tap(c) \/ ChooseTopup(c) \/ AskDelete(c) \/ \E status \in {"active", "blocked"} : Pulled(c, status)
    \/ \E w \in writes : Misses(w) \/ Unverified(w)

(* Timers fire, transactions and writes end.                               *)
PageFairness ==
    /\ WF_pageVars(Closes) /\ WF_pageVars(GivesUp)
    /\ WF_pageVars(\E k \in Kinds : JobSteps(k))
    /\ WF_pageVars(\E c \in Cards : CheckAnswered(c))
    /\ WF_pageVars(\E r \in reads : RowRead(r) \/ RowWritten(r))
    /\ WF_pageVars(\E w \in writes : Lands(w) \/ Recorded(w))

-----------------------------------------------------------------------------
(* Properties.                                                             *)

Settled == AtRest /\ reads = {} /\ writes = {}

(* When all is done, the row of a card shows the balance that the card     *)
(* carries, unless its last write is not recorded - as long as no card is  *)
(* chosen while another is being written, which the operator can do when   *)
(* the late answer of an earlier check has closed the drawer of the write; *)
(* and the cards of a suspended or deleted member are blocked or deleted,  *)
(* unless a mutation failed or met another one, or a write or a pull has   *)
(* changed a row since.                                                    *)
RowsFollow ==
    Settled =>
      /\ ~visit.hurries /\ ~overtaken =>
           \A c \in Cards : rows[c] # Nothing /\ journal[c] = Nothing => rows[c].bal = chip[c]
      /\ ~undone => \A c \in Cards : rows[c] # Nothing /\ rows[c].owned =>
                      /\ member = "suspended" => rows[c].status # "active"
                      /\ member = "deleted" => rows[c].status = "deleted"

PageBooksAgree == PageTypeOK /\ RowsFollow

(* What lands on a card was confirmed for the card that was chosen from the*)
(* list, after the check of that card, at most once.                       *)
LandsAsConfirmed ==
    [][\A c \in Cards : chip'[c] # chip[c] => <<c, chip'[c]>> \in confirmed /\ chip'[c] > chip[c]]_pageVars

(* "validate card/user status immediately after scan (before nominal       *)
(* input)" (useCardOperations.ts:117).                                     *)
CheckedBeforeTopup ==
    [][nfc.phase = "ready" /\ nfc'.phase = "writing" => checked = nfc.card]_pageVars

(* "Auto-close drawer after success" (useCardSync.ts:36); and a write that *)
(* waits for its card does not wait for ever.                              *)
DrawerCloses ==
    /\ page.drawer /\ nfc.phase = "success" ~> ~page.drawer \/ nfc.phase # "success"
    /\ nfc.phase = "writing" ~> nfc.phase # "writing"
=============================================================================

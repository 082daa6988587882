----------------------------- MODULE CardIssuance -----------------------------
(* The admin's card section: printing a card for a member and restoring one *)
(* from the records (useCardIssuance.ts, useCardRecovery.ts and             *)
(* CardSection.utils.tsx).  Every attempt to print is a mutation of its     *)
(* own; the mutations of the page share one set of refs, of which the       *)
(* abort controller outlives the mutation when a question is put to the     *)
(* operator.  A card stands for its own id: ids are cut from serial numbers *)
(* (toPayloadCardId) and no two cards of the model share one.  Only where   *)
(* the code compares a whole serial number with an id does it matter that a *)
(* serial number of other than six bytes is not its card's id (SixByte).    *)
(* What is printed for a member is the number of the attempt; 0 is what an  *)
(* earlier day has printed.                                                 *)
EXTENDS Naturals, FiniteSets

CONSTANTS
    Cards,      \* physical cards
    SixByte,    \* those whose serial number is six bytes long
    NoCard,     \* no card
    Profiles,   \* what the operator and the cards may do, see below
    MaxCalls,   \* bound: the largest number of mutations of the page
    MaxFaults   \* bound: failed writes, failed lookups, reloads and damages

ASSUME SixByteAssumption == SixByte \subseteq Cards
ASSUME BoundAssumption == MaxCalls \in Nat /\ MaxFaults \in Nat
ASSUME ProfileAssumption == \A p \in Profiles : p \in [swaps : BOOLEAN, hurries : BOOLEAN, calls : 0..MaxCalls]

VARIABLES
    profile,    \* swaps: cards change while the page works; hurries: the
                \* operator begins anew while an attempt he left is under
                \* way; calls: bound on the mutations of the page
    carries,    \* what is on each card: its state, whose id, printed for whom
    row,        \* localDb.cards of this tenant
    server,     \* ids that a row of the server holds, of whatever tenant
    calls,      \* the mutations under way
    begun,      \* mutations so far
    aborted,    \* sessions whose controller has aborted; a session bears the
                \* number of the mutation that opened it
    timers,     \* sessions whose 30 seconds are running
    refs,       \* issuanceAbortRef and ReaderRef, TimeoutRef, PreparedRef
    screen,     \* the drawer of issuance and its phase
    asked,      \* the two dialogs: what they ask about
    recovery,   \* executeRecovery
    faults,
    cut,        \* history: cards printed by an attempt that was cut off
                \* before it made the record
    mixed       \* history: a confirmed attempt was under way with another

issueVars == <<profile, carries, row, server, calls, begun, aborted, timers, refs, screen, asked, recovery, faults, cut, mixed>>

Numbers == 1..MaxCalls
Phases  == {"idle", "scanning", "writing", "done", "error"}
Dialogs == {"notBlank", "overwrite"}

Blank   == [state |-> "blank",   id |-> NoCard, for |-> 0]
Garbled == [state |-> "garbled", id |-> NoCard, for |-> 0]
Foreign == [state |-> "foreign", id |-> NoCard, for |-> 0]
Printed(c, n) == [state |-> "printed", id |-> c, for |-> n]

NoRow      == [known |-> FALSE, for |-> 0, pending |-> FALSE]
Row(n, p)  == [known |-> TRUE, for |-> n, pending |-> p]
NoPrepared == [card |-> NoCard, for |-> 0]
NoRefs     == [abort |-> 0, timer |-> 0, prepared |-> NoPrepared]
NoQuestion == [card |-> NoCard, for |-> 0]
NoRecovery == [at |-> "off", card |-> NoCard, for |-> 0]

Call == [n : Numbers, for : Numbers, prints : Numbers, force : BOOLEAN, via : Dialogs \cup {"form", "retry"},
         session : Numbers, at : {"scan", "check", "write", "put", "rewrite", "reput"}, card : Cards \cup {NoCard}]

IssueTypeOK ==
    /\ profile \in Profiles
    /\ carries \in [Cards -> {Blank, Garbled, Foreign} \cup {Printed(c, n) : c \in Cards, n \in 0..MaxCalls}]
    /\ row \in [Cards -> {NoRow} \cup {Row(n, p) : n \in 0..MaxCalls, p \in BOOLEAN}]
    /\ server \subseteq Cards /\ cut \subseteq Cards /\ faults \in 0..MaxFaults
    /\ calls \subseteq Call /\ begun \in 0..MaxCalls
    /\ aborted \subseteq Numbers /\ timers \subseteq Numbers \ aborted
    /\ refs.abort \in 0..MaxCalls /\ refs.timer \in 0..MaxCalls
    /\ refs.prepared \in [card : Cards \cup {NoCard}, for : 0..MaxCalls]
    /\ screen \in [drawer : BOOLEAN, phase : Phases] /\ mixed \in BOOLEAN
    /\ asked \in [Dialogs -> [card : Cards \cup {NoCard}, for : 0..MaxCalls]]
    /\ recovery \in [at : {"off", "scan", "write"}, card : Cards \cup {NoCard}, for : 0..MaxCalls]

(* How an earlier day leaves a card: what it carries, the row of this       *)
(* device, and whether the server knows it.                                 *)
Pasts ==
    {[card |-> x, row |-> NoRow, server |-> FALSE]     : x \in {Blank, Foreign}}
        \cup {[card |-> Foreign, row |-> NoRow, server |-> TRUE]}
        \cup {[card |-> Blank, row |-> Row(0, FALSE), server |-> TRUE]}
        \cup {[card |-> Blank, row |-> NoRow, server |-> TRUE]}
Today(c) == [card |-> Printed(c, 0), row |-> Row(0, FALSE), server |-> TRUE]

IssueInit ==
    /\ profile \in Profiles
    /\ \E past \in [Cards -> Pasts \cup {Today(c) : c \in Cards}] :
         /\ \A c \in Cards : past[c] \in Pasts \cup {Today(c)}
         /\ carries = [c \in Cards |-> past[c].card] /\ row = [c \in Cards |-> past[c].row]
         /\ server = {c \in Cards : past[c].server}
    /\ calls = {} /\ begun = 0 /\ aborted = {} /\ timers = {} /\ refs = NoRefs
    /\ screen = [drawer |-> FALSE, phase |-> "idle"] /\ asked = [d \in Dialogs |-> NoQuestion]
    /\ recovery = NoRecovery /\ faults = 0 /\ cut = {} /\ mixed = FALSE

(* The drawers and dialogs are modal.                                       *)
NothingAsked == \A d \in Dialogs : asked[d] = NoQuestion
Idle == calls = {} /\ recovery.at = "off"
(* A promise that an abort has rejected goes on before the next press.      *)
Rejected(x) == x.at \in {"scan", "write", "rewrite"} /\ x.session \in aborted
MayBegin == begun < profile.calls /\ NothingAsked /\ (profile.hurries \/ Idle) /\ ~(\E x \in calls : Rejected(x))
Move(x, step) == (calls \ {x}) \cup {[x EXCEPT !.at = step]}
Live(s) == s # 0 /\ s \notin aborted
Fault   == faults < MaxFaults /\ faults' = faults + 1

-----------------------------------------------------------------------------
(* The refs.                                                               *)

(* The session the page would end.                                         *)
Current == {refs.abort} \ {0}

(* cleanupIssuanceSession: forget the session, and end it.                  *)
Cleanup ==
    /\ refs' = NoRefs /\ aborted' = aborted \cup Current
    /\ timers' = timers \ ({refs.timer} \cup Current)

(* Mutant: a new session does not set its 30 seconds.                       *)
TimersOfUnset(s, dead) == timers \ ({refs.timer} \cup dead)

(* A new session ends the one before and sets its own timeout.              *)
TimersOf(s, dead) == (timers \ ({refs.timer} \cup dead)) \cup {s}
Fresh(x, left, dead) ==
    /\ calls' = (calls \ {x}) \cup {[x EXCEPT !.at = "scan", !.session = x.n, !.card = NoCard, !.prints = x.for]}
    /\ refs' = [left EXCEPT !.abort = x.n, !.timer = x.n]
    /\ aborted' = aborted \cup dead /\ timers' = TimersOf(x.n, dead)
    /\ screen' = [drawer |-> TRUE, phase |-> "scanning"]

NewCall(n, force, via) ==
    [n |-> begun + 1, for |-> n, prints |-> n, force |-> force, via |-> via, session |-> begun + 1, at |-> "scan",
     card |-> NoCard]

-----------------------------------------------------------------------------
(* What the operator does.                                                 *)

Mixes(force) == mixed' = (mixed \/ (calls # {} /\ (force \/ \E x \in calls : x.force)))

(* "Issue new": the drawer opens on whatever phase it was left in.          *)
OpenDrawer ==
    /\ ~screen.drawer /\ NothingAsked
    /\ profile.hurries \/ recovery.at = "off"
    /\ screen' = [screen EXCEPT !.drawer = TRUE]
    /\ UNCHANGED <<profile, carries, row, server, calls, begun, aborted, timers, refs, asked, recovery, faults, cut, mixed>>

(* handleIssueCard.                                                         *)
PressIssue ==
    /\ screen.drawer /\ screen.phase = "idle" /\ MayBegin
    /\ begun' = begun + 1 /\ Fresh(NewCall(begun + 1, FALSE, "form"), refs, Current) /\ Mixes(FALSE)
    /\ UNCHANGED <<profile, carries, row, server, asked, recovery, faults, cut>>

(* handleRetryIssuance: what was prepared is printed anew, else the form.   *)
PressRetry ==
    /\ screen.drawer /\ screen.phase = "error"
    /\ IF refs.prepared = NoPrepared
       THEN /\ screen' = [screen EXCEPT !.phase = "idle"]
            /\ UNCHANGED <<calls, begun, aborted, timers, refs, mixed>>
       ELSE /\ MayBegin /\ begun' = begun + 1 /\ Mixes(FALSE)
            /\ Fresh(NewCall(refs.prepared.for, FALSE, "retry"), NoRefs, Current)
    /\ UNCHANGED <<profile, carries, row, server, asked, recovery, faults, cut>>

(* handleIssuanceDrawerClose, by hand or 2.5 s after "done".  A finalising  *)
(* forced write that sees the abort makes no record.                        *)
CutOff == {x \in calls : x.at = "reput" /\ x.session = refs.abort}
CloseDrawer ==
    /\ screen.drawer /\ NothingAsked
    /\ Cleanup /\ screen' = [drawer |-> FALSE, phase |-> "idle"]
    /\ cut' = cut \cup {x.card : x \in CutOff}
    /\ UNCHANGED <<profile, carries, row, server, calls, begun, asked, recovery, faults, mixed>>

(* onCancel of a dialog closes the drawer and leaves its phase as it is.    *)
CancelDialog(d) ==
    /\ asked[d] # NoQuestion /\ ~(\E x \in calls : x.via = d)
    /\ asked' = [asked EXCEPT ![d] = NoQuestion]
    /\ Cleanup /\ screen' = [screen EXCEPT !.drawer = FALSE]
    /\ cut' = cut \cup {x.card : x \in CutOff}
    /\ UNCHANGED <<profile, carries, row, server, calls, begun, recovery, faults, mixed>>

(* handleForceOverwriteConfirm: the session that is still open writes what  *)
(* is prepared; without one a fresh scan begins, that asks no more.         *)
ConfirmDialog(d) ==
    /\ asked[d] # NoQuestion /\ begun < profile.calls
    /\ begun' = begun + 1 /\ asked' = [asked EXCEPT ![d] = NoQuestion] /\ Mixes(TRUE)
    /\ LET x == NewCall(asked[d].for, TRUE, d) IN
       IF refs.prepared # NoPrepared /\ Live(refs.abort)
       THEN /\ calls' = calls \cup {[x EXCEPT !.at = "rewrite", !.session = refs.abort, !.card = refs.prepared.card,
                                             !.prints = refs.prepared.for]}
            /\ screen' = [screen EXCEPT !.phase = "writing"]
            /\ UNCHANGED <<aborted, timers, refs>>
       ELSE Fresh(x, [refs EXCEPT !.prepared = NoPrepared], Current)
    /\ UNCHANGED <<profile, carries, row, server, recovery, faults, cut>>

-----------------------------------------------------------------------------
(* A mutation of handleFreshNfcSession, step by step.                      *)

(* The catch clauses: the timeout the ref names is cleared, whosoever's it  *)
(* is; that of a forced attempt ends the session of the page as well.       *)
Ended(x) == calls' = calls \ {x}
EndedBy(x) == {x.session} \cup (IF x.force THEN Current ELSE {})
Failed(x) ==
    /\ Ended(x)
    /\ refs' = IF x.force THEN NoRefs ELSE [refs EXCEPT !.timer = 0, !.prepared = NoPrepared]
    /\ aborted' = aborted \cup EndedBy(x) /\ timers' = timers \ ({refs.timer} \cup EndedBy(x))
    /\ screen' = [screen EXCEPT !.phase = "error"]
    /\ UNCHANGED asked

(* A question leaves the session open, without its timeout; an attempt that *)
(* a retry began has nobody to ask it.                                      *)
Ask(x, d, c, r) ==
    /\ Ended(x)
    /\ refs' = [r EXCEPT !.timer = 0] /\ timers' = timers \ {refs.timer}
    /\ asked' = IF x.via = "retry" THEN asked ELSE [asked EXCEPT ![d] = [card |-> c, for |-> x.for]]
    /\ UNCHANGED <<aborted, screen>>

HasData(c) == carries[c].state # "blank"

(* The first reading.                                                       *)
Scan(x, c) ==
    /\ x.at = "scan" /\ x.session \notin aborted
    /\ LET r == [refs EXCEPT !.prepared = [card |-> c, for |-> x.for]] IN
       IF HasData(c) /\ ~x.force
       THEN Ask(x, "notBlank", c, r)
       ELSE /\ calls' = (calls \ {x}) \cup {[x EXCEPT !.at = "check", !.card = c]} /\ refs' = r
            /\ UNCHANGED <<aborted, timers, screen, asked>>
    /\ UNCHANGED <<profile, carries, row, server, begun, recovery, faults, cut, mixed>>

(* checkLocalDB and GET /check-uid look for the serial number.              *)
ServerKnows(c) == c \in server
KnownSerial(c) == c \in SixByte /\ (row[c].known \/ ServerKnows(c))

(* Mutant: the id cut from the serial number is not looked up again.        *)
RegisteredBySerial(c) == KnownSerial(c)

(* validateUIDForIssuance, then checkLocalCardConflict by the card's id.    *)
Registered(c) == KnownSerial(c) \/ row[c].known

Check(x) ==
    /\ x.at = "check"
    /\ IF Registered(x.card) /\ ~x.force
       THEN Ask(x, "overwrite", x.card, refs)
       ELSE /\ calls' = Move(x, "write") /\ screen' = [screen EXCEPT !.phase = "writing"]
            /\ UNCHANGED <<aborted, timers, refs, asked>>
    /\ UNCHANGED <<profile, carries, row, server, begun, recovery, faults, cut, mixed>>

(* NETWORK_ERROR: fail closed.                                              *)
CheckFails(x) ==
    /\ x.at = "check" /\ ~(x.card \in SixByte /\ row[x.card].known) /\ Fault
    /\ Failed(x)
    /\ UNCHANGED <<profile, carries, row, server, begun, recovery, cut, mixed>>

(* The write goes to the card that is on the reader now.                    *)
OnReader(x, c) == c = x.card \/ profile.swaps
Prints(x) == Printed(x.card, x.prints)
WriteLands(x, c) ==
    /\ x.at \in {"write", "rewrite"} /\ x.session \notin aborted /\ OnReader(x, c)
    /\ carries' = [carries EXCEPT ![c] = Prints(x)]
    /\ calls' = Move(x, IF x.at = "write" THEN "put" ELSE "reput")
    /\ UNCHANGED <<profile, row, server, begun, aborted, timers, refs, screen, asked, recovery, faults, cut, mixed>>

(* A write that breaks off leaves the card as it was or unreadable.  One of *)
(* a forced attempt ends its session and begins a fresh one.                *)
WriteBreaks(x) ==
    /\ x.at \in {"write", "rewrite"}
    /\ \/ x.session \in aborted /\ UNCHANGED <<carries, faults>>
       \/ x.session \notin aborted /\ Fault /\ \E left \in {Garbled, carries[x.card]} : carries' = [carries EXCEPT ![x.card] = left]
    /\ IF x.at = "write" THEN Failed(x)
       ELSE /\ Fresh(x, [refs EXCEPT !.prepared = NoPrepared], {x.session}) /\ UNCHANGED asked
    /\ UNCHANGED <<profile, row, server, begun, recovery, cut, mixed>>

(* Mutant: the record is made under the member who was asked about first.   *)
RecordOfFirst(x) == Row(1, TRUE)

RecordOf(x) == Row(x.for, TRUE)
Recorded(x) ==
    /\ row' = [row EXCEPT ![x.card] = RecordOf(x)]
    /\ cut' = cut \ {x.card} /\ Ended(x)
    /\ screen' = [screen EXCEPT !.phase = "done"] /\ refs' = [refs EXCEPT !.prepared = NoPrepared]
    /\ UNCHANGED <<aborted, timers>>

Put(x) ==
    /\ x.at = "put" /\ Recorded(x)
    /\ UNCHANGED <<profile, carries, server, begun, asked, recovery, faults, mixed>>

(* handleForceOverwrite finalises unless the session was ended meanwhile;   *)
(* else it goes on to a fresh scan.                                         *)
Reput(x) ==
    /\ x.at = "reput"
    /\ IF x.session \notin aborted /\ refs.prepared # NoPrepared THEN Recorded(x)
       ELSE /\ Fresh(x, refs, Current) /\ UNCHANGED <<row, cut>>
    /\ UNCHANGED <<profile, carries, server, begun, asked, recovery, faults, mixed>>

(* A scan whose session has ended: "Waktu habis".                           *)
ScanEndsShort(x) ==
    /\ x.at = "scan" /\ x.session \in aborted /\ Failed(x)
    /\ UNCHANGED <<profile, carries, row, server, begun, recovery, faults, cut, mixed>>

(* Thirty seconds have passed.                                              *)
TimeOut(s) ==
    /\ s \in timers /\ timers' = timers \ {s} /\ aborted' = aborted \cup {s}
    /\ cut' = cut \cup {x.card : x \in {y \in calls : y.at = "reput" /\ y.session = s}}
    /\ UNCHANGED <<profile, carries, row, server, calls, begun, refs, screen, asked, recovery, faults, mixed>>

-----------------------------------------------------------------------------
(* executeRecovery: it shares nothing with issuance but the cards and the   *)
(* rows, has its own session, and the drawer that shows it does not end it. *)

Recover(c) ==
    /\ recovery.at = "off" /\ ~screen.drawer /\ NothingAsked /\ (profile.hurries \/ Idle)
    /\ row[c].known /\ ~row[c].pending
    /\ recovery' = [at |-> "scan", card |-> c, for |-> row[c].for]
    /\ UNCHANGED <<profile, carries, row, server, calls, begun, aborted, timers, refs, screen, asked, faults, cut, mixed>>

(* validateCardForRecovery decodes bytes that are encrypted: of a card that *)
(* the system has printed it reads 64 random bits as its counter, which is  *)
(* more than any counter, and refuses.  What cannot be decoded passes.      *)
Restorable(c) == carries[c].state \in {"blank", "garbled"}

RecoveryScan(c) ==
    /\ recovery.at = "scan"
    /\ recovery' = IF c = recovery.card /\ c \in SixByte /\ Restorable(c)
                   THEN [recovery EXCEPT !.at = "write"] ELSE NoRecovery
    /\ UNCHANGED <<profile, carries, row, server, calls, begun, aborted, timers, refs, screen, asked, faults, cut, mixed>>

(* What is written is the row as it was read before the scan.               *)
Restored == Printed(recovery.card, recovery.for)
RecoveryWrite(c) ==
    /\ recovery.at = "write" /\ (c = recovery.card \/ profile.swaps)
    /\ carries' = [carries EXCEPT ![c] = Restored]
    /\ recovery' = NoRecovery
    /\ UNCHANGED <<profile, row, server, calls, begun, aborted, timers, refs, screen, asked, faults, cut, mixed>>

(* Its own 30 seconds, or a failed write.                                   *)
RecoveryEnds ==
    /\ recovery.at # "off" /\ recovery' = NoRecovery
    /\ UNCHANGED <<profile, carries, row, server, calls, begun, aborted, timers, refs, screen, asked, faults, cut, mixed>>

-----------------------------------------------------------------------------
(* The rest of the world.                                                  *)

(* The entity push of the device.                                           *)
PushRow(c) ==
    /\ row[c].known /\ row[c].pending
    /\ row' = [row EXCEPT ![c].pending = FALSE] /\ server' = server \cup {c}
    /\ UNCHANGED <<profile, carries, calls, begun, aborted, timers, refs, screen, asked, recovery, faults, cut, mixed>>

(* A card is damaged in use.                                                *)
Damage(c) ==
    /\ carries[c].state = "printed" /\ Idle /\ Fault
    /\ carries' = [carries EXCEPT ![c] = Garbled]
    /\ UNCHANGED <<profile, row, server, calls, begun, aborted, timers, refs, screen, asked, recovery, cut, mixed>>

(* The page is closed or reloaded.                                          *)
Reload ==
    /\ Fault
    /\ cut' = cut \cup {x.card : x \in {y \in calls : y.at \in {"put", "reput"}}}
    /\ calls' = {} /\ aborted' = {} /\ timers' = {} /\ refs' = NoRefs /\ asked' = [d \in Dialogs |-> NoQuestion]
    /\ screen' = [drawer |-> FALSE, phase |-> "idle"] /\ recovery' = NoRecovery
    /\ UNCHANGED <<profile, carries, row, server, begun, mixed>>

-----------------------------------------------------------------------------
CallStep(x) ==
    \/ \E c \in Cards : Scan(x, c)
    \/ \E c \in Cards : WriteLands(x, c)
    \/ Check(x) \/ CheckFails(x) \/ WriteBreaks(x) \/ Put(x) \/ Reput(x) \/ ScanEndsShort(x)

IssueNext ==
    \/ OpenDrawer \/ PressIssue \/ PressRetry \/ CloseDrawer \/ Reload \/ RecoveryEnds
    \/ \E d \in Dialogs : CancelDialog(d) \/ ConfirmDialog(d)
    \/ \E x \in calls : CallStep(x)
    \/ \E s \in Numbers : TimeOut(s)
    \/ \E c \in Cards : Recover(c) \/ RecoveryScan(c) \/ RecoveryWrite(c) \/ PushRow(c) \/ Damage(c)

IssueSpec == IssueInit /\ [][IssueNext]_issueVars

(* Timers fire, lookups are answered, promises that have been settled go on.*)
CodeStep(n) ==
    \E x \in calls : x.n = n /\ (Check(x) \/ Put(x) \/ Reput(x) \/ ScanEndsShort(x)
                                   \/ (x.session \in aborted /\ WriteBreaks(x)))
FairSpec == IssueSpec /\ \A n \in Numbers : WF_issueVars(TimeOut(n)) /\ WF_issueVars(CodeStep(n))

-----------------------------------------------------------------------------
(* Properties                                                              *)

(* The card and the list of cards agree: a card that carries what was       *)
(* printed for a member is listed for that member, unless an attempt was    *)
(* cut off between the write and the record - as long as the operator keeps *)
(* to one card and to one attempt at a time (and the state is well typed).  *)
CardAndRowAgree ==
    /\ IssueTypeOK
    /\ ~profile.swaps /\ ~profile.hurries =>
         \A c \in Cards \ cut :
           carries[c].state = "printed" /\ ~(\E x \in calls : x.card = c /\ x.at \in {"put", "reput"})
             => carries[c].id = c /\ row[c].known /\ row[c].for = carries[c].for

(* While one card is on the reader, a card that carries data or is listed   *)
(* is printed only after the operator was asked: what the first reading and *)
(* the lookup have settled has to hold until the write, whatever other      *)
(* attempts do meanwhile - as long as a confirmed attempt has the page for  *)
(* itself: one whose write breaks off forgets the session of the page and   *)
(* leaves that of a later attempt open beside its own.  Restoring never     *)
(* overwrites a card that can be read, unless the operator goes on while it *)
(* is under way.                                                            *)
AsksBeforeOverwriting ==
    [][~profile.swaps /\ ~mixed =>
         \A c \in Cards :
           carries'[c].state = "printed" /\ carries'[c] # carries[c] /\ (carries[c].state # "blank" \/ row[c].known)
             => \/ \E x \in calls : x.force /\ x.card = c
                \/ recovery.at = "write" /\ (carries[c].state = "printed" => profile.hurries)]_issueVars

(* No attempt goes on for ever: with its 30 seconds running a scan, a       *)
(* lookup and a write all come to an end.                                   *)
AttemptEnds ==
    \A n \in Numbers :
      (~profile.hurries /\ \E x \in calls : x.n = n /\ x.at # "rewrite") ~> ~(\E x \in calls : x.n = n /\ x.at # "rewrite")
===============================================================================

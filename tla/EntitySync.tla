----------------------------- MODULE EntitySync -----------------------------
(***************************************************************************)
(* The rows of one member and of the card linked to it, as they travel     *)
(* between the databases of several devices and the server:                *)
(* syncPushEntities and /api/sync/push-entities on the way up, the merge   *)
(* of syncPull on the way down, and on each device the sections that edit  *)
(* the rows or overwrite them with what they read from the card itself.    *)
(* The log of transactions (TxPush) only counts here as what it does to    *)
(* the card's row on the server.                                           *)
(*                                                                         *)
(* Time is in seconds; the devices' clocks may be ahead of the server's.   *)
(* Bounds: MaxTime seconds, MaxCounter writes to the card, and for each    *)
(* site maxEdits edits and maxTries attempts of a request.                 *)
(***************************************************************************)
EXTENDS Naturals, FiniteSetsExt

CONSTANTS
    Devices,
    Sites,       \* what may happen at the places looked at, see Site
    MaxTime, MaxCounter,
    None         \* no such row

(* ahead: seconds a device's clock is ahead; overlap: are two requests ever *)
(* handled at a time; editsInPush: is a row ever edited while it is on its  *)
(* way; edits: what each device does; known: the rows exist from the start. *)
Site == [ahead: [Devices -> Nat], overlap: BOOLEAN, editsInPush: BOOLEAN,
         edits: [Devices -> SUBSET {"member", "card", "chip"}], known: BOOLEAN, maxEdits: Nat, maxTries: Nat \ {0}]

ASSUME EntityAssumption ==
    /\ Sites \subseteq Site /\ Sites # {}
    /\ MaxTime \in Nat \ {0} /\ MaxCounter \in Nat

VARIABLES
    site,         \* never changes
    now, edits,   \* the server's clock; number of edits so far
    chip,         \* the card itself
    srvM, srvC,   \* the server's rows
    locM, locC,   \* locM[d], locC[d]: the rows in d's database
    outbox,       \* counters of the transactions d has not pushed
    job,          \* what d's synchronisation is doing
    cursor,       \* d's syncCursors for members and cards
    stampOf,      \* history: updatedAt of the member edit last made on d,
    skipped       \* whether d's last pull with a newer member skipped it

server == <<srvM, srvC>>
local  == <<locM, locC, outbox>>
history == <<stampOf, skipped>>
vars == <<site, now, edits, chip, server, local, job, cursor, history>>

MemberStatus == {"active", "suspended", "deleted"}
CardStatus   == {"active", "blocked", "deleted"}
Counters     == 0..MaxCounter
Sync         == {"pending", "synced"}

SrvMember == [status: MemberStatus, at: Nat]
SrvCard   == [status: CardStatus, counter: Counters, bal: Counters, created: Nat, at: Nat]
LocMember == [status: MemberStatus, at: Nat, sync: Sync]
LocCard   == [status: CardStatus, counter: Counters, created: Nat, sync: Sync]
WireCard  == [status: CardStatus, counter: Counters, created: Nat]

ASSUME NoneAssumption == None \notin SrvMember \cup SrvCard \cup LocMember \cup LocCard \cup WireCard

(* A request carries copies (m, c) of the rows that were pending; seen is   *)
(* what the handler has just read from the server's table.                  *)
Idle == [at |-> "idle", m |-> None, c |-> None, seen |-> None, refused |-> {}, tries |-> 0]

TypeOK ==
    /\ site \in Sites /\ now \in 0..MaxTime /\ edits \in 0..site.maxEdits
    /\ chip \in [counter: Counters, frozen: BOOLEAN]
    /\ srvM \in SrvMember \cup {None} /\ srvC \in SrvCard \cup {None}
    /\ locM \in [Devices -> LocMember \cup {None}] /\ locC \in [Devices -> LocCard \cup {None}]
    /\ outbox \in [Devices -> SUBSET Counters]
    /\ cursor \in [Devices -> [m: Nat, c: Nat]] /\ stampOf \in [Devices -> Nat]
    /\ skipped \in [Devices -> BOOLEAN]
    /\ \A d \in Devices :
         /\ job[d].at \in {"idle", "member", "memberRead", "card", "cardRead", "answer", "pulled"}
         /\ job[d].refused \subseteq {"m", "c"} /\ job[d].tries \in 0..site.maxTries

Clock(d) == now + site.ahead[d]

Init ==
    /\ site \in Sites
    /\ now = 1 /\ edits = 0 /\ chip = [counter |-> 0, frozen |-> FALSE]
    /\ srvM = [status |-> "active", at |-> 0]
    /\ srvC = IF site.known THEN [status |-> "active", counter |-> 0, bal |-> 0, created |-> 0, at |-> 0] ELSE None
    /\ locM = [d \in Devices |-> [status |-> "active", at |-> 0, sync |-> "synced"]]
    /\ locC = [d \in Devices |->
                 IF site.known THEN [status |-> "active", counter |-> 0, created |-> 0, sync |-> "synced"]
                 ELSE None]
    /\ outbox = [d \in Devices |-> {}]
    /\ job = [d \in Devices |-> Idle]
    /\ cursor = [d \in Devices |-> [m |-> 0, c |-> 0]]
    /\ stampOf = [d \in Devices |-> 0]
    /\ skipped = [d \in Devices |-> FALSE]

Tick == now < MaxTime /\ now' = now + 1 /\ UNCHANGED <<site, edits, chip, server, local, job, cursor, history>>

-----------------------------------------------------------------------------
(* Edits on a device.                                                      *)
OnItsWay(d) == job[d].at \notin {"idle", "pulled"}

Edit(d, rows) ==
    /\ rows \in site.edits[d] /\ edits < site.maxEdits
    /\ OnItsWay(d) => site.editsInPush
    /\ edits' = edits + 1
    /\ UNCHANGED <<site, now, server, outbox, job, cursor, skipped>>

(* What a change of the member's status does to the linked card.           *)
Cascade(status, c) ==
    IF c = None THEN c
    ELSE IF status = "suspended" /\ c.status = "active" THEN [c EXCEPT !.status = "blocked", !.sync = "pending"]
    ELSE IF status = "active" /\ c.status = "blocked" THEN [c EXCEPT !.status = "active", !.sync = "pending"]
    ELSE IF status = "deleted" /\ c.status # "deleted" THEN [c EXCEPT !.status = "deleted", !.sync = "pending"]
    ELSE c

(* toggleMemberStatus and deleteMember.                                    *)
ChangeMember(d, status) ==
    /\ Edit(d, "member")
    /\ locM[d].status \notin {status, "deleted"}
    /\ locM' = [locM EXCEPT ![d] = [status |-> status, at |-> Clock(d), sync |-> "pending"]]
    /\ locC' = [locC EXCEPT ![d] = Cascade(status, @)]
    /\ stampOf' = [stampOf EXCEPT ![d] = Clock(d)]
    /\ UNCHANGED chip

(* deleteCard and fixCard (a balance corrected by hand is left out).       *)
ChangeCard(d, status) ==
    /\ Edit(d, "card")
    /\ status \in {"active", "deleted"}
    /\ IF locC[d] = None
         THEN /\ status = "active"
              /\ locC' = [locC EXCEPT ![d] = [status |-> "active", counter |-> 0, created |-> Clock(d), sync |-> "pending"]]
         ELSE locC' = [locC EXCEPT ![d].status = status, ![d].sync = "pending"]
    /\ UNCHANGED <<locM, chip, stampOf>>

(* handleRegister of a kiosk: a new row from what the card says.           *)
Register(d) ==
    /\ Edit(d, "card")
    /\ locC' = [locC EXCEPT ![d] = [status |-> "active", counter |-> chip.counter, created |-> Clock(d), sync |-> "pending"]]
    /\ UNCHANGED <<locM, chip, stampOf>>

(* updateLocalCardRecord: the status and the counter on the card replace   *)
(* those in the row, and the row stays pending or synced as it was.        *)
FromChip(d, ch) ==
    LET status == IF ch.frozen THEN "blocked" ELSE "active" IN
    IF locC[d] = None
      THEN [status |-> status, counter |-> ch.counter, created |-> 0, sync |-> "pending"]
    ELSE IF locC[d].status = "deleted" THEN locC[d]
    ELSE [locC[d] EXCEPT !.status = status, !.counter = ch.counter]

(* updateLocalUserFromCard dates the member's row anew.                    *)
Touched(d) == [locM[d] EXCEPT !.at = Clock(d)]

(* A scout reads the card.                                                 *)
Scout(d) ==
    /\ Edit(d, "chip")
    /\ locC' = [locC EXCEPT ![d] = FromChip(d, chip)]
    /\ locM' = [locM EXCEPT ![d] = Touched(d)]
    /\ UNCHANGED <<chip, stampOf>>

(* The station reads the card (useCardSync).                               *)
StationReads(d) ==
    /\ Edit(d, "chip")
    /\ locC' = [locC EXCEPT ![d] =
                  IF @ = None
                    THEN [status |-> "active", counter |-> chip.counter, created |-> 0, sync |-> "pending"]
                    ELSE [@ EXCEPT !.counter = chip.counter, !.sync = "pending"]]
    /\ UNCHANGED <<locM, chip, stampOf>>

(* checkLocalBlockedStatus.                                                *)
Blocked(d) == locC[d] # None /\ (locC[d].status # "active" \/ locM[d].status # "active")

(* A gate, a terminal or the station writes the card: a debit, or the      *)
(* block that the local rows call for (recordCardWrite).                   *)
WriteCard(d) ==
    /\ "chip" \in site.edits[d] /\ (OnItsWay(d) => site.editsInPush)
    /\ ~chip.frozen /\ chip.counter < MaxCounter
    /\ LET ch == [counter |-> chip.counter + 1, frozen |-> Blocked(d)] IN
         /\ chip' = ch
         /\ locC' = [locC EXCEPT ![d] = FromChip(d, ch)]
         /\ outbox' = [outbox EXCEPT ![d] = @ \cup {ch.counter}]
    /\ locM' = [locM EXCEPT ![d] = Touched(d)]
    /\ UNCHANGED <<site, now, edits, server, job, cursor, history>>

(* The station takes the card's block away (handleResetWrite); useCardSync *)
(* makes the row active.                                                   *)
ResetCard(d) ==
    /\ "chip" \in site.edits[d] /\ (OnItsWay(d) => site.editsInPush)
    /\ chip.frozen /\ chip.counter < MaxCounter
    /\ LET ch == [counter |-> chip.counter + 1, frozen |-> FALSE] IN
         /\ chip' = ch
         /\ locC' = [locC EXCEPT ![d] = [FromChip(d, ch) EXCEPT !.status = "active", !.counter = ch.counter]]
         /\ outbox' = [outbox EXCEPT ![d] = @ \cup {ch.counter}]
    /\ locM' = [locM EXCEPT ![d] = Touched(d)]
    /\ UNCHANGED <<site, now, edits, server, job, cursor, history>>

-----------------------------------------------------------------------------
(* The push.                                                               *)
Pending(row) == IF row # None /\ row.sync = "pending" THEN row ELSE None

(* What of a row goes into a request.                                      *)
ToWireMember(row) == IF row = None THEN None ELSE [status |-> row.status, at |-> row.at]
ToWireCard(row)   ==
    IF row = None THEN None ELSE [status |-> row.status, counter |-> row.counter, created |-> row.created]

(* A request handles its member, if there is one, then its card.           *)
First(m) == IF m # None THEN "member" ELSE "card"
Then(c)  == IF c # None THEN "card" ELSE "answer"

(* getPendingMembers and getPendingCards; both kinds share the first       *)
(* request.                                                                *)
StartPush(d) ==
    /\ job[d].at = "idle"
    /\ Pending(locM[d]) # None \/ Pending(locC[d]) # None
    /\ job' = [job EXCEPT ![d] = [Idle EXCEPT !.at = First(Pending(locM[d])), !.tries = 1,
                                              !.m = ToWireMember(Pending(locM[d])),
                                              !.c = ToWireCard(Pending(locC[d]))]]
    /\ UNCHANGED <<site, now, edits, chip, server, local, cursor, history>>

Handling(d) == job[d].at \in {"memberRead", "cardRead"} \/ (job[d].at = "card" /\ job[d].m # None)
Goto(d, at, seen) == job' = [job EXCEPT ![d].at = at, ![d].seen = seen]
OnServer == UNCHANGED <<site, now, edits, chip, local, cursor, history>>

(* processMember, first the SELECT ...                                     *)
ReadMember(d) ==
    /\ job[d].at = "member"
    /\ site.overlap \/ ~ \E e \in Devices : Handling(e)
    /\ Goto(d, "memberRead", srvM)
    /\ UNCHANGED server /\ OnServer

MemberIsNewer(m, seen) == seen = None \/ m.at > seen.at

(* ... then the INSERT or UPDATE.                                          *)
StoreMember(d) ==
    /\ job[d].at = "memberRead"
    /\ srvM' = IF MemberIsNewer(job[d].m, job[d].seen)
                 THEN job[d].m ELSE srvM
    /\ Goto(d, Then(job[d].c), None)
    /\ UNCHANGED srvC /\ OnServer

(* processCard likewise.                                                   *)
ReadCard(d) ==
    /\ job[d].at = "card"
    /\ site.overlap \/ ~ \E e \in Devices \ {d} : Handling(e)
    /\ Goto(d, "cardRead", srvC)
    /\ UNCHANGED server /\ OnServer

CardIsNewer(c, seen) == c.counter >= seen.counter \/ c.created > seen.at

(* Mutant: the counter is stored as it came, like the other columns.       *)
UpdatedCardAsSent(c) ==
    [srvC EXCEPT !.status = c.status, !.bal = c.counter, !.at = now, !.counter = c.counter]

(* The UPDATE statement compares the counter once more, with the row as it *)
(* is then, but not the balance.                                           *)
UpdatedCard(c) ==
    [srvC EXCEPT !.status = c.status, !.bal = c.counter, !.at = now, !.counter = Max({@, c.counter})]

(* An INSERT that finds the row there is taken as accepted.                *)
StoreCard(d) ==
    /\ job[d].at = "cardRead"
    /\ LET c == job[d].c
           seen == job[d].seen IN
         srvC' = IF seen = None
                   THEN IF srvC # None THEN srvC
                        ELSE [status |-> c.status, counter |-> c.counter, bal |-> c.counter,
                              created |-> c.created, at |-> now]
                 ELSE IF CardIsNewer(c, seen) THEN UpdatedCard(c)
                 ELSE srvC
    /\ Goto(d, "answer", None)
    /\ UNCHANGED srvM /\ OnServer

(* A statement fails: that row is refused, the others are handled.         *)
Refuse(d) ==
    /\ job[d].at \in {"memberRead", "cardRead"}
    /\ LET member == job[d].at = "memberRead" IN
         job' = [job EXCEPT ![d].at = IF member THEN Then(job[d].c) ELSE "answer",
                            ![d].seen = None,
                            ![d].refused = @ \cup {IF member THEN "m" ELSE "c"}]
    /\ UNCHANGED server /\ OnServer

(* Mutant: whatever was sent is marked.                                    *)
MarkedAlways(row, sent, refused) == IF sent # None THEN [row EXCEPT !.sync = "synced"] ELSE row

(* markMembersSynced, markCardsSynced: by id, whatever the row is by now.  *)
Marked(row, sent, refused) ==
    IF sent # None /\ ~refused THEN [row EXCEPT !.sync = "synced"] ELSE row

PushAnswered(d) ==
    /\ job[d].at = "answer"
    /\ locM' = [locM EXCEPT ![d] = Marked(@, job[d].m, "m" \in job[d].refused)]
    /\ locC' = [locC EXCEPT ![d] = Marked(@, job[d].c, "c" \in job[d].refused)]
    /\ job' = [job EXCEPT ![d] = Idle]
    /\ UNCHANGED <<site, now, edits, chip, server, outbox, cursor, history>>

(* The request or its answer is lost: it is sent again as it was, and the  *)
(* push is given up after the last attempt.  A push that is blocked, or    *)
(* refused as a whole (4xx), is given up at once.                          *)
PushLost(d) ==
    /\ job[d].at \in {First(job[d].m), "answer"}
    /\ job' = [job EXCEPT ![d] =
                 IF job[d].tries < site.maxTries
                   THEN [job[d] EXCEPT !.at = First(job[d].m), !.refused = {}, !.tries = @ + 1]
                   ELSE Idle]
    /\ UNCHANGED <<site, now, edits, chip, server, local, cursor, history>>

(* The outbox of transactions is pushed, in the order of the counters: a   *)
(* counter above the server's moves the card's row.                        *)
PushLog(d) ==
    /\ job[d].at = "idle" /\ outbox[d] # {}
    /\ site.overlap \/ ~ \E e \in Devices : Handling(e)
    /\ LET top == Max(outbox[d]) IN
         srvC' = IF srvC = None \/ top <= srvC.counter THEN srvC
                 ELSE [srvC EXCEPT !.counter = top, !.bal = top, !.at = now]
    /\ outbox' = [outbox EXCEPT ![d] = {}]
    /\ UNCHANGED <<site, now, edits, chip, srvM, locM, locC, job, cursor, history>>

-----------------------------------------------------------------------------
(* The pull; one without any news ends at once.                            *)
After(row, cur) == IF row # None /\ row.at > cur THEN row ELSE None

Fetch(d) ==
    /\ job[d].at = "idle"
    /\ LET m == After(srvM, cursor[d].m)
           c == After(srvC, cursor[d].c) IN
         job' = IF m = None /\ c = None THEN job
                ELSE [job EXCEPT ![d] = [Idle EXCEPT !.at = "pulled", !.m = m, !.c = c]]
    /\ UNCHANGED <<site, now, edits, chip, server, local, cursor, history>>

(* Pending rows are read and skipped in the transaction that merges.       *)
Skipped(row) == Pending(row) # None

(* Mutant: the cursor is the server's clock at the time of the answer.     *)
NewCursorIsNow(row, cur) == now

NewCursor(row, cur) == IF row = None THEN cur ELSE row.at

(* A row from the server as the device keeps it; the card's time stamp is   *)
(* dropped, its balance goes with its counter.                             *)
MapMemberToUser(m) == [status |-> m.status, at |-> m.at, sync |-> "synced"]
MapCardToLocal(c)  == [status |-> c.status, counter |-> c.counter, created |-> c.created, sync |-> "synced"]

(* mergePulledMembers, mergePulledCards, then updateSyncCursors.           *)
Merge(d) ==
    /\ job[d].at = "pulled"
    /\ LET m == job[d].m
           c == job[d].c IN
         /\ locM' = IF m = None \/ Skipped(locM[d]) THEN locM
                    ELSE [locM EXCEPT ![d] = MapMemberToUser(m)]
         /\ locC' = IF c = None \/ Skipped(locC[d]) THEN locC
                    ELSE [locC EXCEPT ![d] = MapCardToLocal(c)]
         /\ cursor' = [cursor EXCEPT ![d] = [m |-> NewCursor(m, @.m), c |-> NewCursor(c, @.c)]]
    /\ job' = [job EXCEPT ![d] = Idle]
    /\ skipped' = IF job[d].m = None THEN skipped ELSE [skipped EXCEPT ![d] = Skipped(locM[d])]
    /\ UNCHANGED <<site, now, edits, chip, server, outbox, stampOf>>

-----------------------------------------------------------------------------
Edits(d) ==
    \/ \E status \in MemberStatus : ChangeMember(d, status)
    \/ \E status \in CardStatus : ChangeCard(d, status)
    \/ Register(d) \/ Scout(d) \/ StationReads(d) \/ WriteCard(d) \/ ResetCard(d)

Handles(d) == ReadMember(d) \/ StoreMember(d) \/ ReadCard(d) \/ StoreCard(d)

Next ==
    \/ Tick
    \/ \E d \in Devices :
         \/ Edits(d) \/ Handles(d) \/ Refuse(d)
         \/ StartPush(d) \/ PushAnswered(d) \/ PushLost(d) \/ PushLog(d)
         \/ Fetch(d) \/ Merge(d)

Spec == Init /\ [][Next]_vars

-----------------------------------------------------------------------------
(* Properties.                                                             *)
Ahead == \E d \in Devices : site.ahead[d] > 0

(* A member edit stays in the device's own database, pending or synced,    *)
(* until a later one replaces it: no pull brings back an older row.  And a *)
(* member row marked as synced has reached the server, or met a later edit *)
(* there (and the state is well typed).                                    *)
NoEditIsLost ==
    /\ TypeOK
    /\ ~site.editsInPush /\ ~site.overlap =>
          \A d \in Devices :
              /\ locM[d].at >= stampOf[d]
              /\ locM[d].sync = "synced" => srvM.at >= stampOf[d]

(* The balance on the server is the one that goes with its counter.        *)
BalanceOfCounter ==
    srvC # None /\ ~site.overlap /\ ~Ahead /\ site.known => srvC.bal = srvC.counter

(* Requirement 12.1 of tenant-management-enhanced, requirements line 191:  *)
(* last write wins, by updated_at.  It does when requests are handled one  *)
(* after the other.  The counter of a card never falls, whatever was sent  *)
(* and however requests overlap (the stale check of transactions rests on  *)
(* it), and takes its balance with it.                                     *)
ServerNeverGoesBack ==
    [][/\ ~site.overlap => srvM'.at >= srvM.at
       /\ srvC # None => srvC'.counter >= srvC.counter
       /\ BalanceOfCounter']_vars

(* d has pushed and pulled all there is, and the server's row is later     *)
(* than d's last edit.                                                     *)
UpToDate(d) ==
    job[d].at = "idle" /\ locM[d].sync = "synced" /\ cursor[d].m >= srvM.at /\ srvM.at > stampOf[d]

(* Such a device has the server's member, unless its last pull skipped     *)
(* that row, because the one here was pending, and moved the cursor past   *)
(* it all the same.  No clock may be ahead: the edit of a device whose     *)
(* clock is right is then older than the row it meets at the server, where *)
(* it is dropped, but its device shows it as synced and keeps it.          *)
AgreesUnlessSkipped ==
    ~site.editsInPush /\ ~site.overlap /\ ~Ahead =>
        \A d \in Devices : UpToDate(d) /\ ~skipped[d] => locM[d].status = srvM.status

(* tenant-management-enhanced, design line 759: "On next pull, both        *)
(* devices receive the latest version."                                    *)
BothHaveTheLatest == \A d \in Devices : UpToDate(d) => locM[d].status = srvM.status
=============================================================================

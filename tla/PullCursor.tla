----------------------------- MODULE PullCursor -----------------------------
(***************************************************************************)
(* The pull half of the synchronisation, for transactions or cards (the    *)
(* clocks of members are the subject of EntitySync): rows that             *)
(* other devices push appear in a table of the server, each with a time    *)
(* stamp in whole seconds, and a device fetches them page by page with a   *)
(* cursor, the largest time stamp it has been given.                       *)
(*                                                                         *)
(* A device may run two pulls at a time (SyncEngine shows how).            *)
(*                                                                         *)
(* Bounds: MaxRows rows, MaxClock seconds (no push begins in the last),    *)
(* MaxFaults failed pulls, and PageSize for the 500 rows of a page.        *)
(***************************************************************************)
EXTENDS Naturals, Sequences, FiniteSetsExt, SequencesExt

CONSTANTS
    Pulls, Handlers,
    SlowHandlers, \* may a push handler still insert when its second is over?
    SameSecond,   \* may a pull read the table in a second that still gets rows?
    MaxBatch,     \* rows pushed by one request
    PageSize, MaxRows, MaxClock, MaxFaults,
    NoPage

ASSUME PullAssumption ==
    /\ {MaxBatch, PageSize, MaxClock} \subseteq Nat \ {0} /\ {MaxRows, MaxFaults} \subseteq Nat
    /\ {SlowHandlers, SameSecond} \subseteq BOOLEAN

VARIABLES
    clock,    \* the server's, in seconds
    rows,     \* time stamps of the table's rows, in the order of insertion
    handler,  \* push handlers: the second they began in, and rows left to insert
    saved,    \* the device's syncCursors entry
    have,     \* rows merged into the device's database
    running,  \* running[p]: runningCursors of pull p
    page,     \* page[p]: the answer on its way to pull p
    stage,    \* stage[p]: where pull p is
    faults

pullVars == <<clock, rows, handler, saved, have, running, page, stage, faults>>

Ids  == DOMAIN rows
Page == [ids: SUBSET (1..MaxRows), cursor: Nat, hasMore: BOOLEAN]

PullTypeOK ==
    /\ clock \in 1..MaxClock /\ faults \in 0..MaxFaults
    /\ rows \in Seq(0..MaxClock) /\ Len(rows) <= MaxRows
    /\ handler \in [Handlers -> [began: 0..MaxClock, left: 0..MaxBatch]]
    /\ saved \in 0..MaxClock /\ have \subseteq Ids
    /\ running \in [Pulls -> 0..MaxClock]
    /\ page \in [Pulls -> Page \cup {NoPage}]
    /\ stage \in [Pulls -> {"idle", "request", "answer", "save"}]

PullInit ==
    /\ clock = 1 /\ rows = <<>> /\ saved = 0 /\ have = {} /\ faults = 0
    /\ handler = [h \in Handlers |-> [began |-> 0, left |-> 0]]
    /\ running = [p \in Pulls |-> 0]
    /\ page = [p \in Pulls |-> NoPage]
    /\ stage = [p \in Pulls |-> "idle"]

-----------------------------------------------------------------------------
(* The server: pushes.                                                     *)
OnServer == UNCHANGED <<saved, have, running, page, stage, faults>>

Busy(h) == handler[h].left > 0

(* The current second gets no more rows: what the cursor relies on.        *)
SecondIsOver ==
    /\ \A i \in Ids : rows[i] < clock
    /\ SlowHandlers \/ \A h \in Handlers : ~Busy(h)

Tick ==
    /\ clock < MaxClock
    /\ SlowHandlers \/ \A h \in Handlers : ~Busy(h)
    /\ clock' = clock + 1
    /\ UNCHANGED <<rows, handler>> /\ OnServer

(* now is read once, before the first row is handled.                      *)
PushBegins(h, n) ==
    /\ ~Busy(h) /\ n \in 1..MaxBatch /\ clock < MaxClock
    /\ Len(rows) + n + MaxBatch * Cardinality({g \in Handlers : Busy(g)}) <= MaxRows
    /\ SameSecond \/ SecondIsOver
    /\ handler' = [handler EXCEPT ![h] = [began |-> clock, left |-> n]]
    /\ UNCHANGED <<clock, rows>> /\ OnServer

Insert(h) ==
    /\ Busy(h)
    /\ rows' = Append(rows, handler[h].began)
    /\ handler' = [handler EXCEPT ![h].left = @ - 1]
    /\ UNCHANGED clock /\ OnServer

-----------------------------------------------------------------------------
(* The server: one pull request.  ORDER BY the stamp, rows of one second   *)
(* in the order of insertion, LIMIT PageSize.                              *)
Newer(c) == {i \in Ids : rows[i] > c}
Earlier(i, j) == rows[i] < rows[j] \/ (rows[i] = rows[j] /\ i < j)

(* Mutant: the newest rows come first.                                     *)
FirstPageNewest(c) == {i \in Newer(c) : Cardinality({j \in Newer(c) : Earlier(i, j)}) < PageSize}

FirstPage(c) == {i \in Newer(c) : Cardinality({j \in Newer(c) : Earlier(j, i)}) < PageSize}

Answer(c) ==
    LET ids == FirstPage(c) IN
    [ids |-> ids,
     cursor |-> IF ids = {} THEN c ELSE Max({rows[i] : i \in ids}),
     hasMore |-> Cardinality(ids) >= PageSize]

Query(p) ==
    /\ stage[p] = "request"
    /\ SameSecond \/ SecondIsOver
    /\ page' = [page EXCEPT ![p] = Answer(running[p])]
    /\ stage' = [stage EXCEPT ![p] = "answer"]
    /\ UNCHANGED <<clock, rows, handler, saved, have, running, faults>>

-----------------------------------------------------------------------------
(* The device.                                                             *)
OnDevice == UNCHANGED <<clock, rows, handler>>

StartPull(p) ==
    /\ stage[p] = "idle"
    /\ running' = [running EXCEPT ![p] = saved]
    /\ stage' = [stage EXCEPT ![p] = "request"]
    /\ UNCHANGED <<saved, have, page, faults>> /\ OnDevice

(* Mutant: the loop asks for every page with the same cursor.              *)
MergeSameCursor(p) ==
    /\ stage[p] = "answer"
    /\ have' = have \cup page[p].ids
    /\ stage' = [stage EXCEPT ![p] = IF page[p].hasMore THEN "request" ELSE "save"]
    /\ page' = [page EXCEPT ![p] = NoPage]
    /\ UNCHANGED <<saved, running, faults>> /\ OnDevice

(* pullOnePage and the loop of syncPull.                                   *)
Merge(p) ==
    /\ stage[p] = "answer"
    /\ have' = have \cup page[p].ids
    /\ running' = [running EXCEPT ![p] = page[p].cursor]
    /\ stage' = [stage EXCEPT ![p] = IF page[p].hasMore THEN "request" ELSE "save"]
    /\ page' = [page EXCEPT ![p] = NoPage]
    /\ UNCHANGED <<saved, faults>> /\ OnDevice

(* updateSyncCursors, only after the last page.                            *)
Save(p) ==
    /\ stage[p] = "save"
    /\ saved' = running[p]
    /\ stage' = [stage EXCEPT ![p] = "idle"]
    /\ UNCHANGED <<have, running, page, faults>> /\ OnDevice

(* The attempts are spent, the device is blocked, or the page is closed.   *)
PullFails(p) ==
    /\ stage[p] # "idle" /\ faults < MaxFaults
    /\ stage' = [stage EXCEPT ![p] = "idle"]
    /\ page' = [page EXCEPT ![p] = NoPage]
    /\ faults' = faults + 1
    /\ UNCHANGED <<saved, have, running>> /\ OnDevice

PullNext ==
    \/ Tick
    \/ \E h \in Handlers : (\E n \in 1..MaxBatch : PushBegins(h, n)) \/ Insert(h)
    \/ \E p \in Pulls : StartPull(p) \/ Query(p) \/ Merge(p) \/ Save(p) \/ PullFails(p)

PullSpec == PullInit /\ [][PullNext]_pullVars

(* Timers start pulls for ever, the server answers, time passes.           *)
PullFairness ==
    /\ WF_pullVars(Tick)
    /\ \A h \in Handlers : WF_pullVars(Insert(h))
    /\ \A p \in Pulls :
          WF_pullVars(StartPull(p)) /\ SF_pullVars(Query(p)) /\ WF_pullVars(Merge(p)) /\ WF_pullVars(Save(p))

FairPullSpec == PullSpec /\ PullFairness

-----------------------------------------------------------------------------
(* Properties.                                                             *)

(* A row the saved cursor has passed will not be asked for again, so the   *)
(* device must have it: assumptions.md:123, every 30 seconds a pull        *)
(* catches the changes made on other devices (and the state is well        *)
(* typed).                                                                 *)
NothingBehindCursor ==
    /\ PullTypeOK
    /\ \A i \in Ids : rows[i] <= saved => i \in have

(* Every pushed row reaches the device (assumptions.md:123).               *)
EverythingArrives ==
    \A i \in 1..MaxRows : i \in Ids ~> i \in have
=============================================================================

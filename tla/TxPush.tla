------------------------------- MODULE TxPush -------------------------------
(***************************************************************************)
(* The push half of the synchronisation: every device sends what it wrote  *)
(* on a card to the server, which keeps the transaction log and a row with *)
(* the card's counter and balance.                                         *)
(*                                                                         *)
(* One card: every query of the server is restricted to one.  A            *)
(* transaction is known by its counter and the device that wrote it; the   *)
(* balance of a row is known by the transaction it was taken from.  A      *)
(* handler on the server awaits each of its SQL statements, so each        *)
(* statement is a step of its own and other requests run between.          *)
(*                                                                         *)
(* Bounds: MaxCounter writes of the card, MaxTasks requests that are being *)
(* handled at the same time, maxFaults lost requests or answers.           *)
(***************************************************************************)
EXTENDS Naturals, Sequences, FiniteSetsExt, SequencesExt

CONSTANTS
    Devices,
    Sites,       \* what may happen, see PushAssumption
    MaxCounter, MaxTasks,
    NoRow, NoTask, NoTx

Counters == 1..MaxCounter
Tasks    == 1..MaxTasks

ASSUME PushAssumption ==
    /\ {MaxCounter, MaxTasks} \subseteq Nat /\ Devices # {}
    /\ \A s \in Sites :
          /\ s.refused \subseteq Counters  \* transactions of a type the server does not know
          /\ s.registered \in BOOLEAN      \* is the card known everywhere from the beginning?
          /\ s.fork \in BOOLEAN            \* may a card write repeat a counter used elsewhere?
          /\ s.edit \in BOOLEAN            \* may an operator change the card's local record?
          /\ s.expire \in BOOLEAN          \* may a whole request be refused (expired token)?
          /\ s.dbErrors \in BOOLEAN        \* may an SQL statement fail?
          /\ s.clocksAhead \in BOOLEAN     \* may a card be issued later than the server last
                                           \* changed its row?
          /\ s.maxBatch \in Nat \ {0}      \* MAX_BATCH_SIZE, 500 in the code
          /\ s.maxFaults \in Nat           \* lost requests or answers
          /\ s.writes \in 0..MaxCounter     \* writes of the card

VARIABLES
    head,       \* counter on the physical card
    entries,    \* entries[d][n]: syncStatus of d's own transaction n
    record,     \* record[d]: d's row of the card: its syncStatus, counter and balance
    stage,      \* stage[d]: phase of d's sync cycle
    batch,      \* batch[d]: counters of the request in flight
    left,       \* left[d]: counters of the cycle's batches still to be sent
    sent,       \* sent[d]: the task whose answer d awaits, 0 for none
    tasks,      \* requests the server is handling
    serverLog,  \* transaction_log: by counter, its writer and the flag
    row,        \* cards: counter, and the transaction the balance is from
    faults,
    site        \* a member of Sites, never changed

device == <<entries, record, stage, batch, left, sent>>
server == <<tasks, serverLog, row>>
limits == <<faults, site>>
vars   == <<head, device, server, limits>>

Status == {"none", "pending", "synced", "conflict", "failed"}
Tx     == [counter: Nat, by: Devices]
Issued == [counter |-> 0, by |-> CHOOSE d \in Devices : TRUE]

EntityTask == [kind: {"entity"}, counter: Nat, tx: Tx, step: {"read", "write", "reply"}, known: Nat \cup {NoRow}]
PushTask   == [kind: {"push"}, by: Devices, rest: Seq(Counters),
               step: {"find", "row", "insert", "update", "reply"}, stale: BOOLEAN,
               stales: SUBSET Counters, errors: SUBSET Counters]

(* NoRow, NoTask and NoTx stand for the absence of these.                  *)
ASSUME NothingAssumption ==
    /\ NoRow \notin [counter: Nat, tx: Tx] /\ NoTask \notin EntityTask \cup PushTask
    /\ NoTx \notin [by: Devices, flagged: BOOLEAN]

TypeOK ==
    /\ head \in 0..MaxCounter
    /\ entries \in [Devices -> [Counters -> Status]]
    /\ record \in [Devices -> [sync: {"absent", "pending", "synced"}, counter: Nat, tx: Tx]]
    /\ stage \in [Devices -> {"idle", "entities", "transactions", "push"}]
    /\ batch \in [Devices -> Seq(Counters)] /\ left \in [Devices -> Seq(Counters)]
    /\ sent \in [Devices -> 0..MaxTasks]
    /\ \A t \in Tasks : tasks[t] \in EntityTask \cup PushTask \cup {NoTask}
    /\ serverLog \in [Counters -> [by: Devices, flagged: BOOLEAN] \cup {NoTx}]
    /\ row \in [counter: Nat, tx: Tx] \cup {NoRow}
    /\ site \in Sites /\ faults \in 0..site.maxFaults

Init ==
    /\ site \in Sites /\ head = 0 /\ faults = 0
    /\ entries = [d \in Devices |-> [n \in Counters |-> "none"]]
    /\ record = [d \in Devices |-> [sync |-> IF site.registered THEN "synced" ELSE "absent",
                                 counter |-> 0, tx |-> Issued]]
    /\ stage = [d \in Devices |-> "idle"]
    /\ batch = [d \in Devices |-> <<>>] /\ left = batch
    /\ sent = [d \in Devices |-> 0]
    /\ tasks = [t \in Tasks |-> NoTask]
    /\ serverLog = [n \in Counters |-> NoTx]
    /\ row = IF site.registered THEN [counter |-> 0, tx |-> Issued] ELSE NoRow

-----------------------------------------------------------------------------
(* Writes of the card.                                                     *)

(* recordTransaction and updateLocalCardRecord.                            *)
RecordWrite(d, n) ==
    /\ entries' = [entries EXCEPT ![d][n] = "pending"]
    /\ record' = [record EXCEPT ![d] =
          [sync |-> IF @.sync = "absent" THEN "pending" ELSE @.sync,
           counter |-> n, tx |-> [counter |-> n, by |-> d]]]
    /\ UNCHANGED <<stage, batch, left, sent, server, limits>>

Write(d) ==
    /\ head < site.writes
    /\ head' = head + 1
    /\ RecordWrite(d, head + 1)

(* A deferred write of d lands over a write made elsewhere in the meantime *)
(* with the same counter (see NfcWrite).                                   *)
Fork(d) ==
    /\ site.fork /\ head > 0 /\ entries[d][head] = "none"
    /\ RecordWrite(d, head)
    /\ UNCHANGED head

(* An operator edits the card's record on d.                               *)
Edit(d) ==
    /\ site.edit /\ record[d].sync = "synced"
    /\ record' = [record EXCEPT ![d].sync = "pending"]
    /\ UNCHANGED <<head, entries, stage, batch, left, sent, server, limits>>

-----------------------------------------------------------------------------
(* The sync cycle of a device: entities first, then transactions.          *)

NewTask(d, t, task) ==
    /\ tasks[t] = NoTask /\ \A e \in Devices \ {d} : sent[e] # t
    /\ tasks' = [tasks EXCEPT ![t] = task]

EntityRequest(d) ==
    [kind |-> "entity", counter |-> record[d].counter, tx |-> record[d].tx, step |-> "read",
     known |-> NoRow]
PushRequest(d, b) ==
    [kind |-> "push", by |-> d, rest |-> b, step |-> "find", stale |-> FALSE,
     stales |-> {}, errors |-> {}]

Proceed(d, st, t) == stage' = [stage EXCEPT ![d] = st] /\ sent' = [sent EXCEPT ![d] = t]

StartCycle(d) ==
    /\ stage[d] = "idle"
    /\ IF record[d].sync = "pending"
         THEN \E t \in Tasks : NewTask(d, t, EntityRequest(d)) /\ Proceed(d, "entities", t)
         ELSE Proceed(d, "transactions", 0) /\ UNCHANGED tasks
    /\ UNCHANGED <<head, entries, record, batch, left, serverLog, row, limits>>

(* The members of a set of counters, in their order.                       *)
InOrder(S) ==
    CHOOSE f \in [1..Cardinality(S) -> S] : \A i, j \in 1..Cardinality(S) : i < j => f[i] < f[j]

WithStatus(d, s) == InOrder({n \in Counters : entries[d][n] = s})

(* Mutant: conflicts are not sent again.                                   *)
SyncablePending(d) == WithStatus(d, "pending")

(* getSyncableEntries: conflicts are sent again, after the pending ones.   *)
Syncable(d) == WithStatus(d, "pending") \o WithStatus(d, "conflict")

(* batchEntries, one batch at a time: the first entries and the others.    *)
FirstBatch(todo) == SubSeq(todo, 1, Min({site.maxBatch, Len(todo)}))
Others(todo)     == SubSeq(todo, site.maxBatch + 1, Len(todo))

ReadOutbox(d) ==
    LET todo == Syncable(d) IN
    /\ stage[d] = "transactions"
    /\ IF todo = <<>>
         THEN Proceed(d, "idle", 0) /\ UNCHANGED tasks
         ELSE \E t \in Tasks : NewTask(d, t, PushRequest(d, FirstBatch(todo))) /\ Proceed(d, "push", t)
    /\ batch' = [batch EXCEPT ![d] = FirstBatch(todo)]
    /\ left' = [left EXCEPT ![d] = Others(todo)]
    /\ UNCHANGED <<head, entries, record, serverLog, row, limits>>

Answered(d) == sent[d] # 0 /\ tasks[sent[d]] # NoTask /\ tasks[sent[d]].step = "reply"
Take(d)     == tasks' = [tasks EXCEPT ![sent[d]] = NoTask]

CycleEnds(d) ==
    /\ Proceed(d, "idle", 0)
    /\ batch' = [batch EXCEPT ![d] = <<>>] /\ left' = [left EXCEPT ![d] = <<>>]

(* processAllBatches: when a batch is done with, the next one is sent.     *)
NextBatch(d) ==
    IF left[d] = <<>>
      THEN Take(d) /\ CycleEnds(d)
      ELSE /\ tasks' = [tasks EXCEPT ![sent[d]] = PushRequest(d, FirstBatch(left[d]))]
           /\ batch' = [batch EXCEPT ![d] = FirstBatch(left[d])]
           /\ left' = [left EXCEPT ![d] = Others(@)]
           /\ UNCHANGED <<stage, sent>>

(* The entries of a batch that is refused as a whole.                      *)
MarkFailed(d) ==
    entries' = [entries EXCEPT ![d] = [n \in Counters |-> IF n \in ToSet(batch[d]) THEN "failed" ELSE @[n]]]

EntityReply(d) ==
    /\ stage[d] = "entities" /\ Answered(d)
    /\ Take(d)
    /\ record' = [record EXCEPT ![d].sync = "synced"]
    /\ Proceed(d, "transactions", 0)
    /\ UNCHANGED <<head, entries, batch, left, serverLog, row, limits>>

(* processBatchResponse: entry by entry; the page may close after k.       *)
(* Mutant: the errors of the answer are ignored.                           *)
VerdictNoErrors(task, n) == IF n \in task.stales THEN "conflict" ELSE "synced"

Verdict(task, n) ==
    IF n \in task.stales THEN "conflict" ELSE IF n \in task.errors THEN "failed" ELSE "synced"

PushReply(d, k) ==
    LET task   == tasks[sent[d]]
        marked == {batch[d][i] : i \in 1..k} IN
    /\ stage[d] = "push" /\ Answered(d) /\ k \in 0..Len(batch[d])
    /\ entries' = [entries EXCEPT ![d] =
          [n \in Counters |-> IF n \in marked THEN Verdict(task, n) ELSE @[n]]]
    /\ IF k < Len(batch[d])
         THEN faults < site.maxFaults /\ faults' = faults + 1 /\ Take(d) /\ CycleEnds(d)
         ELSE UNCHANGED faults /\ NextBatch(d)
    /\ UNCHANGED <<head, record, serverLog, row, site>>

(* A 4xx answer, given before the handler runs: the whole batch fails and  *)
(* the next one is sent.                                                   *)
Untouched(d) ==
    /\ sent[d] # 0 /\ tasks[sent[d]] # NoTask
    /\ tasks[sent[d]].step = "find" /\ tasks[sent[d]].rest = batch[d]

PushRefused(d) ==
    /\ site.expire /\ stage[d] = "push" /\ Untouched(d)
    /\ MarkFailed(d) /\ NextBatch(d)
    /\ UNCHANGED <<head, record, serverLog, row, limits>>

(* A network error, a 429 or a 5xx: after its delay, which grows to a      *)
(* minute, the same request is sent as another one.                        *)
TryAgain(d, request) == \E t \in Tasks : NewTask(d, t, request) /\ Proceed(d, stage[d], t)

(* The request fails on its way: it is sent again, or its phase is given   *)
(* up when the attempts are spent or the page is closed.  The server may   *)
(* be handling the first one still.                                        *)
Abandon(d) ==
    /\ sent[d] # 0
    /\ tasks[sent[d]] = NoTask \/ faults < site.maxFaults
    /\ faults' = IF tasks[sent[d]] = NoTask THEN faults ELSE faults + 1
    /\ \/ /\ stage[d] = "entities"
          /\ \/ TryAgain(d, EntityRequest(d))
             \/ Proceed(d, "transactions", 0) /\ UNCHANGED tasks
          /\ UNCHANGED <<batch, left>>
       \/ /\ stage[d] = "push"
          /\ \/ TryAgain(d, PushRequest(d, batch[d])) /\ UNCHANGED <<batch, left>>
             \/ CycleEnds(d) /\ UNCHANGED tasks
    /\ UNCHANGED <<head, entries, record, serverLog, row, site>>

(* What a pull must not touch.                                              *)
GetPendingOutboxKeys(d) == {n \in Counters : entries[d][n] = "pending"}

(* mergePulledTransactions: a pulled transaction settles an own entry that *)
(* is not pending.                                                         *)
PullSettles(d, n) ==
    /\ serverLog[n] # NoTx /\ entries[d][n] \notin {"none", "synced"} /\ n \notin GetPendingOutboxKeys(d)
    /\ entries' = [entries EXCEPT ![d][n] = "synced"]
    /\ UNCHANGED <<head, record, stage, batch, left, sent, server, limits>>

(* mergePulledCards: the server's row replaces a record that is not        *)
(* pending, the newer one of a transaction still in the outbox too.        *)
PullRecord(d) ==
    /\ row # NoRow /\ record[d].sync # "pending"
    /\ record' = [record EXCEPT ![d] = [sync |-> "synced", counter |-> row.counter, tx |-> row.tx]]
    /\ UNCHANGED <<head, entries, stage, batch, left, sent, server, limits>>

-----------------------------------------------------------------------------
(* The server.                                                             *)

At(t, kind, step) == tasks[t] # NoTask /\ tasks[t].kind = kind /\ tasks[t].step = step
Goes(t, step) == tasks' = [tasks EXCEPT ![t].step = step]

ServerOnly == UNCHANGED <<head, device, limits>>

(* processCard of push-entities.ts: SELECT, then UPDATE or INSERT.         *)
EntityRead(t) ==
    /\ At(t, "entity", "read")
    /\ tasks' = [tasks EXCEPT ![t].step = "write",
                              ![t].known = IF row = NoRow THEN NoRow ELSE row.counter]
    /\ UNCHANGED <<serverLog, row>> /\ ServerOnly

(* Mutant: the counter is compared in the handler only, not in the SQL.    *)
EntityWriteBlind(t) ==
    LET n == tasks[t].counter  known == tasks[t].known IN
    /\ At(t, "entity", "write")
    /\ row' = IF known = NoRow
                THEN IF row = NoRow THEN [counter |-> n, tx |-> tasks[t].tx] ELSE row
                ELSE IF n >= known THEN [counter |-> n, tx |-> tasks[t].tx] ELSE row
    /\ Goes(t, "reply")
    /\ UNCHANGED serverLog /\ ServerOnly

EntityWrite(t) ==
    LET n == tasks[t].counter  known == tasks[t].known IN
    /\ At(t, "entity", "write")
    /\ \E newer \in {FALSE, site.clocksAhead} :
          row' = IF known = NoRow
                   THEN IF row = NoRow THEN [counter |-> n, tx |-> tasks[t].tx] ELSE row
                   ELSE IF n >= known \/ newer
                          THEN [counter |-> Max({n, row.counter}), tx |-> tasks[t].tx]
                          ELSE row
    /\ Goes(t, "reply")
    /\ UNCHANGED serverLog /\ ServerOnly

(* processTransaction of sync.ts, for the first transaction left.          *)
Current(t) == Head(tasks[t].rest)

Finish(t, stales, errors) ==
    LET rest == Tail(tasks[t].rest) IN
    tasks' = [tasks EXCEPT ![t].rest = rest, ![t].stale = FALSE,
                           ![t].step = IF rest = <<>> THEN "reply" ELSE "find",
                           ![t].stales = @ \cup stales, ![t].errors = @ \cup errors]

(* validateTransaction, then the lookup of the idempotency key.            *)
PushFind(t) ==
    LET n == Current(t) IN
    /\ At(t, "push", "find")
    /\ IF n \in site.refused THEN Finish(t, {}, {n})
       ELSE IF serverLog[n] # NoTx THEN Finish(t, {}, {})
       ELSE Goes(t, "row")
    /\ UNCHANGED <<serverLog, row>> /\ ServerOnly

PushRow(t) ==
    /\ At(t, "push", "row")
    /\ tasks' = [tasks EXCEPT ![t].step = "insert",
                              ![t].stale = row # NoRow /\ Current(t) <= row.counter]
    /\ UNCHANGED <<serverLog, row>> /\ ServerOnly

(* The unique key turns a second insertion into an acceptance.             *)
PushInsert(t) ==
    LET n == Current(t) IN
    /\ At(t, "push", "insert")
    /\ IF serverLog[n] # NoTx
         THEN Finish(t, {}, {}) /\ UNCHANGED serverLog
         ELSE /\ serverLog' = [serverLog EXCEPT ![n] = [by |-> tasks[t].by, flagged |-> tasks[t].stale]]
              /\ IF tasks[t].stale THEN Finish(t, {n}, {}) ELSE Goes(t, "update")
    /\ UNCHANGED row /\ ServerOnly

PushUpdate(t) ==
    LET n == Current(t) IN
    /\ At(t, "push", "update")
    /\ row' = IF row # NoRow /\ row.counter < n
                THEN [counter |-> n, tx |-> [counter |-> n, by |-> tasks[t].by]]
                ELSE row
    /\ Finish(t, {}, {})
    /\ UNCHANGED serverLog /\ ServerOnly

(* An SQL statement fails: the transaction is answered with internal_error *)
(* and the next one is handled.                                            *)
StatementFails(t) ==
    /\ site.dbErrors /\ tasks[t] # NoTask /\ tasks[t].kind = "push" /\ tasks[t].step # "reply"
    /\ Finish(t, {}, {Current(t)})
    /\ UNCHANGED <<serverLog, row>> /\ ServerOnly

(* The handler ends without an answer, at any of its steps; or nobody is   *)
(* waiting for the answer any more.                                        *)
TaskEnds(t) ==
    /\ tasks[t] # NoTask
    /\ LET orphaned == tasks[t].step = "reply" /\ \A d \in Devices : sent[d] # t IN
          /\ orphaned \/ faults < site.maxFaults
          /\ faults' = IF orphaned THEN faults ELSE faults + 1
    /\ tasks' = [tasks EXCEPT ![t] = NoTask]
    /\ UNCHANGED <<head, device, serverLog, row, site>>

ServerStep(t) ==
    \/ EntityRead(t) \/ EntityWrite(t)
    \/ PushFind(t) \/ PushRow(t) \/ PushInsert(t) \/ PushUpdate(t)

Replies(d) == EntityReply(d) \/ \E k \in 0..MaxCounter : PushReply(d, k)

Next ==
    \/ \E d \in Devices :
          \/ Write(d) \/ Fork(d) \/ Edit(d)
          \/ StartCycle(d) \/ ReadOutbox(d) \/ Replies(d)
          \/ PushRefused(d) \/ Abandon(d) \/ PullRecord(d)
          \/ \E n \in Counters : PullSettles(d, n)
    \/ \E t \in Tasks : ServerStep(t) \/ StatementFails(t) \/ TaskEnds(t)

Spec == Init /\ [][Next]_vars

(* The periodic timer starts cycles for ever, a request that reached the   *)
(* server is handled, answers arrive, a dead request is noticed; what is   *)
(* bounded is the number of faults.                                        *)
Fairness ==
    /\ \A d \in Devices :
          /\ SF_vars(StartCycle(d)) /\ SF_vars(ReadOutbox(d))
          /\ WF_vars(Replies(d))
          /\ WF_vars(Abandon(d) /\ tasks[sent[d]] = NoTask)
    /\ \A t \in Tasks :
          /\ WF_vars(ServerStep(t))
          /\ WF_vars(TaskEnds(t) /\ faults' = faults)

FairSpec == Spec /\ Fairness

-----------------------------------------------------------------------------
(* Properties.                                                             *)

Stored(d, n) == serverLog[n] # NoTx /\ serverLog[n].by = d

(* What a device shows as synced, or as a conflict the server knows of, is *)
(* this very transaction in the server's log, after any lost request, lost *)
(* answer, repeated request or error, unless a card write repeated the     *)
(* counter.                                                                *)
AnsweredIsStored ==
    site.fork \/ \A d \in Devices, n \in Counters : entries[d][n] \in {"synced", "conflict"} => Stored(d, n)

(* A transaction is flagged only if the card's row was at its counter or   *)
(* beyond: racing requests never flag the newest one by mistake.           *)
FlaggedIsSuperseded ==
    \A n \in Counters : serverLog[n] # NoTx /\ serverLog[n].flagged => row # NoRow /\ row.counter >= n

(* What a device is told of a transaction, and what the server notes of    *)
(* it, is true (and the state is well typed).                              *)
VerdictsAreTrue == TypeOK /\ AnsweredIsStored /\ FlaggedIsSuperseded

(* The server's counter of a card never falls, whatever the order in which *)
(* requests that read it before are carried out.                           *)
CounterNeverFalls == [][row # NoRow => row' # NoRow /\ row'.counter >= row.counter]_row

(* Every transaction is settled in the end, conflicts included: the card   *)
(* is written MaxCounter times, and after the last time a moment comes at  *)
(* which no device has anything left to send or to send again.             *)
EverythingSettles ==
    site.fork \/ []<>(\A d \in Devices, n \in Counters :
                        entries[d][n] \notin {"pending", "conflict"})

-----------------------------------------------------------------------------
(* Property 6 of tenant-management-enhanced (design.md:695): the balance   *)
(* of the row is the one of the transaction with the highest counter, once *)
(* the server has accepted it and while no request is being handled.       *)
Accepted == {n \in Counters : \E d \in Devices : entries[d][n] = "synced"}
BalanceFollowsLog ==
    (\A t \in Tasks : tasks[t] = NoTask) /\ Accepted # {} /\ row # NoRow =>
        row.counter >= Max(Accepted) /\ row.tx.counter >= Max(Accepted)
=============================================================================

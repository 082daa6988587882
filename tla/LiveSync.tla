------------------------------ MODULE LiveSync ------------------------------
(***************************************************************************)
(* realTimeSync and its hook: how a device hears that the status of a card *)
(* has changed.  A pull on log-in, then a stream of events; while there is *)
(* no stream, a pull every 30 seconds; a pull when the stream opens.  An   *)
(* event is written to the local row in two steps, and once more if that   *)
(* fails.  The events of the device itself are ignored and left out.       *)
(*                                                                         *)
(* The status is a number that goes up with every change at the server: 0  *)
(* before the card is registered, which is no event, 1 after that.  A      *)
(* pull finds the status at some moment between its request and its answer,*)
(* if it has changed since the cursor.  The stream itself and the server   *)
(* that feeds it are external: no route of the server opens one.           *)
(*                                                                         *)
(* Bounds: MaxChanges statuses, two pulls and two writes at a time (Slots),*)
(* one periodic pull among them, and `luck', the failures left and the     *)
(* times the hook is switched off.                                         *)
(***************************************************************************)
EXTENDS Naturals, Sequences

CONSTANTS Slots, MaxChanges, MaxAttempts, Lucks, Nothing

VARIABLES
    server,              \* the status of the card at the server
    engine,              \* the device also has the pulls of useSyncEngine
    hook,                \* useRealTimeSync: off, login, on, failed
    source,              \* the event source: none, connecting, open
    attempts, reconnect, \* _reconnectAttempts, and its timer
    periodic,            \* the timer of the fallback pull
    stream,              \* what the server has sent and the device not read
    pulls, writes,       \* what is under way
    row, cursor,         \* the local row of the card, the cursor of cards
    undone,              \* an older status was put over a newer one, or what was missed not looked up
    luck

liveVars == <<server, engine, hook, source, attempts, reconnect, periodic, stream, pulls, writes, row, cursor,
              undone, luck>>
link     == <<source, attempts, reconnect, periodic, stream>>
data     == <<row, cursor, undone>>

LiveBounds ==
    /\ Slots \subseteq Nat /\ Slots # {} /\ MaxChanges \in Nat \ {0} /\ MaxAttempts \in Nat
    /\ Lucks \subseteq [faults : Nat, offs : Nat]

Statuses == 0..MaxChanges

LiveTypeOK ==
    /\ server \in Statuses /\ engine \in BOOLEAN
    /\ hook \in {"off", "login", "on", "failed"} /\ source \in {"none", "connecting", "open"}
    /\ attempts \in 0..MaxAttempts /\ {reconnect, periodic, undone} \subseteq BOOLEAN
    /\ stream \in Seq(Statuses)
    /\ pulls \in [Slots -> {Nothing} \cup [why : {"login", "catch-up", "periodic", "stray"},
                                          cursor : Statuses, after : Statuses]]
    /\ writes \in [Slots -> {Nothing} \cup [status : Statuses, at : {"get", "put"}, found : BOOLEAN,
                                           again : BOOLEAN]]
    /\ row \in {Nothing} \cup [status : Statuses, whole : BOOLEAN] /\ cursor \in Statuses

Init ==
    /\ server = 0 /\ engine \in BOOLEAN /\ luck \in Lucks
    /\ hook = "off" /\ source = "none" /\ attempts = 0 /\ reconnect = FALSE /\ periodic = FALSE
    /\ stream = <<>> /\ pulls = [s \in Slots |-> Nothing] /\ writes = [s \in Slots |-> Nothing]
    /\ row = Nothing /\ cursor = 0 /\ undone = FALSE

Unlucky(what) == luck[what] > 0 /\ luck' = [luck EXCEPT ![what] = @ - 1]

(* The first free slot.                                                    *)
Free(f) == {s \in Slots : f[s] = Nothing /\ \A x \in Slots : f[x] = Nothing => s <= x}

-----------------------------------------------------------------------------
(* Pulls.                                                                  *)
Asks(why) == [why |-> why, cursor |-> cursor, after |-> server]

StartPull(why) == \E s \in Free(pulls) : pulls' = [pulls EXCEPT ![s] = Asks(why)]

(* What is left of the pulls when the hook is switched off: they go on.    *)
Strayed == [s \in Slots |-> IF pulls[s] = Nothing THEN Nothing ELSE [pulls[s] EXCEPT !.why = "stray"]]

(* An older status is put over a newer one.                                *)
Older(status) == row # Nothing /\ status < row.status

(* The rows that have changed since its cursor are merged, and the cursor  *)
(* is saved.  What was wrong is right again with the newest status.        *)
Merge(p, status) ==
    IF status > p.cursor
      THEN /\ row' = [status |-> status, whole |-> TRUE] /\ cursor' = status
           /\ undone' = (status # server /\ (undone \/ Older(status)))
      ELSE cursor' = p.cursor /\ UNCHANGED <<row, undone>>

-----------------------------------------------------------------------------
(* The connection.                                                         *)
Disconnected ==
    source' = "none" /\ attempts' = 0 /\ reconnect' = FALSE /\ periodic' = FALSE /\ stream' = <<>>

(* Mutant: the fallback pull is left running.                              *)
DisconnectedButPulling ==
    source' = "none" /\ attempts' = 0 /\ reconnect' = FALSE /\ stream' = <<>> /\ UNCHANGED periodic

(* disconnect.                                                             *)
Disconnect == Disconnected

(* connect, and establishSseConnection.                                    *)
Connect ==
    /\ source' = "connecting" /\ attempts' = 0 /\ reconnect' = FALSE /\ periodic' = FALSE
    /\ stream' = <<>>

(* Mutant: the stream opens without a pull.                                *)
OpensQuietly ==
    /\ source = "connecting" /\ source' = "open"
    /\ attempts' = 0 /\ periodic' = FALSE
    /\ UNCHANGED <<server, engine, hook, reconnect, stream, pulls, writes, data, luck>>

(* onopen: the fallback pull stops, a pull catches up.                     *)
Opens ==
    /\ source = "connecting" /\ source' = "open"
    /\ attempts' = 0 /\ periodic' = FALSE
    /\ StartPull("catch-up")
    /\ UNCHANGED <<server, engine, hook, reconnect, stream, writes, data, luck>>

(* onerror, or the constructor throws: the fallback pull starts, and the   *)
(* reconnection is scheduled unless the attempts are used up.              *)
Breaks ==
    /\ source # "none" /\ source' = "none" /\ Unlucky("faults")
    /\ stream' = <<>> /\ periodic' = TRUE
    /\ IF attempts < MaxAttempts
         THEN attempts' = attempts + 1 /\ reconnect' = TRUE
         ELSE reconnect' = FALSE /\ UNCHANGED attempts
    /\ UNCHANGED <<server, engine, hook, pulls, writes, data>>

Reconnects ==
    /\ reconnect /\ reconnect' = FALSE
    /\ source' = "connecting"
    /\ UNCHANGED <<server, engine, hook, attempts, periodic, stream, pulls, writes, data, luck>>

-----------------------------------------------------------------------------
(* The hook: its effect runs when it is enabled, its clean-up when not.    *)
Enable ==
    /\ hook = "off" /\ hook' = "login"
    /\ StartPull("login")
    /\ UNCHANGED <<server, engine, link, writes, data, luck>>

Disable ==
    /\ hook # "off" /\ hook' = "off" /\ Unlucky("offs")
    /\ pulls' = Strayed
    /\ IF hook = "on" THEN Disconnect ELSE UNCHANGED link
    /\ UNCHANGED <<server, engine, writes, data>>

(* The timer of the fallback, and the pulls of the engine.                 *)
Tick ==
    /\ periodic \/ (engine /\ hook = "on")
    /\ \A s \in Slots : pulls[s] # Nothing => pulls[s].why # "periodic"
    /\ StartPull("periodic")
    /\ UNCHANGED <<server, engine, hook, link, writes, data, luck>>

Pulled(s) ==
    /\ pulls[s] # Nothing
    /\ pulls' = [pulls EXCEPT ![s] = Nothing]
    /\ \E status \in pulls[s].after..server : Merge(pulls[s], status)
    /\ IF pulls[s].why = "login" THEN hook' = "on" /\ Connect ELSE UNCHANGED <<hook, link>>
    /\ UNCHANGED <<server, engine, writes, luck>>

PullFails(s) ==
    /\ pulls[s] # Nothing /\ Unlucky("faults")
    /\ pulls' = [pulls EXCEPT ![s] = Nothing]
    /\ hook' = IF pulls[s].why = "login" THEN "failed" ELSE hook
    /\ undone' = (undone \/ (pulls[s].why = "catch-up" /\ ~engine))
    /\ UNCHANGED <<server, engine, link, writes, row, cursor>>

-----------------------------------------------------------------------------
(* The server registers the card; or it changes the card's status and      *)
(* records the event.                                                      *)
Change ==
    /\ server < MaxChanges /\ server' = server + 1
    /\ stream' = IF source = "open" /\ server > 0 THEN Append(stream, server') ELSE stream
    /\ UNCHANGED <<engine, hook, source, attempts, reconnect, periodic, pulls, writes, data, luck>>

(* handleSseMessage.                                                       *)
Hear ==
    /\ stream # <<>> /\ stream' = Tail(stream)
    /\ \E s \in Free(writes) :
          writes' = [writes EXCEPT ![s] = [status |-> Head(stream), at |-> "get", found |-> FALSE, again |-> FALSE]]
    /\ UNCHANGED <<server, engine, hook, source, attempts, reconnect, periodic, pulls, data, luck>>

LooksUp(s) ==
    /\ writes[s] # Nothing /\ writes[s].at = "get"
    /\ writes' = [writes EXCEPT ![s].at = "put", ![s].found = (row # Nothing)]
    /\ UNCHANGED <<server, engine, hook, link, pulls, data, luck>>

(* The status of the row is updated; a card without a row gets a minimal   *)
(* one.                                                                    *)
Writes(s) ==
    /\ writes[s] # Nothing /\ writes[s].at = "put"
    /\ writes' = [writes EXCEPT ![s] = Nothing]
    /\ row' = [status |-> writes[s].status, whole |-> writes[s].found /\ row.whole]
    /\ undone' = (writes[s].status # server /\ (undone \/ Older(writes[s].status)))
    /\ UNCHANGED <<server, engine, hook, link, pulls, cursor, luck>>

(* A failed write is tried once more; then the card is marked for a resync *)
(* that nothing starts.                                                    *)
WriteFails(s) ==
    /\ writes[s] # Nothing /\ Unlucky("faults")
    /\ writes' = [writes EXCEPT ![s] = IF @.again THEN Nothing ELSE [@ EXCEPT !.at = "get", !.again = TRUE]]
    /\ undone' = (undone \/ (writes[s].again /\ ~engine))
    /\ UNCHANGED <<server, engine, hook, link, pulls, row, cursor>>

SlotSteps(s) == Pulled(s) \/ LooksUp(s) \/ Writes(s)

Next ==
    \/ Enable \/ Disable \/ Opens \/ Breaks \/ Reconnects \/ Tick \/ Change \/ Hear
    \/ \E s \in Slots : SlotSteps(s) \/ PullFails(s) \/ WriteFails(s)

(* The browser opens a source or reports an error, timers fire, requests   *)
(* and transactions end.                                                   *)
Fairness ==
    /\ WF_liveVars(Opens) /\ WF_liveVars(Reconnects) /\ WF_liveVars(Tick) /\ WF_liveVars(Hear)
    /\ \A s \in Slots : WF_liveVars(Pulled(s)) /\ WF_liveVars(LooksUp(s)) /\ WF_liveVars(Writes(s))

-----------------------------------------------------------------------------
(* Properties.                                                             *)

(* As long as the hook is on, and only as long, the device has a stream    *)
(* (or is about to get one) or the fallback pull, and never both once the  *)
(* stream is open (and the state is well typed).                           *)
AlwaysListening ==
    /\ LiveTypeOK
    /\ hook = "on" => source # "none" \/ periodic
    /\ hook # "on" => source = "none" /\ ~periodic /\ ~reconnect
    /\ source = "open" => ~periodic
    /\ reconnect => source = "none"

(* A device that listens has the newest status in the end: by an event, by *)
(* the pull that catches up, or by the fallback.                           *)
Behind == hook = "on" /\ server > 1 /\ (row # Nothing => row.status # server)

StatusArrives == Behind ~> (~Behind \/ undone)

(* The comment at realTimeSync.ts:283, "catch-up pull failure will be      *)
(* retried on next periodic pull": the periodic pull has just been stopped.*)
CatchUpIsRetried == Behind ~> ~Behind

(* "create a minimal record" (realTimeSync.ts:143) for a card that is not  *)
(* in the local cache: a row once whole stays whole.                       *)
RowsStayWhole == [][row # Nothing /\ row.whole => row'.whole]_liveVars
=============================================================================

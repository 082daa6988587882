----------------------------- MODULE SyncEngine -----------------------------
(***************************************************************************)
(* The scheduler of the synchronisation, useSyncEngine, in the provider    *)
(* that mounts it with a tenant's pages: timers and events that start      *)
(* cycles, the flags isSyncing and queuedSync, the retry timer.  What a    *)
(* cycle does to the data is the subject of TxPush and PullCursor.         *)
(*                                                                         *)
(* A callback runs up to its first await without interruption; a cycle     *)
(* goes on at each await: entities pushed, transactions pushed, pulled,    *)
(* pending count refreshed.  A cycle outlives the pages that started it;   *)
(* pages entered again have flags and timers of their own.                 *)
(*                                                                         *)
(* Bounds: Cycles cycles that run at the same time; Days, the numbers of   *)
(* mutations, of failed cycles and lost connections, of requests and of    *)
(* times the pages are left; these bound the number of timers too.         *)
(***************************************************************************)
EXTENDS Naturals, FiniteSets

CONSTANTS Cycles, MaxErrorRetries, Days

ASSUME EngineBounds ==
    /\ Cycles # {} /\ MaxErrorRetries \in Nat \ {0}
    /\ Days \subseteq [mutations : Nat, faults : Nat, requests : Nat, leaves : Nat]

VARIABLES
    use,         \* the provider: not mounted, mounted, enabled
    mine,        \* the cycles that the mounted provider has started
    at,          \* at[c]: where cycle c is
    took,        \* took[c]: c has read the newest mutation from the outbox
    dirty,       \* the outbox holds a mutation that no push has delivered
    isSyncing, queuedSync,
    errors,      \* errorRetryCount
    debounce,    \* the debounce timer, by what its callback does
    retryTimers, \* retry timers set and not cleared; the ref knows the last one
    retryRef,    \* retryTimerRef is a pending timer
    queueTimers, \* the 100 ms timers of queued cycles
    initial,     \* the 500 ms timer of the mount
    online, status,
    left         \* what is left of the day

timers == <<debounce, retryTimers, retryRef, queueTimers, initial>>
cycle  == <<mine, at, isSyncing, queuedSync, status>>
vars   == <<use, dirty, took, errors, timers, cycle, online, left>>

Running == {c \in Cycles : at[c] \in {"entities", "push", "pull"}}

TypeOK ==
    /\ use \in {"away", "mounted", "enabled"} /\ mine \subseteq Cycles
    /\ at \in [Cycles -> {"off", "entities", "push", "pull", "refresh"}]
    /\ took \in [Cycles -> BOOLEAN]
    /\ {dirty, isSyncing, queuedSync, retryRef, initial, online} \subseteq BOOLEAN
    /\ {errors, retryTimers, queueTimers} \subseteq Nat /\ (retryRef => retryTimers > 0)
    /\ debounce \in {"off", "run", "queue"}
    /\ status \in {"idle", "pushing", "pulling", "error", "offline"}
    /\ left \in [mutations : Nat, faults : Nat, requests : Nat, leaves : Nat]

(* What the refs and the state of the hook begin with.                     *)
Init ==
    /\ use = "mounted" /\ mine = {}
    /\ debounce = "off" /\ retryTimers = 0 /\ retryRef = FALSE /\ queueTimers = 0 /\ initial = FALSE
    /\ isSyncing = FALSE /\ queuedSync = FALSE /\ errors = 0 /\ status = "idle"
    /\ at = [c \in Cycles |-> "off"] /\ took = [c \in Cycles |-> FALSE]
    /\ dirty \in BOOLEAN /\ online \in BOOLEAN
    /\ left \in Days

Spend(what) == left[what] > 0 /\ left' = [left EXCEPT ![what] = @ - 1]

-----------------------------------------------------------------------------
(* The provider.                                                           *)

(* The tenant's context is found: the effects of the hook run.  Listeners  *)
(* and the periodic timer are there as long as it is enabled.              *)
Authenticate ==
    /\ use = "mounted" /\ use' = "enabled"
    /\ initial' = TRUE
    /\ status' = IF online THEN status ELSE "offline"
    /\ UNCHANGED <<dirty, errors, debounce, retryTimers, retryRef, queueTimers, mine, at, took, isSyncing,
                   queuedSync, online, left>>

(* The tenant's pages are left.  Timers that are not cleared find the hook *)
(* unmounted and do nothing; a running cycle goes on.                      *)
Leave ==
    /\ use # "away" /\ use' = "away"
    /\ Spend("leaves")
    /\ debounce' = "off" /\ retryTimers' = 0 /\ retryRef' = FALSE /\ queueTimers' = 0 /\ initial' = FALSE
    /\ mine' = {} /\ isSyncing' = FALSE /\ queuedSync' = FALSE /\ errors' = 0 /\ status' = "idle"
    /\ UNCHANGED <<dirty, at, took, online>>

Enter ==
    /\ use = "away" /\ use' = "mounted"
    /\ UNCHANGED <<dirty, took, errors, timers, cycle, online, left>>

-----------------------------------------------------------------------------
(* executeSyncCycle up to its first await.  It sets isSyncing but does not *)
(* look at it.                                                             *)
Begin ==
    \E c \in Cycles :
       /\ at[c] = "off"
       /\ at' = [at EXCEPT ![c] = "entities"]
       /\ mine' = mine \cup {c}
       /\ isSyncing' = TRUE /\ queuedSync' = FALSE
       /\ status' = "pushing"

ExecuteSyncCycle ==
    IF online THEN Begin
              ELSE status' = "offline" /\ UNCHANGED <<mine, at, isSyncing, queuedSync>>

ClearRetry == retryTimers' = (IF retryRef THEN retryTimers - 1 ELSE retryTimers) /\ retryRef' = FALSE

RequestSync ==
    /\ debounce' = "off" /\ ClearRetry /\ errors' = 0
    /\ IF isSyncing
         THEN queuedSync' = TRUE /\ UNCHANGED <<mine, at, isSyncing, status>>
         ELSE ExecuteSyncCycle
    /\ UNCHANGED <<queueTimers, initial>>

(* triggerSync, and the page becoming visible.                             *)
Trigger ==
    /\ use = "enabled" /\ Spend("requests")
    /\ RequestSync
    /\ UNCHANGED <<use, dirty, took, online>>

(* notifyMutation: a transaction was written to the outbox.                *)
NotifyMutation ==
    /\ use # "away" /\ Spend("mutations")
    /\ dirty' = TRUE
    /\ took' = [c \in Cycles |-> FALSE]
    /\ debounce' = IF use = "mounted" THEN debounce ELSE IF isSyncing THEN "queue" ELSE "run"
    /\ UNCHANGED <<use, mine, at, isSyncing, queuedSync, errors, retryTimers, retryRef, queueTimers,
                   initial, online, status>>

(* A check-in notifies the peer coordinator too, which asks for a sync at  *)
(* once if the provider has registered: the debounce timer is cleared.     *)
Checkin ==
    /\ use = "enabled" /\ Spend("mutations")
    /\ dirty' = TRUE
    /\ took' = [c \in Cycles |-> FALSE]
    /\ RequestSync
    /\ UNCHANGED <<use, online>>

(* handleOffline, if it listens.                                           *)
GoOffline ==
    /\ online /\ online' = FALSE /\ Spend("faults")
    /\ IF use = "enabled"
         THEN status' = "offline" /\ debounce' = "off" /\ ClearRetry
         ELSE UNCHANGED <<status, debounce, retryTimers, retryRef>>
    /\ UNCHANGED <<use, mine, at, took, dirty, isSyncing, queuedSync, errors, queueTimers, initial>>

(* handleOnline clears the status and requests a sync.                     *)
GoOnline ==
    /\ ~online /\ online' = TRUE
    /\ IF use # "enabled"
         THEN UNCHANGED <<cycle, errors, timers>>
         ELSE /\ debounce' = "off" /\ ClearRetry /\ errors' = 0
              /\ IF isSyncing
                   THEN queuedSync' = TRUE /\ status' = "idle" /\ UNCHANGED <<mine, at, took, isSyncing>>
                   ELSE Begin
              /\ UNCHANGED <<queueTimers, initial>>
    /\ UNCHANGED <<use, dirty, took, left>>

-----------------------------------------------------------------------------
(* Timers.                                                                 *)
DebounceFires ==
    /\ debounce # "off" /\ debounce' = "off"
    /\ IF debounce = "run"
         THEN ExecuteSyncCycle
         ELSE queuedSync' = TRUE /\ UNCHANGED <<mine, at, isSyncing, status>>
    /\ UNCHANGED <<use, dirty, took, errors, retryTimers, retryRef, queueTimers, initial, online, left>>

(* The ref is not reset when its timer fires: a later clearTimeout of a    *)
(* timer that has fired does nothing.                                      *)
RetryFires ==
    /\ retryTimers > 0 /\ retryTimers' = retryTimers - 1
    /\ retryRef' \in (IF retryTimers = 1 THEN {FALSE} ELSE {retryRef, FALSE})
    /\ ExecuteSyncCycle
    /\ UNCHANGED <<use, dirty, took, errors, debounce, queueTimers, initial, online, left>>

QueueTimerFires ==
    /\ queueTimers > 0 /\ queueTimers' = queueTimers - 1
    /\ ExecuteSyncCycle
    /\ UNCHANGED <<use, dirty, took, errors, debounce, retryTimers, retryRef, initial, online, left>>

InitialTimerFires ==
    /\ initial /\ initial' = FALSE
    /\ IF online THEN Begin ELSE UNCHANGED cycle
    /\ UNCHANGED <<use, dirty, took, errors, debounce, retryTimers, retryRef, queueTimers, online, left>>

PeriodicTick ==
    /\ use = "enabled" /\ ~isSyncing /\ online
    /\ Begin
    /\ UNCHANGED <<use, dirty, took, errors, timers, online, left>>

-----------------------------------------------------------------------------
(* A running cycle.  A request may be answered although the device has     *)
(* gone offline since; one that is not answered fails.  A cycle of pages   *)
(* that were left has no flag and no timer to change.                      *)
Moves(c, from, to) == at[c] = from /\ at' = [at EXCEPT ![c] = to]
Shows(c, s)        == status' = IF c \in mine THEN s ELSE status

(* Entities are pushed, with or without success, and the outbox is read.   *)
EntitiesDone(c) ==
    /\ Moves(c, "entities", "push")
    /\ took' = [took EXCEPT ![c] = dirty]
    /\ UNCHANGED <<use, mine, dirty, isSyncing, queuedSync, errors, timers, online, status, left>>

PushDone(c) ==
    /\ Moves(c, "push", "pull")
    /\ dirty' = (dirty /\ ~took[c])
    /\ took' = [took EXCEPT ![c] = FALSE]
    /\ Shows(c, "pulling")
    /\ UNCHANGED <<use, mine, isSyncing, queuedSync, errors, timers, online, left>>

PullDone(c) ==
    /\ Moves(c, "pull", "refresh")
    /\ Shows(c, "idle")
    /\ errors' = (IF c \in mine THEN 0 ELSE errors)
    /\ isSyncing' = (isSyncing /\ c \notin mine)
    /\ UNCHANGED <<use, mine, took, dirty, queuedSync, timers, online, left>>

Fails(c) ==
    /\ at[c] \in {"push", "pull"}
    /\ at' = [at EXCEPT ![c] = "refresh"]
    /\ took' = [took EXCEPT ![c] = FALSE]
    /\ IF online THEN Spend("faults") ELSE UNCHANGED left
    /\ Shows(c, "error")
    /\ errors' = (IF c \in mine THEN errors + 1 ELSE errors)
    /\ UNCHANGED <<use, mine, dirty, queuedSync, debounce, queueTimers, initial, online>>

(* Mutant: a failed cycle leaves isSyncing set.                            *)
CycleFailsKeepsFlag(c) == Fails(c) /\ UNCHANGED <<isSyncing, retryTimers, retryRef>>

(* handleSyncError, and the finally block up to its await.                 *)
CycleFails(c) ==
    /\ Fails(c)
    /\ isSyncing' = (isSyncing /\ c \notin mine)
    /\ IF c \in mine /\ errors + 1 < MaxErrorRetries
         THEN retryTimers' = retryTimers + 1 /\ retryRef' = TRUE
         ELSE UNCHANGED <<retryTimers, retryRef>>

(* The rest of the finally block, after refreshPendingCount.               *)
Refreshed(c) ==
    /\ Moves(c, "refresh", "off")
    /\ mine' = mine \ {c}
    /\ IF queuedSync /\ c \in mine
         THEN queueTimers' = queueTimers + 1 /\ queuedSync' = FALSE
         ELSE UNCHANGED <<queueTimers, queuedSync>>
    /\ UNCHANGED <<use, took, dirty, isSyncing, errors, debounce, retryTimers, retryRef, initial,
                   online, status, left>>

CycleSteps(c) == EntitiesDone(c) \/ PushDone(c) \/ PullDone(c) \/ CycleFails(c) \/ Refreshed(c)

Next ==
    \/ Authenticate \/ Leave \/ Enter
    \/ Trigger \/ NotifyMutation \/ Checkin \/ GoOffline \/ GoOnline
    \/ DebounceFires \/ RetryFires \/ QueueTimerFires \/ InitialTimerFires \/ PeriodicTick
    \/ \E c \in Cycles : CycleSteps(c)

(* Timers fire, requests end, the device comes back online in the end; the *)
(* number of failures is bounded.                                          *)
Fairness ==
    /\ WF_vars(GoOnline) /\ WF_vars(DebounceFires) /\ WF_vars(RetryFires)
    /\ WF_vars(QueueTimerFires) /\ WF_vars(InitialTimerFires) /\ SF_vars(PeriodicTick)
    /\ \A c \in Cycles : WF_vars(CycleSteps(c))

Spec == Init /\ [][Next]_vars /\ Fairness

-----------------------------------------------------------------------------
(* Properties.                                                             *)

(* Overlapping cycles clear isSyncing for each other, but never leave it   *)
(* set behind: events cannot be queued for ever and the periodic pull      *)
(* cannot be locked out, not even by cycles of pages left in between (and  *)
(* the state is well typed).                                               *)
FlagIsNotStuck ==
    /\ TypeOK
    /\ isSyncing => Running \cap mine # {}

(* Whatever is in the outbox is pushed in the end, unless the pages are    *)
(* left: in whichever phase of however many cycles it was written, and     *)
(* whichever timers the mutation or a later request has cleared.  And a    *)
(* queued request is served by a cycle that begins after it.               *)
NothingIsForgotten ==
    /\ (dirty /\ use = "enabled") ~> (~dirty \/ use # "enabled")
    /\ queuedSync ~> ~queuedSync
=============================================================================

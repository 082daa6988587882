--------------------------- MODULE DeviceSync_proofs ---------------------------
(***************************************************************************)
(* Proofs about the ways in which a device keeps up with the server, for   *)
(* any number of overlapping cycles, pulls, handlers and writes, and of    *)
(* whatever the bounds of the runs limit: mutations, faults, changes of a  *)
(* card, rows and seconds, the size of a page.                             *)
(*                                                                         *)
(* The scheduler: FlagIsNotStuck is inductive as it stands.  It is cut in  *)
(* three: CycleOK is about the cycles and their flag, TimersOK about the   *)
(* timers, RestOK about the rest.                                          *)
(*                                                                         *)
(* The live events: AlwaysListening needs to know that a pull of a log-in  *)
(* is one that the hook still waits for, and the only one (LoginOnce).     *)
(*                                                                         *)
(* The cursor of the pulls: no row is left behind it as long as stamps     *)
(* order the insertions (InOrder).                                         *)
(***************************************************************************)
EXTENDS DeviceSync, PullCursor, FiniteSetTheorems, WellFoundedInduction, TLAPS

DaysLeft == [mutations : Nat, faults : Nat, requests : Nat, leaves : Nat]
Phases   == {"off", "entities", "push", "pull", "refresh"}
Statuses == {"idle", "pushing", "pulling", "error", "offline"}

CycleOK ==
    /\ mine \subseteq Cycles /\ at \in [Cycles -> Phases]
    /\ isSyncing \in BOOLEAN /\ queuedSync \in BOOLEAN /\ status \in Statuses
    /\ isSyncing => \E c \in Cycles : c \in mine /\ at[c] \in {"entities", "push", "pull"}

TimersOK ==
    /\ retryTimers \in Nat /\ retryRef \in BOOLEAN /\ (retryRef => retryTimers > 0)
    /\ queueTimers \in Nat /\ initial \in BOOLEAN /\ debounce \in {"off", "run", "queue"}

RestOK ==
    /\ use \in {"away", "mounted", "enabled"}
    /\ took \in [Cycles -> BOOLEAN] /\ dirty \in BOOLEAN /\ online \in BOOLEAN
    /\ errors \in Nat /\ left \in DaysLeft

(* The two halves are the invariant, in this state and in the next.        *)
LEMMA Halves == FlagIsNotStuck <=> CycleOK /\ TimersOK /\ RestOK
BY DEF FlagIsNotStuck, TypeOK, CycleOK, TimersOK, RestOK, Running, DaysLeft, Phases, Statuses

LEMMA HalvesNext == (FlagIsNotStuck <=> CycleOK /\ TimersOK /\ RestOK)'
BY DEF FlagIsNotStuck, TypeOK, CycleOK, TimersOK, RestOK, Running, DaysLeft, Phases, Statuses

(* What is left of a day stays a record of numbers.                        *)
LEMMA SpendType ==
    ASSUME NEW what \in {"mutations", "faults", "requests", "leaves"}, left \in DaysLeft, Spend(what)
    PROVE  left' \in DaysLeft
BY DEF Spend, DaysLeft

-----------------------------------------------------------------------------
(* Starting a cycle, from a timer or a request.                            *)
LEMMA BeginOK == ASSUME CycleOK, Begin PROVE CycleOK'
<1>1. PICK c \in Cycles : /\ at[c] = "off" /\ at' = [at EXCEPT ![c] = "entities"]
                          /\ mine' = mine \cup {c}
  BY DEF Begin
<1>2. isSyncing' = TRUE /\ queuedSync' = FALSE /\ status' = "pushing"
  BY DEF Begin
<1>3. at' \in [Cycles -> Phases] /\ at'[c] = "entities" /\ mine' \subseteq Cycles /\ c \in mine'
  BY <1>1 DEF CycleOK, Phases
<1>4. QED BY <1>2, <1>3 DEF CycleOK, Statuses

LEMMA ExecuteOK == ASSUME CycleOK, ExecuteSyncCycle PROVE CycleOK'
<1>1. CASE online
  BY <1>1, BeginOK DEF ExecuteSyncCycle
<1>2. CASE ~online
  BY <1>2 DEF ExecuteSyncCycle, CycleOK, Statuses
<1>3. QED BY <1>1, <1>2

LEMMA ClearRetryOK ==
    ASSUME TimersOK, ClearRetry
    PROVE  retryTimers' \in Nat /\ retryRef' = FALSE
BY DEF TimersOK, ClearRetry

LEMMA RequestOK ==
    ASSUME CycleOK, TimersOK, RequestSync
    PROVE  CycleOK' /\ TimersOK' /\ errors' \in Nat
<1>1. CASE isSyncing
  <2>1. queuedSync' = TRUE /\ UNCHANGED <<mine, at, isSyncing, status>>
    BY <1>1 DEF RequestSync
  <2>2. CycleOK'
    BY <2>1 DEF CycleOK
  <2>3. QED BY <2>2, ClearRetryOK DEF RequestSync, TimersOK
<1>2. CASE ~isSyncing
  <2>1. CycleOK'
    BY <1>2, ExecuteOK DEF RequestSync
  <2>2. QED BY <2>1, ClearRetryOK DEF RequestSync, TimersOK
<1>3. QED BY <1>1, <1>2

-----------------------------------------------------------------------------
(* The provider.                                                           *)
LEMMA ProviderOK ==
    ASSUME CycleOK, TimersOK, RestOK, Authenticate \/ Leave \/ Enter
    PROVE  CycleOK' /\ TimersOK' /\ RestOK'
<1>1. CASE Authenticate
  <2>1. CycleOK'
    BY <1>1 DEF Authenticate, CycleOK, Statuses
  <2>2. TimersOK'
    BY <1>1 DEF Authenticate, TimersOK
  <2>3. RestOK'
    BY <1>1 DEF Authenticate, RestOK
  <2>4. QED BY <2>1, <2>2, <2>3
<1>2. CASE Leave
  <2>1. CycleOK'
    BY <1>2 DEF Leave, CycleOK, Statuses
  <2>2. TimersOK'
    BY <1>2 DEF Leave, TimersOK
  <2>3. left' \in DaysLeft
    BY <1>2, SpendType DEF Leave, RestOK
  <2>4. RestOK'
    BY <1>2, <2>3 DEF Leave, RestOK
  <2>5. QED BY <2>1, <2>2, <2>4
<1>3. CASE Enter
  BY <1>3 DEF Enter, CycleOK, TimersOK, RestOK, timers, cycle
<1>4. QED BY <1>1, <1>2, <1>3

(* Events: requests, mutations, the network.                               *)
LEMMA EventsOK ==
    ASSUME CycleOK, TimersOK, RestOK,
           Trigger \/ NotifyMutation \/ Checkin \/ GoOffline \/ GoOnline
    PROVE  CycleOK' /\ TimersOK' /\ RestOK'
<1>1. CASE Trigger
  <2>1. left' \in DaysLeft
    BY <1>1, SpendType DEF Trigger, RestOK
  <2>2. CycleOK' /\ TimersOK' /\ errors' \in Nat
    BY <1>1, RequestOK DEF Trigger
  <2>3. RestOK'
    BY <1>1, <2>1, <2>2 DEF Trigger, RestOK
  <2>4. QED BY <2>2, <2>3
<1>2. CASE NotifyMutation
  <2>1. left' \in DaysLeft
    BY <1>2, SpendType DEF NotifyMutation, RestOK
  <2>2. CycleOK'
    BY <1>2 DEF NotifyMutation, CycleOK
  <2>3. TimersOK'
    BY <1>2 DEF NotifyMutation, TimersOK
  <2>4. RestOK'
    BY <1>2, <2>1 DEF NotifyMutation, RestOK
  <2>5. QED BY <2>2, <2>3, <2>4
<1>3. CASE Checkin
  <2>1. left' \in DaysLeft
    BY <1>3, SpendType DEF Checkin, RestOK
  <2>2. CycleOK' /\ TimersOK' /\ errors' \in Nat
    BY <1>3, RequestOK DEF Checkin
  <2>3. RestOK'
    BY <1>3, <2>1, <2>2 DEF Checkin, RestOK
  <2>4. QED BY <2>2, <2>3
<1>4. CASE GoOffline
  <2>1. left' \in DaysLeft
    BY <1>4, SpendType DEF GoOffline, RestOK
  <2>2. CycleOK'
    BY <1>4 DEF GoOffline, CycleOK, Statuses
  <2>3. TimersOK'
    BY <1>4, ClearRetryOK DEF GoOffline, TimersOK
  <2>4. RestOK'
    BY <1>4, <2>1 DEF GoOffline, RestOK
  <2>5. QED BY <2>2, <2>3, <2>4
<1>5. CASE GoOnline
  <2>1. CASE use # "enabled"
    BY <1>5, <2>1 DEF GoOnline, CycleOK, TimersOK, RestOK, cycle, timers
  <2>2. CASE use = "enabled"
    <3>1. isSyncing => CycleOK'
      BY <1>5, <2>2 DEF GoOnline, CycleOK, Statuses
    <3>2. ~isSyncing => CycleOK'
      BY <1>5, <2>2, BeginOK DEF GoOnline
    <3>3. TimersOK'
      BY <1>5, <2>2, ClearRetryOK DEF GoOnline, TimersOK
    <3>4. RestOK'
      BY <1>5, <2>2 DEF GoOnline, RestOK
    <3>5. QED BY <3>1, <3>2, <3>3, <3>4
  <2>3. QED BY <2>1, <2>2
<1>6. QED BY <1>1, <1>2, <1>3, <1>4, <1>5

(* Timers.                                                                 *)
LEMMA FiringOK ==
    ASSUME CycleOK, TimersOK, RestOK,
           DebounceFires \/ RetryFires \/ QueueTimerFires \/ InitialTimerFires \/ PeriodicTick
    PROVE  CycleOK' /\ TimersOK' /\ RestOK'
<1>1. CASE DebounceFires
  <2>1. debounce = "run" => CycleOK'
    BY <1>1, ExecuteOK DEF DebounceFires
  <2>2. debounce # "run" => CycleOK'
    BY <1>1 DEF DebounceFires, CycleOK
  <2>3. TimersOK' /\ RestOK'
    BY <1>1 DEF DebounceFires, TimersOK, RestOK
  <2>4. QED BY <2>1, <2>2, <2>3
<1>2. CASE RetryFires
  <2>1. CycleOK'
    BY <1>2, ExecuteOK DEF RetryFires
  <2>2. /\ retryTimers' \in Nat /\ retryRef' \in BOOLEAN
        /\ retryRef' => retryTimers' > 0
    <3>1. /\ retryTimers' = retryTimers - 1 /\ retryTimers > 0
          /\ retryRef' = FALSE \/ (retryTimers # 1 /\ retryRef' = retryRef)
      BY <1>2, Zenon DEF RetryFires
    <3>2. retryTimers \in Nat /\ retryRef \in BOOLEAN
      BY DEF TimersOK
    <3>3. retryTimers' \in Nat /\ (retryTimers # 1 => retryTimers' > 0)
      BY <3>1, <3>2
    <3>4. QED BY <3>1, <3>2, <3>3, Zenon
  <2>3. TimersOK' /\ RestOK'
    BY <1>2, <2>2 DEF RetryFires, TimersOK, RestOK
  <2>4. QED BY <2>1, <2>3
<1>3. CASE QueueTimerFires
  BY <1>3, ExecuteOK DEF QueueTimerFires, TimersOK, RestOK
<1>4. CASE InitialTimerFires
  <2>1. CycleOK'
    BY <1>4, BeginOK DEF InitialTimerFires, CycleOK, cycle
  <2>2. QED BY <1>4, <2>1 DEF InitialTimerFires, TimersOK, RestOK
<1>5. CASE PeriodicTick
  BY <1>5, BeginOK DEF PeriodicTick, TimersOK, RestOK, timers
<1>6. QED BY <1>1, <1>2, <1>3, <1>4, <1>5

-----------------------------------------------------------------------------
(* A cycle that ends takes the flag with it only if it is a cycle of the   *)
(* mounted provider; another one cannot be the witness of the flag.        *)
LEMMA EndOK ==
    ASSUME CycleOK, NEW c \in Cycles, at' = [at EXCEPT ![c] = "refresh"], mine' = mine,
           isSyncing' = (isSyncing /\ c \notin mine), queuedSync' = queuedSync,
           NEW s \in Statuses, Shows(c, s)
    PROVE  CycleOK'
<1>1. at' \in [Cycles -> Phases] /\ status' \in Statuses /\ isSyncing' \in BOOLEAN
  BY DEF CycleOK, Phases, Shows
<1>2. ASSUME isSyncing'
      PROVE  \E d \in Cycles : d \in mine' /\ at'[d] \in {"entities", "push", "pull"}
  <2>1. isSyncing /\ c \notin mine
    BY <1>2
  <2>2. PICK d \in Cycles : d \in mine /\ at[d] \in {"entities", "push", "pull"}
    BY <2>1 DEF CycleOK
  <2>3. at'[d] = at[d]
    BY <2>1, <2>2 DEF CycleOK
  <2>4. QED BY <2>2, <2>3
<1>3. QED BY <1>1, <1>2 DEF CycleOK

(* A cycle that goes on to a phase in which it still runs.                 *)
LEMMA GoesOnOK ==
    ASSUME CycleOK, NEW c \in Cycles, NEW to \in {"push", "pull"}, at' = [at EXCEPT ![c] = to],
           UNCHANGED <<mine, isSyncing, queuedSync>>, status' \in Statuses
    PROVE  CycleOK'
BY DEF CycleOK, Phases

LEMMA StepsOK ==
    ASSUME CycleOK, TimersOK, RestOK, NEW c \in Cycles, CycleSteps(c)
    PROVE  CycleOK' /\ TimersOK' /\ RestOK'
<1>1. CASE EntitiesDone(c)
  <2>1. CycleOK'
    BY <1>1, GoesOnOK DEF EntitiesDone, Moves, CycleOK
  <2>2. QED BY <1>1, <2>1 DEF EntitiesDone, TimersOK, RestOK, timers
<1>2. CASE PushDone(c)
  <2>1. status' \in Statuses
    BY <1>2 DEF PushDone, Shows, CycleOK, Statuses
  <2>2. CycleOK'
    BY <1>2, <2>1, GoesOnOK DEF PushDone, Moves
  <2>3. took' \in [Cycles -> BOOLEAN] /\ dirty' \in BOOLEAN
    BY <1>2 DEF PushDone, RestOK
  <2>4. QED BY <1>2, <2>2, <2>3 DEF PushDone, TimersOK, RestOK, timers
<1>3. CASE PullDone(c)
  <2>1. CycleOK'
    BY <1>3, EndOK DEF PullDone, Moves, Statuses
  <2>2. QED BY <1>3, <2>1 DEF PullDone, TimersOK, RestOK, timers
<1>4. CASE CycleFails(c)
  <2>1. CycleOK'
    BY <1>4, EndOK DEF CycleFails, Fails, Statuses
  <2>2. TimersOK'
    <3>1. \/ retryTimers' = retryTimers + 1 /\ retryRef' = TRUE
          \/ retryTimers' = retryTimers /\ retryRef' = retryRef
      BY <1>4 DEF CycleFails
    <3>2. queueTimers' = queueTimers /\ initial' = initial /\ debounce' = debounce
      BY <1>4 DEF CycleFails, Fails
    <3>3. /\ retryTimers \in Nat /\ retryRef \in BOOLEAN /\ (retryRef => retryTimers > 0)
          /\ queueTimers \in Nat /\ initial \in BOOLEAN /\ debounce \in {"off", "run", "queue"}
      BY DEF TimersOK
    <3>4. retryTimers + 1 \in Nat /\ retryTimers + 1 > 0
      BY <3>3
    <3>5. retryTimers' \in Nat /\ retryRef' \in BOOLEAN /\ (retryRef' => retryTimers' > 0)
      <4>1. CASE retryTimers' = retryTimers + 1 /\ retryRef' = TRUE
        BY <3>4, <4>1, Zenon
      <4>2. CASE retryTimers' = retryTimers /\ retryRef' = retryRef
        BY <3>3, <4>2, Zenon
      <4>3. QED BY <3>1, <4>1, <4>2
    <3>6. QED BY <3>2, <3>3, <3>5 DEF TimersOK
  <2>3. left' \in DaysLeft
    BY <1>4, SpendType DEF CycleFails, Fails, RestOK
  <2>4. took' \in [Cycles -> BOOLEAN] /\ errors' \in Nat
    BY <1>4 DEF CycleFails, Fails, RestOK
  <2>5. RestOK'
    BY <1>4, <2>3, <2>4 DEF CycleFails, Fails, RestOK
  <2>6. QED BY <2>1, <2>2, <2>5
<1>5. CASE Refreshed(c)
  <2>1. at' = [at EXCEPT ![c] = "off"] /\ at[c] = "refresh" /\ mine' = mine \ {c}
        /\ isSyncing' = isSyncing /\ status' = status /\ queuedSync' \in BOOLEAN
    BY <1>5 DEF Refreshed, Moves, CycleOK
  <2>2. \A d \in Cycles : d \in mine /\ at[d] \in {"entities", "push", "pull"}
                          => d \in mine' /\ at'[d] = at[d]
    BY <2>1 DEF CycleOK
  <2>3. CycleOK'
    BY <2>1, <2>2 DEF CycleOK, Phases
  <2>4. QED BY <1>5, <2>3 DEF Refreshed, TimersOK, RestOK
<1>6. QED BY <1>1, <1>2, <1>3, <1>4, <1>5 DEF CycleSteps

-----------------------------------------------------------------------------
(* The scheduler begins with its flag down.                                *)
LEMMA FlagInit == Init => FlagIsNotStuck
<1> SUFFICES ASSUME Init PROVE FlagIsNotStuck
  OBVIOUS
<1>1. CycleOK /\ TimersOK
  BY DEF Init, CycleOK, TimersOK, Phases, Statuses
<1>2. RestOK
  BY EngineBounds DEF Init, RestOK, DaysLeft
<1>3. QED BY <1>1, <1>2, Halves

(* Every step of the scheduler keeps the invariant.                        *)
LEMMA FlagStep ==
    ASSUME FlagIsNotStuck, [Next]_vars
    PROVE  FlagIsNotStuck'
<1>1. CycleOK /\ TimersOK /\ RestOK
  BY Halves
<1>2. CASE Next
  BY <1>1, <1>2, ProviderOK, EventsOK, FiringOK, StepsOK, HalvesNext DEF Next
<1>3. CASE UNCHANGED vars
  <2>1. CycleOK' /\ TimersOK' /\ RestOK'
    BY <1>1, <1>3 DEF vars, timers, cycle, CycleOK, TimersOK, RestOK
  <2>2. QED BY <2>1, HalvesNext
<1>4. QED BY <1>2, <1>3

(* isSyncing is never left set behind: while it is set, one of the cycles  *)
(* that the mounted provider has started is still running, and will clear  *)
(* it.  So events are not queued for ever and the periodic pull is not     *)
(* locked out, in any overlap of cycles and pages left in between; and     *)
(* the state is well typed.                                                *)
THEOREM FlagNotStuck == SyncSpec => []FlagIsNotStuck
<1>1. SyncInit => FlagIsNotStuck
  BY FlagInit DEF SyncInit
<1>2. FlagIsNotStuck /\ [SyncNext]_<<vars, liveVars, part>> => FlagIsNotStuck'
  <2>1. [SyncNext]_<<vars, liveVars, part>> => [Next]_vars
    BY DEF SyncNext
  <2>2. QED BY <2>1, FlagStep
<1>3. QED BY <1>1, <1>2, PTL DEF SyncSpec

-----------------------------------------------------------------------------
(* The live events.                                                        *)
PullRec  == [why : {"login", "catch-up", "periodic", "stray"}, cursor : Live!Statuses, after : Live!Statuses]
WriteRec == [status : Live!Statuses, at : {"get", "put"}, found : BOOLEAN, again : BOOLEAN]

PullsOK  == pulls \in [Slots -> {Nothing} \cup PullRec]
WritesOK == writes \in [Slots -> {Nothing} \cup WriteRec]
RowOK    == /\ row \in {Nothing} \cup [status : Live!Statuses, whole : BOOLEAN]
            /\ cursor \in Live!Statuses /\ undone \in BOOLEAN
ServerOK == server \in Live!Statuses /\ engine \in BOOLEAN /\ stream \in Seq(Live!Statuses)

LinkType ==
    /\ hook \in {"off", "login", "on", "failed"} /\ source \in {"none", "connecting", "open"}
    /\ attempts \in 0..MaxAttempts /\ reconnect \in BOOLEAN /\ periodic \in BOOLEAN
Linked ==
    /\ hook = "on" => source # "none" \/ periodic
    /\ hook # "on" => source = "none" /\ ~periodic /\ ~reconnect
    /\ source = "open" => ~periodic
    /\ reconnect => source = "none"

(* The hook waits for the pull of a log-in, and there is one at most.      *)
WaitedFor(s) == pulls[s] # Nothing /\ pulls[s].why = "login"
LoginOnce ==
    \A s \in Slots : WaitedFor(s) => hook = "login" /\ \A t \in Slots : WaitedFor(t) => t = s

LinkOK == LinkType /\ Linked

ListensInv == PullsOK /\ WritesOK /\ RowOK /\ ServerOK /\ LinkOK /\ LoginOnce

(* The parts make up the invariant that the run checks.                    *)
LEMMA Parts == ListensInv => AlwaysListening
BY DEF ListensInv, PullsOK, WritesOK, RowOK, ServerOK, LinkOK, LinkType, Linked, PullRec, WriteRec, AlwaysListening,
       Live!AlwaysListening, Live!LiveTypeOK

(* A pull is started in one free slot, and only a log-in is waited for.    *)
LEMMA StartPullOK ==
    ASSUME ListensInv, NEW why \in {"login", "catch-up", "periodic"}, Live!StartPull(why)
    PROVE  /\ PullsOK'
           /\ \E s \in Slots : \A t \in Slots :
                 /\ t # s => pulls'[t] = pulls[t]
                 /\ why # "login" => (WaitedFor(s))' = FALSE
<1>1. PICK s \in Slots : pulls' = [pulls EXCEPT ![s] = Live!Asks(why)]
  BY DEF Live!StartPull, Live!Free
<1>2. Live!Asks(why) \in PullRec /\ Live!Asks(why).why = why
  BY DEF ListensInv, RowOK, ServerOK, PullRec, Live!Asks
<1>3. PullsOK'
  BY <1>1, <1>2 DEF ListensInv, PullsOK
<1>4. pulls'[s] = Live!Asks(why) /\ \A t \in Slots : t # s => pulls'[t] = pulls[t]
  BY <1>1 DEF ListensInv, PullsOK
<1>5. why # "login" => (WaitedFor(s))' = FALSE
  BY <1>2, <1>4 DEF WaitedFor
<1>6. QED BY <1>3, <1>4, <1>5

(* What keeps LoginOnce: nothing new is waited for, and the hook goes on   *)
(* waiting for what there is.                                              *)
LEMMA LoginKept ==
    ASSUME LoginOnce, \A s \in Slots : (WaitedFor(s))' => WaitedFor(s) /\ hook' = hook
    PROVE  LoginOnce'
BY DEF LoginOnce

(* The pulls, and who waits for them.                                      *)
LEMMA PullsStep ==
    ASSUME ListensInv, Live!Next
    PROVE  PullsOK' /\ LoginOnce'
<1>0. PullsOK /\ LoginOnce
  BY DEF ListensInv
<1>1. CASE Live!Enable
  <2>1. hook = "off" /\ hook' = "login" /\ Live!StartPull("login")
    BY <1>1 DEF Live!Enable
  <2>2. \A s \in Slots : ~WaitedFor(s)
    BY <1>0, <2>1 DEF LoginOnce
  <2>3. PICK s \in Slots : \A t \in Slots : t # s => pulls'[t] = pulls[t]
    BY <2>1, StartPullOK
  <2>4. \A t \in Slots : (WaitedFor(t))' => t = s
    BY <2>2, <2>3 DEF WaitedFor
  <2>5. LoginOnce'
    BY <2>1, <2>4 DEF LoginOnce
  <2>6. QED BY <2>1, <2>5, StartPullOK
<1>2. CASE Live!Disable
  <2>1. pulls' = Live!Strayed
    BY <1>2 DEF Live!Disable
  <2>2. \A s \in Slots : pulls'[s] = IF pulls[s] = Nothing THEN Nothing ELSE [pulls[s] EXCEPT !.why = "stray"]
    BY <2>1 DEF Live!Strayed
  <2>3. ASSUME NEW s \in Slots
        PROVE  pulls'[s] \in {Nothing} \cup PullRec /\ ~(WaitedFor(s))'
    <3>1. CASE pulls[s] = Nothing
      BY <2>2, <3>1 DEF WaitedFor
    <3>2. CASE pulls[s] # Nothing
      <4>1. pulls[s] \in PullRec
        BY <1>0, <3>2 DEF PullsOK
      <4>2. pulls'[s] \in PullRec /\ pulls'[s].why = "stray"
        BY <2>2, <3>2, <4>1 DEF PullRec
      <4>3. QED BY <4>2 DEF WaitedFor
    <3>3. QED BY <3>1, <3>2
  <2>4. PullsOK'
    <3>1. pulls' = [s \in Slots |-> pulls'[s]]
      BY <2>1 DEF Live!Strayed
    <3>2. QED BY <2>3, <3>1 DEF PullsOK
  <2>5. LoginOnce'
    BY <2>3 DEF LoginOnce
  <2>6. QED BY <2>4, <2>5
<1>3. CASE Live!Opens \/ Live!Tick
  <2>1. PICK why \in {"catch-up", "periodic"} : Live!StartPull(why) /\ hook' = hook
    <3>1. CASE Live!Opens
      BY <3>1 DEF Live!Opens
    <3>2. CASE Live!Tick
      BY <3>2 DEF Live!Tick
    <3>3. QED BY <1>3, <3>1, <3>2
  <2>2. why \in {"login", "catch-up", "periodic"} /\ why # "login"
    OBVIOUS
  <2>3. PICK s \in Slots : \A t \in Slots : (t # s => pulls'[t] = pulls[t]) /\ (WaitedFor(s))' = FALSE
    BY <2>1, <2>2, StartPullOK
  <2>4. \A t \in Slots : (WaitedFor(t))' => WaitedFor(t)
    BY <2>3 DEF WaitedFor
  <2>5. PullsOK'
    BY <2>1, <2>2, StartPullOK
  <2>6. QED BY <1>0, <2>1, <2>4, <2>5, LoginKept
<1>4. ASSUME NEW s \in Slots, Live!Pulled(s) \/ Live!PullFails(s)
      PROVE  PullsOK' /\ LoginOnce'
  <2>1. pulls' = [pulls EXCEPT ![s] = Nothing]
    BY <1>4 DEF Live!Pulled, Live!PullFails
  <2>2. PullsOK' /\ \A t \in Slots : (WaitedFor(t))' => t # s /\ WaitedFor(t)
    BY <1>0, <2>1 DEF PullsOK, WaitedFor
  <2>3. WaitedFor(s) \/ hook' = hook
    BY <1>4 DEF Live!Pulled, Live!PullFails, WaitedFor
  <2>4. CASE WaitedFor(s)
    BY <1>0, <2>2, <2>4 DEF LoginOnce
  <2>5. CASE hook' = hook
    BY <1>0, <2>2, <2>5, LoginKept
  <2>6. QED BY <2>2, <2>3, <2>4, <2>5
<1>5. CASE UNCHANGED <<pulls, hook>>
  BY <1>0, <1>5 DEF PullsOK, LoginOnce, WaitedFor
<1>6. \/ Live!Enable \/ Live!Disable \/ Live!Opens \/ Live!Tick \/ UNCHANGED <<pulls, hook>>
      \/ \E s \in Slots : Live!Pulled(s) \/ Live!PullFails(s)
  BY DEF Live!Next, Live!SlotSteps, Live!Breaks, Live!Reconnects, Live!Change, Live!Hear, Live!LooksUp,
         Live!Writes, Live!WriteFails, Live!link, Live!data
<1>7. QED BY <1>1, <1>2, <1>3, <1>4, <1>5, <1>6

(* The writes of events to the local row.                                  *)
LEMMA WritesStep ==
    ASSUME ListensInv, Live!Next
    PROVE  WritesOK'
<1>0. WritesOK /\ stream \in Seq(Live!Statuses)
  BY DEF ListensInv, ServerOK
<1>1. CASE Live!Hear
  <2>1. PICK s \in Slots :
           writes' = [writes EXCEPT ![s] = [status |-> Head(stream), at |-> "get", found |-> FALSE, again |-> FALSE]]
    BY <1>1 DEF Live!Hear, Live!Free
  <2>2. stream # <<>>
    BY <1>1 DEF Live!Hear
  <2>3. Head(stream) \in Live!Statuses
    BY <1>0, <2>2
  <2>4. [status |-> Head(stream), at |-> "get", found |-> FALSE, again |-> FALSE] \in WriteRec
    BY <2>3 DEF WriteRec
  <2>5. QED BY <1>0, <2>1, <2>4 DEF WritesOK
<1>2. ASSUME NEW s \in Slots, Live!LooksUp(s) \/ Live!Writes(s) \/ Live!WriteFails(s)
      PROVE  WritesOK'
  <2>1. writes[s] # Nothing
    BY <1>2 DEF Live!LooksUp, Live!Writes, Live!WriteFails
  <2>2. writes[s] \in WriteRec
    BY <1>0, <2>1 DEF WritesOK
  <2>3. CASE Live!LooksUp(s)
    <3>1. writes' = [writes EXCEPT ![s] = [writes[s] EXCEPT !.at = "put", !.found = (row # Nothing)]]
      BY <1>0, <2>3 DEF Live!LooksUp, WritesOK
    <3>2. [writes[s] EXCEPT !.at = "put", !.found = (row # Nothing)] \in WriteRec
      BY <2>2 DEF WriteRec
    <3>3. QED BY <1>0, <3>1, <3>2 DEF WritesOK
  <2>4. CASE Live!Writes(s)
    BY <1>0, <2>4 DEF Live!Writes, WritesOK
  <2>5. CASE Live!WriteFails(s)
    <3>1. [writes[s] EXCEPT !.at = "get", !.again = TRUE] \in WriteRec
      BY <2>2 DEF WriteRec
    <3>2. writes' = [writes EXCEPT ![s] =
                       IF writes[s].again THEN Nothing ELSE [writes[s] EXCEPT !.at = "get", !.again = TRUE]]
      BY <1>0, <2>5 DEF Live!WriteFails, WritesOK
    <3>3. QED BY <1>0, <3>1, <3>2 DEF WritesOK
  <2>6. QED BY <1>2, <2>3, <2>4, <2>5
<1>3. CASE UNCHANGED writes
  BY <1>0, <1>3 DEF WritesOK
<1>4. \/ Live!Hear \/ UNCHANGED writes
      \/ \E s \in Slots : Live!LooksUp(s) \/ Live!Writes(s) \/ Live!WriteFails(s)
  BY DEF Live!Next, Live!SlotSteps, Live!Enable, Live!Disable, Live!Opens, Live!Breaks, Live!Reconnects,
         Live!Tick, Live!Change, Live!Pulled, Live!PullFails
<1>5. QED BY <1>1, <1>2, <1>3, <1>4

(* The local row and the cursor.                                           *)
LEMMA RowStep ==
    ASSUME ListensInv, Live!Next
    PROVE  RowOK'
<1>0. RowOK /\ PullsOK /\ WritesOK /\ server \in Live!Statuses
  BY DEF ListensInv, ServerOK
<1>1. ASSUME NEW s \in Slots, Live!Pulled(s)
      PROVE  RowOK'
  <2>1. PICK found \in pulls[s].after..server : Live!Merge(pulls[s], found)
    BY <1>1 DEF Live!Pulled
  <2>2. pulls[s] \in PullRec
    BY <1>0, <1>1 DEF Live!Pulled, PullsOK
  <2>3. found \in Live!Statuses /\ pulls[s].cursor \in Live!Statuses
    BY <1>0, <2>1, <2>2, LiveAssumption DEF PullRec, Live!Statuses, Live!LiveBounds
  <2>4. CASE found > pulls[s].cursor
    <3>1. row' = [status |-> found, whole |-> TRUE] /\ cursor' = found /\ undone' \in BOOLEAN
      BY <2>1, <2>4 DEF Live!Merge
    <3>2. QED BY <2>3, <3>1 DEF RowOK
  <2>5. CASE ~(found > pulls[s].cursor)
    BY <1>0, <2>1, <2>3, <2>5 DEF Live!Merge, RowOK
  <2>6. QED BY <2>4, <2>5
<1>2. ASSUME NEW s \in Slots, Live!PullFails(s) \/ Live!WriteFails(s)
      PROVE  RowOK'
  BY <1>0, <1>2 DEF Live!PullFails, Live!WriteFails, RowOK
<1>3. ASSUME NEW s \in Slots, Live!Writes(s)
      PROVE  RowOK'
  <2>1. writes[s] \in WriteRec
    BY <1>0, <1>3 DEF Live!Writes, WritesOK
  <2>2. row' \in [status : Live!Statuses, whole : BOOLEAN]
    BY <1>3, <2>1 DEF Live!Writes, WriteRec
  <2>3. cursor' \in Live!Statuses /\ undone' \in BOOLEAN
    BY <1>0, <1>3 DEF Live!Writes, RowOK
  <2>4. QED BY <2>2, <2>3 DEF RowOK
<1>4. CASE UNCHANGED <<row, cursor, undone>>
  BY <1>0, <1>4 DEF RowOK
<1>5. \/ UNCHANGED <<row, cursor, undone>>
      \/ \E s \in Slots : \/ Live!Pulled(s) \/ Live!PullFails(s) \/ Live!WriteFails(s)
                         \/ Live!Writes(s)
  BY DEF Live!Next, Live!SlotSteps, Live!Enable, Live!Disable, Live!Opens, Live!Breaks, Live!Reconnects,
         Live!Tick, Live!Change, Live!Hear, Live!LooksUp, Live!data
<1>6. QED BY <1>1, <1>2, <1>3, <1>4, <1>5

(* The server's status and the stream.                                     *)
LEMMA ServerStep ==
    ASSUME ListensInv, Live!Next
    PROVE  ServerOK'
<1>0. ServerOK
  BY DEF ListensInv
<1>1. CASE Live!Change
  <2>1. server' \in Live!Statuses
    BY <1>0, <1>1, LiveAssumption DEF Live!Change, ServerOK, Live!Statuses, Live!LiveBounds
  <2>2. stream' \in Seq(Live!Statuses)
    BY <1>0, <1>1, <2>1 DEF Live!Change, ServerOK
  <2>3. QED BY <1>0, <1>1, <2>1, <2>2 DEF Live!Change, ServerOK
<1>2. CASE Live!Hear
  <2>1. stream' \in Seq(Live!Statuses)
    BY <1>0, <1>2 DEF Live!Hear, ServerOK
  <2>2. QED BY <1>0, <1>2, <2>1 DEF Live!Hear, ServerOK
<1>3. CASE UNCHANGED <<server, engine>> /\ stream' \in {stream, <<>>}
  <2>1. <<>> \in Seq(Live!Statuses)
    OBVIOUS
  <2>2. QED BY <1>0, <1>3, <2>1 DEF ServerOK
<1>4. ASSUME NEW s \in Slots, Live!Pulled(s)
      PROVE  ServerOK'
  <2>1. UNCHANGED <<server, engine>> /\ stream' \in {stream, <<>>}
    BY <1>4 DEF Live!Pulled, Live!Connect, Live!link
  <2>2. QED BY <1>3, <2>1
<1>5. CASE Live!Disable
  <2>1. UNCHANGED <<server, engine>> /\ stream' \in {stream, <<>>}
    BY <1>5 DEF Live!Disable, Live!Disconnect, Live!Disconnected, Live!link
  <2>2. QED BY <1>3, <2>1
<1>6. \/ Live!Change \/ Live!Hear \/ Live!Disable \/ \E s \in Slots : Live!Pulled(s)
      \/ UNCHANGED <<server, engine>> /\ stream' \in {stream, <<>>}
  BY DEF Live!Next, Live!SlotSteps, Live!Enable, Live!Opens, Live!Breaks, Live!Reconnects,
         Live!Tick, Live!LooksUp, Live!Writes, Live!PullFails, Live!WriteFails, Live!link
<1>7. QED BY <1>1, <1>2, <1>3, <1>4, <1>5, <1>6

(* The hook and its connection.  A log-in that was waited for connects; a  *)
(* connection breaks or opens only while the hook is on.                   *)
LEMMA LinkStep ==
    ASSUME ListensInv, Live!Next
    PROVE  LinkOK'
<1>0. LinkType /\ Linked /\ LoginOnce /\ MaxAttempts \in Nat
  BY LiveAssumption DEF ListensInv, LinkOK, Live!LiveBounds
<1> DEFINE fits(n) == n \in 0..MaxAttempts
<1>z. fits(0)
  BY <1>0
<1>a. LinkType <=> /\ hook \in {"off", "login", "on", "failed"} /\ source \in {"none", "connecting", "open"}
                   /\ fits(attempts) /\ reconnect \in BOOLEAN /\ periodic \in BOOLEAN
  BY DEF LinkType
<1>b. LinkType' <=> /\ hook' \in {"off", "login", "on", "failed"} /\ source' \in {"none", "connecting", "open"}
                    /\ fits(attempts') /\ reconnect' \in BOOLEAN /\ periodic' \in BOOLEAN
  BY DEF LinkType
<1> HIDE DEF fits
<1>1. CASE Live!Enable
  <2>1. LinkType'
    BY <1>0, <1>1 DEF Live!Enable, LinkType, Live!link
  <2>2. Linked'
    BY <1>0, <1>1 DEF Live!Enable, Linked, Live!link
  <2>3. QED BY <2>1, <2>2 DEF LinkOK
<1>2. CASE Live!Disable
  <2>1. CASE hook = "on"
    <3>1. /\ hook' = "off" /\ source' = "none" /\ attempts' = 0
          /\ reconnect' = FALSE /\ periodic' = FALSE
      BY <1>2, <2>1 DEF Live!Disable, Live!Disconnect, Live!Disconnected
    <3>2. LinkType'
      BY <1>z, <1>b, <3>1
    <3>3. Linked'
      BY <3>1 DEF Linked
    <3>4. QED BY <3>2, <3>3 DEF LinkOK
  <2>2. CASE hook # "on"
    <3>1. hook' = "off" /\ UNCHANGED <<source, attempts, reconnect, periodic>>
      BY <1>2, <2>2 DEF Live!Disable, Live!link
    <3>2. LinkType'
      BY <1>0, <3>1 DEF LinkType
    <3>3. Linked'
      BY <1>0, <2>2, <3>1 DEF Linked
    <3>4. QED BY <3>2, <3>3 DEF LinkOK
  <2>3. QED BY <2>1, <2>2
<1>3. CASE Live!Opens
  <2>1. /\ source = "connecting" /\ source' = "open" /\ attempts' = 0 /\ periodic' = FALSE
        /\ hook' = hook /\ reconnect' = reconnect
    BY <1>3 DEF Live!Opens
  <2>2. LinkType'
    BY <1>0, <1>z, <1>a, <1>b, <2>1
  <2>3. hook = "on" /\ ~reconnect
    BY <1>0, <2>1 DEF Linked
  <2>4. Linked'
    BY <2>1, <2>3 DEF Linked
  <2>5. QED BY <2>2, <2>4 DEF LinkOK
<1>4. CASE Live!Breaks
  <2>1. /\ source # "none" /\ source' = "none" /\ periodic' = TRUE /\ hook' = hook
        /\ reconnect' \in BOOLEAN
        /\ attempts' = attempts \/ (attempts < MaxAttempts /\ attempts' = attempts + 1)
    BY <1>4 DEF Live!Breaks
  <2>2. attempts' \in 0..MaxAttempts
    BY <1>0, <2>1 DEF LinkType
  <2>3. LinkType'
    BY <1>0, <2>1, <2>2 DEF LinkType
  <2>4. hook = "on"
    BY <1>0, <2>1 DEF Linked
  <2>5. Linked'
    BY <2>1, <2>4 DEF Linked
  <2>6. QED BY <2>3, <2>5 DEF LinkOK
<1>5. CASE Live!Reconnects
  <2>1. /\ reconnect /\ reconnect' = FALSE /\ source' = "connecting"
        /\ UNCHANGED <<hook, attempts, periodic>>
    BY <1>5 DEF Live!Reconnects
  <2>2. LinkType'
    BY <1>0, <2>1 DEF LinkType
  <2>3. hook = "on"
    BY <1>0, <2>1 DEF Linked
  <2>4. Linked'
    BY <2>1, <2>3 DEF Linked
  <2>5. QED BY <2>2, <2>4 DEF LinkOK
<1>6. ASSUME NEW s \in Slots, Live!Pulled(s)
      PROVE  LinkOK'
  <2>1. CASE WaitedFor(s)
    <3>1. /\ hook' = "on" /\ source' = "connecting" /\ attempts' = 0
          /\ reconnect' = FALSE /\ periodic' = FALSE
      BY <1>6, <2>1 DEF Live!Pulled, Live!Connect, WaitedFor
    <3>2. LinkType'
      BY <1>z, <1>b, <3>1
    <3>3. Linked'
      BY <3>1 DEF Linked
    <3>4. QED BY <3>2, <3>3 DEF LinkOK
  <2>2. CASE ~WaitedFor(s)
    <3>1. UNCHANGED <<hook, source, attempts, reconnect, periodic>>
      BY <1>6, <2>2 DEF Live!Pulled, WaitedFor, Live!link
    <3>2. QED BY <1>0, <3>1 DEF LinkOK, LinkType, Linked
  <2>3. QED BY <2>1, <2>2
<1>7. ASSUME NEW s \in Slots, Live!PullFails(s)
      PROVE  LinkOK'
  <2>1. UNCHANGED <<source, attempts, reconnect, periodic>>
    BY <1>7 DEF Live!PullFails, Live!link
  <2>2. CASE WaitedFor(s)
    <3>1. hook = "login" /\ hook' = "failed"
      BY <1>0, <1>7, <2>2 DEF LoginOnce, WaitedFor, Live!PullFails
    <3>2. LinkType'
      BY <1>0, <2>1, <3>1 DEF LinkType
    <3>3. Linked'
      BY <1>0, <2>1, <3>1 DEF Linked
    <3>4. QED BY <3>2, <3>3 DEF LinkOK
  <2>3. CASE ~WaitedFor(s)
    <3>1. hook' = hook
      BY <1>7, <2>3 DEF WaitedFor, Live!PullFails
    <3>2. QED BY <1>0, <2>1, <3>1 DEF LinkOK, LinkType, Linked
  <2>4. QED BY <2>2, <2>3
<1>8. CASE UNCHANGED <<hook, source, attempts, reconnect, periodic>>
  BY <1>0, <1>8 DEF LinkOK, LinkType, Linked
<1>9. \/ Live!Enable \/ Live!Disable \/ Live!Opens \/ Live!Breaks \/ Live!Reconnects
      \/ \E s \in Slots : Live!Pulled(s) \/ Live!PullFails(s)
      \/ UNCHANGED <<hook, source, attempts, reconnect, periodic>>
  BY DEF Live!Next, Live!SlotSteps, Live!Tick, Live!Change, Live!Hear, Live!LooksUp, Live!Writes,
         Live!WriteFails, Live!link
<1>10. QED BY <1>1, <1>2, <1>3, <1>4, <1>5, <1>6, <1>7, <1>8, <1>9

LEMMA ListensInit == Live!Init => ListensInv
<1> SUFFICES ASSUME Live!Init PROVE ListensInv
  OBVIOUS
<1>1. 0 \in Live!Statuses /\ MaxAttempts \in Nat
  BY LiveAssumption DEF Live!LiveBounds, Live!Statuses
<1>2. PullsOK /\ WritesOK /\ LoginOnce
  BY DEF Live!Init, PullsOK, WritesOK, LoginOnce, WaitedFor
<1>3. RowOK /\ ServerOK
  <2>1. /\ server = 0 /\ engine \in BOOLEAN /\ stream = <<>>
        /\ row = Nothing /\ cursor = 0 /\ undone = FALSE
    BY DEF Live!Init
  <2>2. stream \in Seq(Live!Statuses)
    BY <2>1
  <2>3. ServerOK
    BY <1>1, <2>1, <2>2 DEF ServerOK
  <2>4. RowOK
    BY <1>1, <2>1, Zenon DEF RowOK
  <2>5. QED BY <2>3, <2>4
<1>4. /\ hook = "off" /\ source = "none" /\ attempts = 0
      /\ reconnect = FALSE /\ periodic = FALSE
  BY DEF Live!Init
<1>5. LinkType /\ Linked
  <2>1. attempts \in 0..MaxAttempts
    BY <1>1, <1>4
  <2>2. LinkType
    BY <1>4, <2>1, Zenon DEF LinkType
  <2>3. Linked
    BY <1>4 DEF Linked
  <2>4. QED BY <2>2, <2>3
<1>6. QED BY <1>2, <1>3, <1>4, <1>5 DEF ListensInv, LinkOK

(* As long as the hook of the live events is on, and only as long, the     *)
(* device has a stream, is about to get one, or pulls every 30 seconds,    *)
(* and never both once the stream is open; whatever log-ins are cut short, *)
(* connections broken and reconnections timed in between.                  *)
THEOREM Listens == SyncSpec => []AlwaysListening
<1>1. SyncInit => ListensInv
  BY ListensInit DEF SyncInit
<1>2. ListensInv /\ [SyncNext]_<<vars, liveVars, part>> => ListensInv'
  <2> SUFFICES ASSUME ListensInv, [SyncNext]_<<vars, liveVars, part>>
               PROVE  ListensInv'
    OBVIOUS
  <2>1. CASE Live!Next
    BY <2>1, PullsStep, WritesStep, RowStep, ServerStep, LinkStep DEF ListensInv
  <2>2. CASE UNCHANGED liveVars
    BY <2>2 DEF liveVars, ListensInv, PullsOK, WritesOK, RowOK, ServerOK, LinkOK, LinkType, Linked, LoginOnce, WaitedFor
  <2>3. QED BY <2>1, <2>2 DEF SyncNext
<1>3. QED BY <1>1, <1>2, Parts, PTL DEF SyncSpec

-----------------------------------------------------------------------------
(* The cursor of the pulls (PullCursor).                                    *)

(* Stamps order the insertions: a push is over within its second, no pull   *)
(* reads in a second that still gets rows, and a second gets one row.       *)
InOrder == ~SlowHandlers /\ ~SameSecond /\ MaxBatch = 1

Writing == \A h \in Handlers : Busy(h) =>
    /\ handler[h].began = clock /\ handler[h].left = 1 /\ Len(rows) < MaxRows
    /\ \A i \in Ids : rows[i] < clock
    /\ \A g \in Handlers : Busy(g) => g = h

Increasing == \A i, j \in Ids : i < j => rows[i] < rows[j]

Passed(c, ids) == c < clock /\ \A i \in Ids : rows[i] <= c => i \in ids

Cursors ==
    /\ Passed(saved, have)
    /\ \A p \in Pulls :
         /\ stage[p] # "idle" => Passed(running[p], have)
         /\ stage[p] = "answer" => page[p] \in Page /\ page[p].ids \subseteq Ids /\ Passed(page[p].cursor, have \cup page[p].ids)

(* Then stamps increase, every cursor, saved or not, is behind the clock,   *)
(* and the rows up to it are here or on the page that is on its way.        *)
PullInv == PullTypeOK /\ Writing /\ Increasing /\ (\A i \in Ids : rows[i] <= clock) /\ Cursors
-----------------------------------------------------------------------------
LEMMA Greatest ==
    ASSUME NEW N \in Nat, NEW S \in SUBSET (0..N), S # {}
    PROVE  Max(S) \in S /\ \A x \in S : x <= Max(S)
<1> DEFINE Above == {n \in Nat : \A x \in S : x <= n}
<1> DEFINE R == OpToRel(<, Nat)
<1>0. S \subseteq Nat /\ Above \subseteq Nat /\ N \in Above
  OBVIOUS
<1>1. IsWellFoundedOn(R, Nat)
  BY NatLessThanWellFounded
<1>2. \A x, y \in Nat : x < y => <<x, y>> \in R
  BY DEF OpToRel
<1> HIDE DEF R
<1>3. PICK n \in Above : \A y \in Above : ~ (<<y, n>> \in R)
  BY <1>0, <1>1, WFMin
<1>4. n \in Nat /\ \A x \in S : x <= n
  OBVIOUS
<1>5. n \in S
  <2>1. SUFFICES ASSUME n \notin S
                 PROVE  FALSE
    OBVIOUS
  <2>2. \A x \in S : x \in Nat /\ x <= n /\ x # n
    BY <1>0, <1>4, <2>1
  <2>3. PICK x \in S : TRUE
    OBVIOUS
  <2>4. x \in Nat /\ x <= n /\ x # n
    BY <2>2, <2>3
  <2>5. n - 1 \in Nat /\ n - 1 < n
    BY <1>4, <2>4
  <2>6. \A y \in S : y <= n - 1
    BY <1>4, <2>2
  <2>7. QED BY <1>2, <1>3, <1>4, <2>5, <2>6
<1> HIDE DEF Above
<1>6. \E x \in S : \A y \in S : x >= y
  BY <1>0, <1>4, <1>5
<1>7. Max(S) \in S /\ \A y \in S : Max(S) >= y
  BY <1>6 DEF Max
<1>8. QED BY <1>0, <1>7

LEMMA PullFacts ==
    PullInv =>
       /\ PullTypeOK /\ Writing /\ Increasing /\ Cursors
       /\ clock \in Nat /\ MaxClock \in Nat /\ MaxRows \in Nat /\ PageSize \in Nat \ {0}
       /\ rows \in Seq(0..MaxClock) /\ Len(rows) \in Nat /\ Len(rows) <= MaxRows /\ Ids = 1..Len(rows)
       /\ \A i \in Ids : rows[i] \in Nat /\ rows[i] \in 0..MaxClock /\ rows[i] <= clock
BY PullAssumption DEF PullInv, PullTypeOK, Ids

(* An answer brings every row up to its saved that is not here yet.       *)
LEMMA Answers ==
    ASSUME PullInv, InOrder, SecondIsOver, NEW c \in Nat, Passed(c, have)
    PROVE  /\ Answer(c) \in Page /\ Answer(c).ids \subseteq Ids
           /\ Passed(Answer(c).cursor, have \cup Answer(c).ids)
<1>0. /\ PullTypeOK /\ Increasing /\ clock \in Nat /\ MaxClock \in Nat /\ MaxRows \in Nat /\ PageSize \in Nat \ {0}
      /\ Len(rows) \in Nat /\ Len(rows) <= MaxRows /\ Ids = 1..Len(rows)
      /\ \A i \in Ids : rows[i] \in Nat /\ rows[i] \in 0..MaxClock /\ rows[i] < clock
  BY PullFacts DEF SecondIsOver
<1>1. Newer(c) \subseteq Ids /\ FirstPage(c) \subseteq Newer(c) /\ FirstPage(c) \subseteq 1..MaxRows
  BY <1>0 DEF Newer, FirstPage
<1>2. ASSUME NEW i \in FirstPage(c), NEW j \in Newer(c), j < i
      PROVE  j \in FirstPage(c)
  <2> DEFINE Before(k) == {l \in Newer(c) : Earlier(l, k)}
  <2>1. i \in Newer(c) /\ Cardinality(Before(i)) < PageSize
    BY <1>1 DEF FirstPage
  <2>2. rows[j] < rows[i] /\ rows[j] \in Nat /\ rows[i] \in Nat
    BY <1>0, <1>1, <1>2, <2>1 DEF Increasing
  <2>3. Before(j) \subseteq Before(i)
    <3>1. ASSUME NEW l \in Newer(c), Earlier(l, j)
          PROVE  Earlier(l, i)
      <4>1. rows[l] \in Nat
        BY <1>0, <1>1
      <4>2. QED BY <2>2, <3>1, <4>1 DEF Earlier
    <3>2. QED BY <3>1
  <2>4. IsFiniteSet(Before(i))
    <3>1. IsFiniteSet(1..Len(rows))
      BY <1>0, FS_Interval
    <3>2. Before(i) \subseteq 1..Len(rows)
      BY <1>0, <1>1
    <3>3. QED BY <3>1, <3>2, FS_Subset
  <2>5. /\ Cardinality(Before(j)) <= Cardinality(Before(i))
        /\ Cardinality(Before(j)) \in Nat /\ Cardinality(Before(i)) \in Nat
    <3>1. /\ Cardinality(Before(j)) <= Cardinality(Before(i))
          /\ Cardinality(Before(j)) \in Nat /\ Cardinality(Before(i)) \in Nat
      BY <2>3, <2>4, FS_Subset, FS_CardinalityType
    <3>2. QED BY <3>1
  <2>6. Cardinality(Before(j)) < PageSize
    BY <1>0, <2>1, <2>5
  <2>7. QED BY <2>6 DEF FirstPage
<1>3. CASE FirstPage(c) = {}
  BY <1>0, <1>3 DEF Answer, Page, Passed
<1>4. CASE FirstPage(c) # {}
  <2>1. PICK top : top = Max({rows[i] : i \in FirstPage(c)})
    OBVIOUS
  <2>2. PICK S : S = {rows[i] : i \in FirstPage(c)}
    OBVIOUS
  <2>3. S \in SUBSET (0..MaxClock) /\ S # {}
    BY <1>0, <1>1, <1>4, <2>2
  <2>4. top \in S /\ \A x \in S : x <= top
    BY <1>0, <2>1, <2>2, <2>3, Greatest
  <2>5. PICK i \in FirstPage(c) : rows[i] = top
    BY <2>2, <2>4
  <2>6. i \in Ids /\ top \in Nat /\ top < clock
    BY <1>0, <1>1, <2>5
  <2>7. ASSUME NEW j \in Ids, rows[j] <= top
        PROVE  j \in have \cup FirstPage(c)
    <3>1. ~(i < j)
      BY <1>0, <2>5, <2>6, <2>7 DEF Increasing
    <3>2. CASE rows[j] <= c
      BY <3>2 DEF Passed
    <3>3. CASE rows[j] > c
      <4>1. j \in Newer(c)
        BY <3>3 DEF Newer
      <4>2. j = i \/ j < i
        BY <1>0, <2>6, <3>1
      <4>3. QED BY <1>2, <2>5, <4>1, <4>2
    <3>4. QED BY <1>0, <3>2, <3>3
  <2>8. Answer(c).ids = FirstPage(c) /\ Answer(c).cursor = top
    BY <1>4, <2>1 DEF Answer
  <2>9. Answer(c) \in Page
    BY <1>1, <1>4, <2>1, <2>6 DEF Answer, Page
  <2>10. QED BY <1>1, <2>6, <2>7, <2>8, <2>9 DEF Passed
<1>5. QED BY <1>3, <1>4

-----------------------------------------------------------------------------
(* A step of the server: what the device has and asks for stays behind the *)
(* clock.                                                                  *)
LEMMA TickKeeps ==
    ASSUME PullInv, InOrder, Tick
    PROVE  PullInv'
<1>0. /\ PullTypeOK /\ Writing /\ Increasing /\ Cursors /\ clock \in Nat /\ MaxClock \in Nat
      /\ \A i \in Ids : rows[i] \in Nat /\ rows[i] <= clock
      /\ clock' = clock + 1 /\ clock < MaxClock /\ \A h \in Handlers : ~Busy(h)
      /\ UNCHANGED <<rows, handler, saved, have, running, page, stage, faults>>
  BY PullFacts DEF Tick, InOrder, OnServer
<1>1. PullTypeOK' /\ Writing' /\ Increasing'
  BY <1>0 DEF PullTypeOK, Writing, Busy, Increasing, Ids, Page
<1>3. saved \in Nat /\ \A p \in Pulls : running[p] \in Nat /\ (page[p] \in Page => page[p].cursor \in Nat)
  BY <1>0 DEF PullTypeOK, Page
<1>4. Cursors'
  <2>1. ASSUME NEW c \in Nat, NEW ids, Passed(c, ids)
        PROVE  c < clock + 1 /\ \A i \in Ids : rows[i] <= c => i \in ids
    BY <1>0, <2>1 DEF Passed
  <2>2. \A ids : \A c \in Nat : Passed(c, ids) => c < clock + 1 /\ \A i \in Ids : rows[i] <= c => i \in ids
    BY <2>1
  <2>3. QED BY <1>0, <1>3, <2>2 DEF Cursors, Passed, Ids
<1>5. \A i \in Ids' : rows'[i] <= clock'
  BY <1>0 DEF Ids
<1>6. QED BY <1>1, <1>4, <1>5 DEF PullInv

LEMMA PushKeeps ==
    ASSUME PullInv, InOrder, NEW h \in Handlers, NEW n \in 1..MaxBatch, PushBegins(h, n)
    PROVE  PullInv'
<1>0. /\ PullTypeOK /\ Writing /\ Increasing /\ Cursors /\ clock \in Nat /\ MaxRows \in Nat /\ Len(rows) \in Nat
      /\ \A i \in Ids : rows[i] \in Nat /\ rows[i] < clock
      /\ \A i \in Ids : rows[i] <= clock
      /\ \A g \in Handlers : ~Busy(g)
      /\ n = 1 /\ MaxBatch = 1
      /\ handler' = [handler EXCEPT ![h] = [began |-> clock, left |-> n]]
      /\ UNCHANGED <<clock, rows, saved, have, running, page, stage, faults>>
  BY PullFacts DEF PushBegins, InOrder, OnServer, SecondIsOver
<1>1. Len(rows) < MaxRows
  <2>1. {g \in Handlers : Busy(g)} = {}
    BY <1>0
  <2>2. Cardinality({g \in Handlers : Busy(g)}) = 0
    BY <2>1, FS_EmptySet
  <2>3. Len(rows) + n + MaxBatch * Cardinality({g \in Handlers : Busy(g)}) <= MaxRows
    BY DEF PushBegins
  <2>4. QED BY <1>0, <2>2, <2>3
<1>2. handler' \in [Handlers -> [began: 0..MaxClock, left: 0..MaxBatch]]
  BY <1>0, PullFacts DEF PullTypeOK
<1>3. PullTypeOK' /\ Increasing' /\ Cursors'
  BY <1>0, <1>2 DEF PullTypeOK, Increasing, Cursors, Passed, Ids, Page
<1>4. handler'[h] = [began |-> clock, left |-> 1] /\ \A g \in Handlers \ {h} : handler'[g] = handler[g]
  BY <1>0 DEF PullTypeOK
<1>5. \A g \in Handlers : Busy(g)' => g = h
  BY <1>0, <1>4 DEF Busy
<1>6. Writing'
  BY <1>0, <1>1, <1>4, <1>5 DEF Writing, Ids
<1>7. \A i \in Ids' : rows'[i] <= clock'
  BY <1>0 DEF Ids
<1>8. QED BY <1>3, <1>6, <1>7 DEF PullInv

LEMMA InsertKeeps ==
    ASSUME PullInv, InOrder, NEW h \in Handlers, Insert(h)
    PROVE  PullInv'
<1>0. /\ PullTypeOK /\ Writing /\ Increasing /\ Cursors /\ clock \in Nat /\ MaxRows \in Nat /\ Len(rows) \in Nat
      /\ clock \in 0..MaxClock /\ rows \in Seq(0..MaxClock) /\ Ids = 1..Len(rows)
      /\ handler \in [Handlers -> [began: 0..MaxClock, left: 0..MaxBatch]]
  BY SMTT(30), PullFacts, PullAssumption DEF PullTypeOK
<1>u. UNCHANGED <<clock, saved, have, running, page, stage, faults>>
  BY DEF Insert, OnServer
<1>1. /\ handler[h].began = clock /\ handler[h].left = 1 /\ Len(rows) < MaxRows
      /\ \A i \in Ids : rows[i] < clock
      /\ \A g \in Handlers \ {h} : ~Busy(g)
  BY <1>0 DEF Insert, Writing
<1>2. rows' = Append(rows, clock) /\ handler' = [handler EXCEPT ![h].left = handler[h].left - 1]
  BY <1>1 DEF Insert
<1>3. /\ rows' \in Seq(0..MaxClock) /\ Len(rows') = Len(rows) + 1 /\ Ids' = Ids \cup {Len(rows) + 1}
      /\ \A i \in Ids : rows'[i] = rows[i]
      /\ rows'[Len(rows) + 1] = clock
  BY <1>0, <1>2 DEF Ids
<1>4. handler' \in [Handlers -> [began: 0..MaxClock, left: 0..MaxBatch]] /\ \A g \in Handlers : ~Busy(g)'
  <2>1. handler'[h] = [handler[h] EXCEPT !.left = 0] /\ \A g \in Handlers \ {h} : handler'[g] = handler[g]
    BY <1>0, <1>1, <1>2
  <2>2. handler'[h].left = 0 /\ handler'[h] \in [began: 0..MaxClock, left: 0..MaxBatch]
    BY <1>0, <2>1, PullAssumption
  <2>3. handler' \in [Handlers -> [began: 0..MaxClock, left: 0..MaxBatch]]
    BY <1>0, <1>2, <2>1, <2>2
  <2>4. QED BY <1>1, <2>1, <2>2, <2>3 DEF Busy
<1>5. PullTypeOK' /\ Writing'
  <2>1. Len(rows') <= MaxRows /\ have' \subseteq Ids'
    BY <1>0, <1>1, <1>3, <1>u DEF PullTypeOK
  <2>2. QED BY <1>0, <1>3, <1>4, <1>u, <2>1 DEF PullTypeOK, Writing, Page
<1>6. Increasing'
  <2>1. ASSUME NEW i \in Ids', NEW j \in Ids', i < j
        PROVE  rows'[i] < rows'[j]
    <3>1. i \in Ids
      BY <1>0, <1>3, <2>1
    <3>2. CASE j \in Ids
      BY <1>0, <1>3, <2>1, <3>1, <3>2 DEF Increasing
    <3>3. CASE j = Len(rows) + 1
      BY <1>1, <1>3, <3>1, <3>3
    <3>4. QED BY <1>3, <3>2, <3>3
  <2>2. QED BY <2>1 DEF Increasing
<1>7. Cursors'
  <2>1. ASSUME NEW c \in Nat, NEW ids, Passed(c, ids)
        PROVE  Passed(c, ids)'
    <3>1. c < clock /\ \A i \in Ids : rows'[i] <= c => i \in ids
      BY <1>3, <2>1 DEF Passed
    <3>2. ~(rows'[Len(rows) + 1] <= c)
      BY <1>0, <1>3, <3>1
    <3>3. QED BY <1>3, <1>u, <3>1, <3>2 DEF Passed
  <2>2. Passed(saved, have)'
    <3>1. PICK c, ids : c = saved /\ ids = have
      OBVIOUS
    <3>2. c \in Nat /\ Passed(c, ids)
      BY <1>0, <3>1 DEF PullTypeOK, Cursors
    <3>3. Passed(c, ids)'
      BY <2>1, <3>2
    <3>4. QED BY <1>u, <3>1, <3>3 DEF Passed
  <2>3. ASSUME NEW p \in Pulls, stage[p] # "idle"
        PROVE  Passed(running[p], have)'
    <3>1. PICK c, ids : c = running[p] /\ ids = have
      OBVIOUS
    <3>2. c \in Nat /\ Passed(c, ids)
      <4>1. running[p] \in 0..MaxClock
        BY <1>0 DEF PullTypeOK
      <4>2. Passed(running[p], have)
        BY <1>0, <2>3 DEF Cursors
      <4>3. QED BY <3>1, <4>1, <4>2
    <3>3. Passed(c, ids)'
      BY <2>1, <3>2
    <3>4. QED BY <1>u, <3>1, <3>3 DEF Passed
  <2>4. ASSUME NEW p \in Pulls, stage[p] = "answer"
        PROVE  page[p] \in Page /\ page[p].ids \subseteq Ids' /\ Passed(page[p].cursor, have \cup page[p].ids)'
    <3>1. PICK c, ids : c = page[p].cursor /\ ids = have \cup page[p].ids
      OBVIOUS
    <3>2. c \in Nat /\ Passed(c, ids) /\ page[p] \in Page /\ page[p].ids \subseteq Ids
      BY <1>0, <2>4, <3>1 DEF Cursors, Page
    <3>3. Passed(c, ids)'
      BY <2>1, <3>2
    <3>4. QED BY <1>3, <1>u, <3>1, <3>2, <3>3 DEF Passed
  <2>5. QED BY <1>u, <2>2, <2>3, <2>4 DEF Cursors
<1>8. \A i \in Ids' : rows'[i] <= clock'
  BY SMTT(30), <1>0, <1>1, <1>3, <1>u, PullFacts
<1>9. QED BY <1>5, <1>6, <1>7, <1>8 DEF PullInv

-----------------------------------------------------------------------------
(* A step of the device.                                                   *)
LEMMA PullKeeps ==
    ASSUME PullInv, UNCHANGED <<clock, rows, handler>>, PullTypeOK', Cursors'
    PROVE  PullInv'
BY DEF PullInv, Writing, Busy, Increasing, Ids

LEMMA PullSteps ==
    ASSUME PullInv, InOrder, NEW p \in Pulls,
           StartPull(p) \/ Query(p) \/ Merge(p) \/ Save(p) \/ PullFails(p)
    PROVE  PullInv'
<1>0. /\ PullTypeOK /\ Cursors /\ MaxFaults \in Nat
      /\ stage \in [Pulls -> {"idle", "request", "answer", "save"}]
      /\ page \in [Pulls -> Page \cup {NoPage}] /\ running \in [Pulls -> 0..MaxClock]
      /\ clock \in 1..MaxClock /\ MaxClock \in Nat /\ clock \in Nat /\ faults \in 0..MaxFaults
      /\ saved \in 0..MaxClock /\ have \subseteq Ids
  BY PullFacts, PullAssumption DEF PullTypeOK
<1>u. UNCHANGED <<clock, rows, handler>>
  BY DEF StartPull, Query, Merge, Save, PullFails, OnDevice
<1>1. CASE StartPull(p)
  <2>1. /\ running' = [running EXCEPT ![p] = saved] /\ stage' = [stage EXCEPT ![p] = "request"]
        /\ UNCHANGED <<saved, have, page, faults>>
    BY <1>1 DEF StartPull
  <2>2. PullTypeOK' /\ Cursors'
    BY <1>0, <1>u, <2>1 DEF PullTypeOK, Cursors, Passed, Ids
  <2>3. QED BY <1>u, <2>2, PullKeeps
<1>2. CASE Query(p)
  <2>1. PICK a : a = Answer(running[p])
    OBVIOUS
  <2>2. /\ page' = [page EXCEPT ![p] = a] /\ stage' = [stage EXCEPT ![p] = "answer"] /\ stage[p] = "request"
        /\ UNCHANGED <<saved, have, running, faults>> /\ SecondIsOver
    BY <1>2, <2>1 DEF Query, InOrder
  <2>3. running[p] \in Nat /\ Passed(running[p], have)
    <3>1. running[p] \in 0..MaxClock
      BY <1>0
    <3>2. stage[p] # "idle"
      BY <2>2
    <3>3. Passed(running[p], have)
      BY <1>0, <3>2 DEF Cursors
    <3>4. QED BY <3>1, <3>3
  <2>4. a \in Page /\ a.ids \subseteq Ids /\ Passed(a.cursor, have \cup a.ids)
    BY <2>1, <2>2, <2>3, Answers
  <2>5. PullTypeOK'
    BY <1>0, <1>u, <2>2, <2>4 DEF PullTypeOK, Ids
  <2>6. Cursors'
    BY <1>0, <1>u, <2>2, <2>4 DEF Cursors, Passed, Ids
  <2>7. QED BY <1>u, <2>5, <2>6, PullKeeps
<1>3. CASE Merge(p)
  <2>1. PICK a : a = page[p]
    OBVIOUS
  <2>2. /\ have' = have \cup a.ids /\ running' = [running EXCEPT ![p] = a.cursor]
        /\ stage' = [stage EXCEPT ![p] = IF a.hasMore THEN "request" ELSE "save"]
        /\ page' = [page EXCEPT ![p] = NoPage] /\ UNCHANGED <<saved, faults>> /\ stage[p] = "answer"
    BY <1>3, <2>1 DEF Merge
  <2>3. a \in Page /\ a.ids \subseteq Ids /\ Passed(a.cursor, have \cup a.ids) /\ a.cursor \in Nat
    BY <1>0, <2>1, <2>2 DEF Cursors, Page
  <2>4. stage'[p] \in {"request", "save"} /\ \A q \in Pulls \ {p} : stage'[q] = stage[q]
    BY <1>0, <2>2
  <2>5. a.cursor \in 0..MaxClock
    BY <1>0, <2>3 DEF Passed
  <2>6. stage' \in [Pulls -> {"idle", "request", "answer", "save"}]
    BY <1>0, <2>2
  <2>7. PullTypeOK'
    BY <1>0, <1>u, <2>2, <2>3, <2>5, <2>6 DEF PullTypeOK, Ids
  <2>8. /\ Passed(saved, have')
        /\ \A q \in Pulls : /\ stage[q] # "idle" => Passed(running[q], have')
                            /\ stage[q] = "answer" => Passed(page[q].cursor, have' \cup page[q].ids)
    BY <1>0, <2>2 DEF Cursors, Passed
  <2>9. Cursors'
    BY <1>0, <1>u, <2>2, <2>3, <2>4, <2>8 DEF Cursors, Passed, Ids
  <2>10. QED BY <1>u, <2>7, <2>9, PullKeeps
<1>4. CASE Save(p)
  <2>1. /\ saved' = running[p] /\ stage' = [stage EXCEPT ![p] = "idle"] /\ stage[p] = "save"
        /\ UNCHANGED <<have, running, page, faults>>
    BY <1>4 DEF Save
  <2>2. PullTypeOK' /\ Cursors'
    BY <1>0, <1>u, <2>1 DEF PullTypeOK, Cursors, Passed, Ids
  <2>3. QED BY <1>u, <2>2, PullKeeps
<1>5. CASE PullFails(p)
  <2>1. /\ stage' = [stage EXCEPT ![p] = "idle"] /\ page' = [page EXCEPT ![p] = NoPage]
        /\ faults' = faults + 1 /\ faults < MaxFaults /\ UNCHANGED <<saved, have, running>>
    BY <1>5 DEF PullFails
  <2>2. PullTypeOK' /\ Cursors'
    BY <1>0, <1>u, <2>1 DEF PullTypeOK, Cursors, Passed, Ids
  <2>3. QED BY <1>u, <2>2, PullKeeps
<1>6. QED BY <1>1, <1>2, <1>3, <1>4, <1>5

-----------------------------------------------------------------------------
(* A row that the saved saved has passed will not be asked for again, and *)
(* the device has it: syncPull and its cursors, the pull handler of        *)
(* sync.ts, under the order of stamps that InOrder states.                 *)
THEOREM NothingBehind ==
    ASSUME InOrder
    PROVE  PullSpec => []NothingBehindCursor
<1>1. PullInit => PullInv
  <2> SUFFICES ASSUME PullInit
               PROVE  PullInv
    OBVIOUS
  <2>1. Ids = {} /\ Len(rows) = 0 /\ rows \in Seq(0..MaxClock)
    BY DEF PullInit, Ids
  <2>2. PullTypeOK
    BY <2>1, PullAssumption DEF PullInit, PullTypeOK
  <2>3. Writing /\ Increasing /\ Cursors
    BY <2>1 DEF PullInit, Writing, Busy, Increasing, Cursors, Passed
  <2>4. QED BY <2>1, <2>2, <2>3 DEF PullInv
<1>2. PullInv /\ [PullNext]_(pullVars) => PullInv'
  <2> SUFFICES ASSUME PullInv, [PullNext]_(pullVars)
               PROVE  PullInv'
    OBVIOUS
  <2>1. CASE Tick
    BY <2>1, TickKeeps
  <2>2. ASSUME NEW h \in Handlers, (\E n \in 1..MaxBatch : PushBegins(h, n)) \/ Insert(h)
        PROVE  PullInv'
    BY <2>2, PushKeeps, InsertKeeps
  <2>3. ASSUME NEW p \in Pulls, StartPull(p) \/ Query(p) \/ Merge(p) \/ Save(p) \/ PullFails(p)
        PROVE  PullInv'
    BY <2>3, PullSteps
  <2>4. CASE UNCHANGED pullVars
    BY <2>4 DEF pullVars, PullInv, PullTypeOK, Writing, Busy, Increasing, Cursors, Passed, Ids, Page
  <2>5. QED BY <2>1, <2>2, <2>3, <2>4 DEF PullNext
<1>3. PullInv => NothingBehindCursor
  BY DEF PullInv, NothingBehindCursor, Cursors, Passed
<1>4. QED BY <1>1, <1>2, <1>3, PTL DEF PullSpec
=============================================================================

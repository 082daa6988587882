----------------------------- MODULE AuthSessions -----------------------------
(***************************************************************************)
(* Log-in and sessions on the server: POST /api/auth/token and             *)
(* /api/auth/refresh with the limiter of failed attempts in front of them, *)
(* the registry of devices, and the superadmin who blocks devices and      *)
(* suspends accounts.  Handlers run beside one another, one database       *)
(* statement at a time, and may end between two statements.                *)
(*                                                                         *)
(* One account of one tenant, used from several browsers.  The repository  *)
(* has no caller of /refresh: the browsers' side of it is external, and    *)
(* keeps what the last answer gave it.                                     *)
(*                                                                         *)
(* Bounds, of each site: the ticks until till, the sessions (logins) after  *)
(* which nobody logs in any more; and MaxRows devices.                     *)
(***************************************************************************)
EXTENDS Naturals, Sequences, FiniteSets

CONSTANTS
    Browsers, Slots,      \* browsers; requests under way at a time
    MaxSessions,          \* MAX_SESSIONS_PER_ACCOUNT
    MaxAttempts, Window,  \* of the limiter
    Duration,             \* of a session
    Blocks,               \* durations of a block
    Sites,                \* what may happen at the places looked at
    MaxRows, None

Site == [mistakes: BOOLEAN, refreshes: BOOLEAN, tabs: BOOLEAN, loses: BOOLEAN, admin: SUBSET {"block", "status"},
         browsers: SUBSET Browsers, till: Nat, logins: Nat]

(* Assumed of the constants by the module that instantiates this one.      *)
AuthBounds ==
    /\ MaxSessions \in Nat \ {0} /\ MaxAttempts \in Nat \ {0} /\ Window \in Nat \ {0} /\ Duration \in Nat \ {0}
    /\ Blocks \subseteq Nat \ {0} /\ Sites \subseteq Site /\ Sites # {}
    /\ MaxRows \in Nat
    /\ IsFiniteSet(Slots) /\ IsFiniteSet(Browsers)

VARIABLES
    site, now,
    account, tenant,    \* their statuses
    devices, sessions,  \* tables; a row's number is its identifier
    log, records,       \* attemptLog, and the objects it may refer to
    req,                \* req[s]: a handler and what it has read
    held, access,       \* a browser's session and token; its token's device
    overlap,            \* history: most createSessions at a time
    alone, heard,       \* history: never two requests; no answer was lost
    before,             \* history: sessions there were when r was blocked
    failures, crowded   \* history: failures since a success; attempts met

tables  == <<account, tenant, devices, sessions>>
limiter == <<log, records>>
browser == <<held, access>>
history == <<overlap, alone, heard, before, failures, crowded>>
vars == <<site, now, tables, limiter, req, browser, history>>

Records   == 1 .. Cardinality(Slots) + 1
NoRequest == [at |-> "idle", op |-> "none", by |-> None, right |-> TRUE, when |-> 0, rec |-> 0, row |-> 0,
              evict |-> {}, session |-> 0, token |-> 0, ok |-> FALSE]
LoginSteps   == {"lookup", "register", "sessions", "evict", "insert"}
RefreshSteps == {"select", "punish", "rotate", "account"}

Account == {"active", "suspended"}
Device  == [browser: Browsers, until: Nat]
Session == [row: Nat, created: Nat, expires: Nat, token: Nat, revoked: BOOLEAN]

TypeOK ==
    /\ site \in Sites /\ now \in 0..site.till
    /\ account \in Account /\ tenant \in {"active", "inactive"}
    /\ devices \in Seq(Device)
    /\ sessions \in Seq(Session)
    /\ \A i \in DOMAIN sessions : sessions[i].row \in DOMAIN devices /\ sessions[i].created <= now
    /\ Len(sessions) <= site.logins + Cardinality(Slots)
    /\ log \in Records \cup {0} /\ records \in [Records -> Seq(0..now)]
    /\ \A r \in Records : Len(records[r]) < MaxAttempts + Cardinality(Slots)
    /\ \A s \in Slots :
         /\ req[s].at \in LoginSteps \cup RefreshSteps \cup {"idle", "answer"}
         /\ req[s].by \in Browsers \cup {None} /\ req[s].rec \in Records \cup {0}
         /\ req[s].row \in 0..Len(devices) /\ req[s].session \in 0..Len(sessions)
         /\ req[s].evict \subseteq DOMAIN sessions
    /\ held \in [Browsers -> [session: DOMAIN sessions, token: Nat] \cup {None}]
    /\ access \in [Browsers -> 0..Len(devices)]

Init ==
    /\ site \in Sites /\ now = 0
    /\ account = "active" /\ tenant = "active" /\ devices = <<>> /\ sessions = <<>>
    /\ log = 0 /\ records = [r \in Records |-> <<>>]
    /\ req = [s \in Slots |-> NoRequest]
    /\ held = [b \in Browsers |-> None] /\ access = [b \in Browsers |-> 0]
    /\ overlap = 1 /\ alone = [b \in Browsers |-> TRUE] /\ heard = [b \in Browsers |-> TRUE]
    /\ before = [r \in 1..MaxRows |-> 0] /\ failures = <<>> /\ crowded = FALSE

Live(i)    == ~sessions[i].revoked /\ sessions[i].expires > now
LiveOf(r)  == {i \in DOMAIN sessions : sessions[i].row = r /\ Live(i)}
Lives      == {i \in DOMAIN sessions : Live(i)}
RowsOf(b)  == {r \in DOMAIN devices : devices[r].browser = b}
Blocked(r) == devices[r].until > now
Busy(b)    == \E s \in Slots : req[s].by = b

(* revokedAt is set, and never cleared.                                     *)
Revoke(S) == [i \in DOMAIN sessions |-> IF i \in S THEN [sessions[i] EXCEPT !.revoked = TRUE] ELSE sessions[i]]

-----------------------------------------------------------------------------
(* The limiter.                                                            *)

(* pruneOld: the times whose window is not over.                           *)
PruneOld(times, time) ==
    LET kept[i \in 0 .. Len(times)] ==
          IF i = 0 THEN <<>>
          ELSE IF times[i] + Window > time THEN Append(kept[i - 1], times[i]) ELSE kept[i - 1]
    IN kept[Len(times)]

Pruned(times) == PruneOld(times, now)
Logged == IF log = 0 THEN <<>> ELSE Pruned(records[log])

(* Objects that neither the map nor a handler refers to are blank.          *)
Tidy(rs, l, q) == [r \in Records |-> IF r = l \/ (\E s \in Slots : q[s].rec = r) THEN rs[r] ELSE <<>>]
FreeRecord == CHOOSE r \in Records : r # log /\ \A s \in Slots : req[s].rec # r

(* A browser begins a request.                                              *)
Notes(b) ==
    /\ site.tabs \/ ~Busy(b)
    /\ alone' = [alone EXCEPT ![b] = @ /\ ~Busy(b)]

(* authRateLimit refuses.                                                   *)
TooMany(b) ==
    /\ b \in site.browsers /\ Len(Logged) >= MaxAttempts
    /\ records' = [records EXCEPT ![log] = Logged]
    /\ UNCHANGED <<site, now, tables, log, req, browser, history>>

(* It lets the request through, holding the record it has found or made.    *)
(* A record that was found is shared, and is pruned in its place.           *)
ArriveLogin(s, b, right) ==
    /\ b \in site.browsers /\ req[s].at = "idle" /\ Len(Logged) < MaxAttempts
    /\ right \/ site.mistakes
    /\ Len(sessions) < site.logins
    /\ Notes(b)
    /\ LET r == IF log = 0 THEN FreeRecord ELSE log IN
         /\ records' = [records EXCEPT ![r] = Logged]
         /\ req' = [req EXCEPT ![s] = [NoRequest EXCEPT !.at = "lookup", !.op = "login", !.by = b, !.right = right,
                                                        !.when = now, !.rec = r]]
    /\ crowded' = (crowded \/ \E o \in Slots : req[o].rec # 0)
    /\ UNCHANGED <<site, now, tables, log, browser, overlap, heard, before, failures>>

Ends(s) == req' = [req EXCEPT ![s] = NoRequest]

-----------------------------------------------------------------------------
(* POST /api/auth/token.                                                   *)

(* registerDevice's select, which takes whichever row comes first.          *)
RowsFound(b) == RowsOf(b)

(* Tenant, account and password, and then the device.  Nothing that was     *)
(* read of the account is read again or changes what follows.               *)
LookUp(s) ==
    /\ req[s].at = "lookup"
    /\ LET b == req[s].by
           refused == ~req[s].right \/ account # "active" \/ tenant # "active"
       IN \/ /\ refused
             /\ Ends(s) /\ log' = req[s].rec
             /\ records' = Tidy([records EXCEPT ![req[s].rec] = Append(@, req[s].when)], log', req')
             /\ failures' = Append(Pruned(failures), req[s].when)
          \/ /\ ~refused /\ UNCHANGED <<limiter, failures>>
             /\ IF RowsFound(b) = {}
                THEN /\ Len(devices) < MaxRows
                     /\ req' = [req EXCEPT ![s].at = "register"]
                ELSE \E r \in RowsFound(b) : req' = [req EXCEPT ![s].at = "sessions", ![s].row = r]
    /\ UNCHANGED <<site, now, tables, browser, overlap, alone, heard, before, crowded>>

(* registerDevice's insert.                                                 *)
Register(s) ==
    /\ req[s].at = "register" /\ Len(devices) < MaxRows
    /\ devices' = Append(devices, [browser |-> req[s].by, until |-> 0])
    /\ req' = [req EXCEPT ![s].at = "sessions", ![s].row = Len(devices) + 1]
    /\ UNCHANGED <<site, now, account, tenant, sessions, limiter, browser, history>>

(* Mutant: the room for the session to come is not made.                    *)
ExcessOffByOne(n) == IF n >= MaxSessions THEN n - MaxSessions ELSE 0

Excess(n) == IF n >= MaxSessions THEN n - MaxSessions + 1 ELSE 0

(* createSession's select.  Which of several sessions of one second count   *)
(* as oldest is the database's choice.                                      *)
SelectSessions(s) ==
    /\ req[s].at = "sessions"
    /\ \E E \in SUBSET Lives :
         /\ Cardinality(E) = Excess(Cardinality(Lives))
         /\ \A i \in E, j \in Lives \ E : sessions[i].created <= sessions[j].created
         /\ req' = [req EXCEPT ![s].at = IF E = {} THEN "insert" ELSE "evict", ![s].evict = E, ![s].when = now]
    /\ LET creating == 1 + Cardinality({o \in Slots : req[o].at \in {"evict", "insert"}})
       IN overlap' = IF creating > overlap THEN creating ELSE overlap
    /\ UNCHANGED <<site, now, tables, limiter, browser, alone, heard, before, failures, crowded>>

(* One UPDATE for each of the oldest.                                       *)
Evict(s) ==
    /\ req[s].at = "evict"
    /\ \E i \in req[s].evict :
         /\ sessions' = Revoke({i})
         /\ req' = [req EXCEPT ![s].evict = @ \ {i}, ![s].at = IF req[s].evict = {i} THEN "insert" ELSE "evict"]
    /\ UNCHANGED <<site, now, account, tenant, devices, limiter, browser, history>>

(* authRateLimit on a status of 200.                                        *)
LogAfterSuccess == 0

(* createSession's insert, and the rest of the handler.                     *)
Insert(s) ==
    /\ req[s].at = "insert"
    /\ sessions' = Append(sessions, [row |-> req[s].row, created |-> req[s].when,
                                     expires |-> req[s].when + Duration, token |-> 0, revoked |-> FALSE])
    /\ req' = [req EXCEPT ![s].at = "answer", ![s].session = Len(sessions) + 1, ![s].token = 0, ![s].ok = TRUE,
                          ![s].rec = 0]
    /\ log' = LogAfterSuccess /\ records' = Tidy(records, log', req') /\ failures' = <<>>
    /\ UNCHANGED <<site, now, account, tenant, devices, browser, overlap, alone, heard, before, crowded>>

-----------------------------------------------------------------------------
(* POST /api/auth/refresh.                                                 *)

(* deviceBlockCheck, which looks at the access token that comes along.      *)
ArriveRefresh(s, b) ==
    /\ site.refreshes /\ b \in site.browsers /\ req[s].at = "idle" /\ held[b] # None
    /\ Notes(b)
    /\ req' = [req EXCEPT ![s] = [NoRequest EXCEPT
                 !.at = IF access[b] # 0 /\ Blocked(access[b]) THEN "answer" ELSE "select",
                 !.op = "refresh", !.by = b, !.session = held[b].session, !.token = held[b].token]]
    /\ UNCHANGED <<site, now, tables, limiter, browser, overlap, heard, before, failures, crowded>>

(* refreshSession's select and its checks, in their order.                  *)
Select(s) ==
    /\ req[s].at = "select"
    /\ LET row == sessions[req[s].session]
           next == IF row.revoked THEN "punish"
                   ELSE IF row.expires <= now THEN "answer"
                   ELSE IF row.token # req[s].token THEN "punish" ELSE "rotate"
       IN req' = [req EXCEPT ![s].at = next, ![s].row = row.row]
    /\ UNCHANGED <<site, now, tables, limiter, browser, history>>

(* revokeAllDeviceSessions.                                                 *)
Punish(s) ==
    /\ req[s].at = "punish"
    /\ sessions' = Revoke(LiveOf(req[s].row))
    /\ req' = [req EXCEPT ![s].at = "answer"]
    /\ UNCHANGED <<site, now, account, tenant, devices, limiter, browser, history>>

(* A token nobody has: the random tokens of the code are never alike.       *)
Fresh(i) == CHOOSE n \in 0 .. Cardinality(Slots) + Cardinality(Browsers) + 1 :
    /\ sessions[i].token # n
    /\ \A b \in Browsers : held[b] # None => held[b].session # i \/ held[b].token # n
    /\ \A s \in Slots : req[s].session # i \/ req[s].token # n

(* Mutants: the row is written as it was read, before it was revoked; the   *)
(* new token is not stored.                                                 *)
RotatedWhole(i, n) == [sessions EXCEPT ![i].token = n, ![i].revoked = FALSE]
RotatedNot(i, n)   == sessions

Rotated(i, n) == [sessions EXCEPT ![i].token = n]

(* refreshSession's update.                                                 *)
Rotate(s) ==
    /\ req[s].at = "rotate"
    /\ LET i == req[s].session
           n == Fresh(i)
       IN /\ sessions' = Rotated(i, n)
          /\ req' = [req EXCEPT ![s].at = "account", ![s].token = n]
    /\ UNCHANGED <<site, now, account, tenant, devices, limiter, browser, history>>

(* The account is looked at after the token was replaced.                   *)
CheckAccount(s) ==
    /\ req[s].at = "account"
    /\ req' = [req EXCEPT ![s].at = "answer", ![s].ok = account = "active"]
    /\ UNCHANGED <<site, now, tables, limiter, browser, history>>

-----------------------------------------------------------------------------
(* A browser takes what it is given, and logs in again when it is refused.  *)
Deliver(s) ==
    /\ req[s].at = "answer"
    /\ LET b == req[s].by IN
         /\ held' = [held EXCEPT ![b] = IF req[s].ok THEN [session |-> req[s].session, token |-> req[s].token] ELSE None]
         /\ access' = [access EXCEPT ![b] = IF req[s].ok THEN req[s].row ELSE @]
    /\ Ends(s)
    /\ UNCHANGED <<site, now, tables, limiter, history>>

(* The handler ends early, or its answer is lost.                           *)
Lose(s) ==
    /\ site.loses /\ req[s].at # "idle"
    /\ heard' = [heard EXCEPT ![req[s].by] = @ /\ req[s].op = "login"]
    /\ Ends(s)
    /\ records' = Tidy(records, log, req')
    /\ UNCHANGED <<site, now, tables, log, browser, overlap, alone, before, failures, crowded>>

-----------------------------------------------------------------------------
(* The superadmin.                                                         *)

BlockedSessions(r) == Revoke(LiveOf(r))

(* POST /devices/:deviceId/block: one transaction.                          *)
Block(r, d) ==
    /\ "block" \in site.admin
    /\ devices' = [devices EXCEPT ![r].until = now + d]
    /\ sessions' = BlockedSessions(r)
    /\ before' = [before EXCEPT ![r] = Len(sessions)]
    /\ UNCHANGED <<site, now, account, tenant, limiter, req, browser, overlap, alone, heard, failures, crowded>>

(* POST /devices/:deviceId/unblock.                                         *)
Unblock(r) ==
    /\ "block" \in site.admin /\ devices[r].until # 0
    /\ devices' = [devices EXCEPT ![r].until = 0]
    /\ UNCHANGED <<site, now, account, tenant, sessions, limiter, req, browser, history>>

SetAccount(status) ==
    /\ "status" \in site.admin /\ account # status
    /\ account' = status
    /\ UNCHANGED <<site, now, tenant, devices, sessions, limiter, req, browser, history>>

SetTenant(status) ==
    /\ "status" \in site.admin /\ tenant # status
    /\ tenant' = status
    /\ UNCHANGED <<site, now, account, devices, sessions, limiter, req, browser, history>>

Tick ==
    /\ now < site.till /\ now' = now + 1
    /\ UNCHANGED <<site, tables, limiter, req, browser, history>>

Next ==
    \/ \E s \in Slots, b \in Browsers : ArriveRefresh(s, b) \/ \E right \in BOOLEAN : ArriveLogin(s, b, right)
    \/ \E b \in Browsers : TooMany(b)
    \/ \E s \in Slots : LookUp(s) \/ Register(s) \/ SelectSessions(s) \/ Evict(s) \/ Insert(s)
    \/ \E s \in Slots : Select(s) \/ Punish(s) \/ Rotate(s) \/ CheckAccount(s) \/ Deliver(s) \/ Lose(s)
    \/ \E r \in DOMAIN devices : Unblock(r) \/ \E d \in Blocks : Block(r, d)
    \/ \E status \in {"active", "suspended"} : SetAccount(status)
    \/ \E status \in {"active", "inactive"} : SetTenant(status)
    \/ Tick

Spec == Init /\ [][Next]_vars

-----------------------------------------------------------------------------
(* createSession keeps the live sessions of an account within its limit.    *)
(* Its three statements are not one: with k log-ins creating a session at   *)
(* the same time the limit is passed by k - 1 at most.                      *)
SessionsWithinLimit == Cardinality(Lives) <= MaxSessions + overlap - 1

(* A session that was there when its device was blocked does not come back  *)
(* to life, whatever refresh was under way and whenever the block ends.     *)
BlockEndsSessions == \A i \in DOMAIN sessions : i <= before[sessions[i].row] => ~Live(i)

(* A block reaches the browser: unless two of its requests have met, every  *)
(* token it holds or is about to get is one for the blocked row, so that    *)
(* deviceBlockCheck refuses it, and logging in anew does not help.          *)
BlockReachesBrowser ==
    \A b \in Browsers : alone[b] =>
      \A r \in RowsOf(b) : Blocked(r) =>
        /\ access[b] \in {0, r}
        /\ \A s \in Slots : req[s].by = b /\ req[s].op = "login" => req[s].row \in {0, r}

(* A device block holds, on the server and in the browser (and the state    *)
(* is well typed).                                                          *)
BlockHolds == TypeOK /\ BlockEndsSessions /\ BlockReachesBrowser

(* refreshSession takes a token that is not the current one for a stolen    *)
(* one and ends all sessions of the device: a false alarm, if the browser   *)
(* makes one request at a time and hears every answer.                      *)
FalseAlarm(s) ==
    /\ req[s].at = "select" /\ req'[s].at = "punish" /\ ~sessions[req[s].session].revoked
    /\ alone[req[s].by] /\ heard[req[s].by]

(* While attempts do not meet, the limiter counts the failures since the    *)
(* last success that are in its window, and nothing else.                   *)
FailuresAreCounted == ~crowded => Logged = Pruned(failures)

(* The two limits of a log-in hold as far as its statements allow.          *)
LimitsHold == SessionsWithinLimit /\ FailuresAreCounted
=============================================================================

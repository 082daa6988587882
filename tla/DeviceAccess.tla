----------------------------- MODULE DeviceAccess -----------------------------
(***************************************************************************)
(* One browser of one device: logging in with or without the server, the   *)
(* tenant context that opens a page, the page's session grant and its      *)
(* renewal, and what the browser does when the server says that the device *)
(* is blocked.  Requests, timers and the statements of a log-in interleave.*)
(*                                                                         *)
(* Times are what is left until they come, in ticks, so that time has no   *)
(* bound.  A timer that has run out may fire late.  Two assumptions on     *)
(* speed: the two seconds before the redirect of a blocked device are      *)
(* enough to delete its contexts, and a grant arrives before it runs out.  *)
(*                                                                         *)
(* The hook of a page that is left is followed only as far as the grant    *)
(* that a late answer still puts in the cache; and one request for a grant *)
(* is under way at a time.                                                 *)
(***************************************************************************)
EXTENDS Naturals, Sequences, FiniteSets

CONSTANTS
    Tenants,
    FetchSlots, GrantSlot,     \* requests under way; the one for grants
    Cap,                  \* of the unblock timer, 24 hours
    TokenLife,            \* of an access token, one hour
    GrantLife, LocalLife, \* of a server's grant, and of a page's own
    Buffer,               \* REFRESH_BUFFER_SECONDS
    MaxDelay,             \* setTimeout's: what is longer fires at once
    Sites, None

Site == [tenants: SUBSET Tenants, slots: SUBSET FetchSlots, offline: BOOLEAN, loses: BOOLEAN, bare: BOOLEAN,
         device: BOOLEAN, cards: BOOLEAN, reloads: BOOLEAN, blocks: SUBSET Nat]

ASSUME AccessAssumption ==
    /\ Cap \in Nat /\ TokenLife \in Nat /\ GrantLife \in Nat /\ LocalLife \in Nat /\ Buffer \in Nat /\ MaxDelay \in Nat
    /\ GrantSlot \in FetchSlots /\ Sites \subseteq Site /\ Sites # {}
    /\ IsFiniteSet(Tenants) /\ None \notin Nat

VARIABLES
    site,
    online,          \* navigator.onLine
    until,           \* the server's blockedUntil
    contexts,        \* tenantContext, the last written last
    known,           \* tenants whose credentials are cached
    token,           \* access token
    view, login, pending,
    block, timer,    \* _blockState, _unblockTimer
    toasted, redirect,
    req,             \* apiFetch calls
    grantHook, grant, grantTimer, cache,   \* useSessionGrant
    told, late, capped  \* history: what is left of the last block told; two
                        \* answers met; one was over Cap

server  == <<site, online, until>>
user    == <<view, login, pending>>
blocked == <<block, timer, toasted, redirect>>
grants  == <<grantHook, grant, grantTimer, cache>>
history == <<told, late, capped>>
accessVars == <<server, contexts, known, token, user, blocked, req, grants, history>>

Accounts == {"own", "scout"}
PageRoles    == {"admin", "terminal", "scout"}
Contexts == [tenant: Tenants, account: Accounts, role: PageRoles, station: BOOLEAN]
Grants   == [from: {"server", "local"}, left: Nat]
Tokens   == [tenant: Tenants, left: 0..TokenLife]

NoPage    == [at |-> "boot", tenant |-> None, account |-> None, role |-> None]
NoBlock   == [on |-> FALSE, left |-> 0]
NoHook    == [at |-> "idle", slot |-> None, cached |-> None]
NoRequest == [at |-> "idle", kind |-> None, tenant |-> None, account |-> None, token |-> None, answer |-> None,
              left |-> 0]
Idle      == [at |-> "idle", tenant |-> None]

Views   == [at: {"boot", "login", "opening", "open"}, tenant: Tenants \cup {None}, account: Accounts \cup {None},
            role: PageRoles \cup {None}]
Logins  == [at: {"idle", "silent", "server", "setup", "left"}, tenant: Tenants \cup {None}]
Fetches == [at: {"idle", "sent", "answered", "clearing", "scheduling"}, kind: {"grant", "scout", "sync", "bare", None},
            tenant: Tenants \cup {None}, account: Accounts \cup {None}, token: Tokens \cup {None},
            answer: {"ok", "blocked", "refused", "failed", None}, left: Nat]
GrantHooks == [at: {"idle", "read", "send", "fetch", "failed"}, slot: FetchSlots \cup {None}, cached: Grants \cup {None}]

ContextsOK ==
    /\ contexts \in Seq(Contexts) /\ Len(contexts) <= Cardinality(Tenants)
    /\ \A i, j \in DOMAIN contexts : contexts[i].tenant = contexts[j].tenant => i = j

LoginOK ==
    /\ known \subseteq Tenants /\ token \in Tokens \cup {None} /\ pending \in Tenants \cup {None}
    /\ login \in Logins /\ (login.at # "idle" => login.tenant \in Tenants)

PageOK ==
    /\ view \in Views
    /\ IF view.at \in {"boot", "login"} THEN view = [NoPage EXCEPT !.at = view.at]
       ELSE view.tenant \in Tenants /\ view.account \in Accounts /\ view.role \in PageRoles
    /\ grantHook \in GrantHooks /\ grant \in Grants \cup {None} /\ grantTimer \in 0..MaxDelay \cup {None}
    /\ grantHook.at # "idle" \/ grantTimer # None => view.at = "open"

BlockOK ==
    /\ block \in [on: BOOLEAN, left: Nat] /\ (block.on \/ block = NoBlock)
    /\ timer \in 0..Cap \cup {None} /\ toasted \in BOOLEAN /\ redirect \in BOOLEAN

AccessTypeOK ==
    /\ site \in Sites /\ online \in BOOLEAN /\ until \in Nat
    /\ ContextsOK /\ LoginOK /\ PageOK /\ BlockOK
    /\ req \in [FetchSlots -> Fetches] /\ cache \in [Tenants \X Accounts -> Grants \cup {None}]
    /\ told \in Nat /\ late \in BOOLEAN /\ capped \in BOOLEAN

AccessInit ==
    /\ site \in Sites /\ online = TRUE /\ until = 0
    /\ contexts = <<>> /\ known = {} /\ token = None
    /\ view = NoPage /\ login = Idle /\ pending = None
    /\ block = NoBlock /\ timer = None /\ toasted = FALSE /\ redirect = FALSE
    /\ req = [s \in FetchSlots |-> NoRequest]
    /\ grantHook = NoHook /\ grant = None /\ grantTimer = None /\ cache = [k \in Tenants \X Accounts |-> None]
    /\ told = 0 /\ late = FALSE /\ capped = FALSE

LeastOf(a, b) == IF a < b THEN a ELSE b
Less(n) == IF n = 0 THEN 0 ELSE n - 1

HasContext(t) == \E i \in DOMAIN contexts : contexts[i].tenant = t
Where(t)      == CHOOSE i \in DOMAIN contexts : contexts[i].tenant = t
Without(t)    == IF HasContext(t) THEN SubSeq(contexts, 1, Where(t) - 1) \o SubSeq(contexts, Where(t) + 1, Len(contexts))
                 ELSE contexts
Put(t, a, r)  == Append(Without(t), [tenant |-> t, account |-> a, role |-> r, station |-> r = "admin"])

Valid(g) == g # None /\ (g.left > 0 \/ ~online)

-----------------------------------------------------------------------------
(* Pages.                                                                  *)

(* A page is opened at its address, or left, and its hook with it.          *)
GoesTo(p) ==
    /\ view' = p
    /\ grantHook' = NoHook /\ grant' = None /\ grantTimer' = None

(* navigate("/"): the start page, if it is there already, does nothing.     *)
Home == IF view.at = "login" THEN UNCHANGED <<view, grantHook, grant, grantTimer>> ELSE GoesTo(NoPage)

Address(t, a, r) == [at |-> "opening", tenant |-> t, account |-> a, role |-> r]

(* detectMode: a device's role comes first, and then the latest context.    *)
Boot ==
    /\ view.at = "boot"
    /\ IF contexts = <<>>
       THEN view' = [view EXCEPT !.at = "login"]
       ELSE LET fixed  == {i \in DOMAIN contexts : contexts[i].role # "admin"}
                choice == IF fixed # {} THEN fixed ELSE {Len(contexts)}
            IN \E i \in choice : view' = Address(contexts[i].tenant, contexts[i].account, contexts[i].role)
    /\ UNCHANGED <<server, contexts, known, token, login, pending, blocked, req, grants, history>>

(* useTenantContext, and the first refresh of the grant of a page that      *)
(* reads cards.                                                             *)
Open ==
    /\ view.at = "opening"
    /\ IF HasContext(view.tenant)
       THEN \E i \in DOMAIN contexts :
              /\ contexts[i].tenant = view.tenant
              /\ view' = [view EXCEPT !.at = "open", !.account = contexts[i].account]
              /\ grantHook' = IF site.cards THEN [NoHook EXCEPT !.at = "read"] ELSE NoHook
       ELSE view' = NoPage /\ UNCHANGED grantHook
    /\ UNCHANGED <<server, contexts, known, token, login, pending, blocked, req, grant, grantTimer, cache, history>>

(* handleLogout of both layouts.                                            *)
Logout ==
    /\ view.at = "open"
    /\ contexts' = Without(view.tenant)
    /\ GoesTo(NoPage)
    /\ UNCHANGED <<server, known, token, login, pending, blocked, req, cache, history>>

(* The choices of the mode picker.                                          *)
Modes(c) == IF c.station THEN PageRoles ELSE IF c.role = "scout" THEN {"scout"} ELSE PageRoles \ {"admin"}

(* handleSwitchMode, of a kiosk's page: a context that is gone is not        *)
(* written again.                                                           *)
SwitchMode(role) ==
    /\ site.device /\ view.at = "open" /\ view.role # "admin"
    /\ \A i \in DOMAIN contexts : contexts[i].tenant = view.tenant => role \in Modes(contexts[i])
    /\ contexts' = IF HasContext(view.tenant)
                   THEN Append(Without(view.tenant), [contexts[Where(view.tenant)] EXCEPT !.role = role])
                   ELSE contexts
    /\ GoesTo(Address(view.tenant, view.account, role))
    /\ UNCHANGED <<server, known, token, login, pending, blocked, req, cache, history>>

(* handleNavClick: the admin looks at a card as a scout does.                *)
Visit ==
    /\ site.device /\ view.at = "open" /\ view.role = "admin"
    /\ GoesTo(Address(view.tenant, view.account, "scout"))
    /\ UNCHANGED <<server, contexts, known, token, login, pending, blocked, req, cache, history>>

(* The tab is loaded anew: what is not stored is lost, the block too.       *)
Reload ==
    /\ site.reloads /\ view.at \in {"login", "open"}
    /\ GoesTo(IF view.at = "open" THEN Address(view.tenant, view.account, view.role) ELSE NoPage)
    /\ login' = Idle /\ pending' = None
    /\ block' = NoBlock /\ timer' = None /\ toasted' = FALSE /\ redirect' = FALSE
    /\ req' = [s \in FetchSlots |-> NoRequest]
    /\ told' = 0
    /\ UNCHANGED <<server, contexts, known, token, cache, late, capped>>

-----------------------------------------------------------------------------
(* Logging in.  Passwords are right: one that is not changes nothing here.  *)

Enters(t, a, r) == GoesTo(Address(t, a, r)) /\ login' = Idle

NewToken(t) == [tenant |-> t, left |-> TokenLife]

(* The credentials that the browser keeps, and how it comes by them, unless *)
(* storing them fails.                                                      *)
KnowsLocally(t) == t \in known
Remembers(t)    == known' = known \cup {t}

(* tryServerLogin.                                                          *)
AskServer(t) == login' = [at |-> "server", tenant |-> t]

(* handleUnifiedLogin.  Locally, if the credentials are cached: the context *)
(* is stored, and a token is asked for only when there is none.  One log-in *)
(* is under way at a time; the page may be left before it ends.             *)
Login(t) ==
    /\ view.at = "login" /\ login.at = "idle" /\ pending = None /\ t \in site.tenants
    /\ \/ /\ KnowsLocally(t)
          /\ contexts' = Put(t, "own", "admin")
          /\ IF token = None /\ online
             THEN /\ login' = [at |-> "silent", tenant |-> t]
                  /\ UNCHANGED <<view, grantHook, grant, grantTimer>>
             ELSE Enters(t, "own", "admin")
       \/ /\ ~KnowsLocally(t) /\ online
          /\ AskServer(t)
          /\ UNCHANGED <<view, grantHook, grant, grantTimer, contexts>>
    /\ UNCHANGED <<server, known, token, pending, blocked, req, cache, history>>

(* silentlyRefreshToken answers, or fails and nobody hears of it.           *)
SilentAnswer ==
    /\ login.at = "silent"
    /\ \/ token' = NewToken(login.tenant)
       \/ site.loses /\ UNCHANGED token
    /\ Enters(login.tenant, "own", "admin")
    /\ UNCHANGED <<server, contexts, known, pending, blocked, req, cache, history>>

(* handleServerLoginFallback: the credentials are cached unless that fails. *)
ServerAnswer ==
    /\ login.at = "server"
    /\ \/ /\ contexts' = Put(login.tenant, "own", "admin")
          /\ token' = NewToken(login.tenant)
          /\ Remembers(login.tenant) \/ (site.loses /\ UNCHANGED known)
          /\ Enters(login.tenant, "own", "admin")
       \/ /\ site.loses /\ login' = Idle
          /\ UNCHANGED <<contexts, token, known, view, grantHook, grant, grantTimer>>
    /\ UNCHANGED <<server, pending, blocked, req, cache, history>>

(* handleDeviceSetupAuth.  The token that the server sends is not kept.     *)
Setup(t) ==
    /\ site.device /\ view.at = "login" /\ login.at = "idle" /\ pending = None /\ t \in site.tenants
    /\ \/ KnowsLocally(t) /\ pending' = t /\ UNCHANGED login
       \/ ~KnowsLocally(t) /\ online /\ login' = [at |-> "setup", tenant |-> t] /\ UNCHANGED pending
    /\ UNCHANGED <<server, contexts, known, token, view, blocked, req, grants, history>>

(* An answer to a set-up that has been left shows nothing.                  *)
SetupAnswer ==
    /\ login.at \in {"setup", "left"} /\ login' = Idle
    /\ \/ /\ Remembers(login.tenant)
          /\ pending' = IF login.at = "setup" THEN login.tenant ELSE pending
       \/ site.loses /\ UNCHANGED <<known, pending>>
    /\ UNCHANGED <<server, contexts, token, view, blocked, req, grants, history>>

(* exitDeviceSetup, and enterDeviceSetup once more.                         *)
LeaveSetup ==
    /\ view.at = "login" /\ (pending # None \/ login.at = "setup")
    /\ pending' = None
    /\ login' = IF login.at = "setup" THEN [login EXCEPT !.at = "left"] ELSE login
    /\ UNCHANGED <<server, contexts, known, token, view, blocked, req, grants, history>>

ReenterSetup ==
    /\ view.at = "login" /\ login.at = "left"
    /\ login' = [login EXCEPT !.at = "setup"]
    /\ UNCHANGED <<server, contexts, known, token, view, pending, blocked, req, grants, history>>

LocalGrant(life) == [from |-> "local", left |-> life]

(* handlePickDeviceRole, with issueAndCacheLocalSessionGrant.               *)
PickRole ==
    /\ pending # None
    /\ contexts' = Put(pending, "own", "terminal")
    /\ cache' = [cache EXCEPT ![<<pending, "own">>] = LocalGrant(GrantLife)]
    /\ pending' = None
    /\ Enters(pending, "own", "terminal")
    /\ UNCHANGED <<server, known, token, blocked, req, history>>

(* handleScoutSelectTenant: anybody, and without a password.  It waits for  *)
(* no log-in, and its page is left when the answer of one arrives.          *)
Scout(t) ==
    /\ site.device /\ view.at = "login" /\ login.at # "setup" /\ pending = None /\ t \in site.tenants
    /\ contexts' = Put(t, "scout", "scout")
    /\ cache' = [cache EXCEPT ![<<t, "scout">>] = LocalGrant(GrantLife)]
    /\ GoesTo(Address(t, "scout", "scout"))
    /\ UNCHANGED <<server, known, token, login, pending, blocked, req, history>>

-----------------------------------------------------------------------------
(* apiFetch.                                                               *)

Blocked == block.on /\ block.left > 0

(* Mutant: the toast of the old block counts for the next.                  *)
ForgetsQuietly ==
    IF block.on THEN block' = NoBlock /\ timer' = None /\ UNCHANGED toasted
    ELSE UNCHANGED <<block, timer, toasted>>

(* isDeviceBlocked, which forgets a block that has run out.                 *)
Forgets ==
    IF block.on THEN block' = NoBlock /\ timer' = None /\ toasted' = FALSE
    ELSE UNCHANGED <<block, timer, toasted>>

(* A scout's page asks for a grant of the role that needs no token.         *)
IsGrant(kind) == kind \in {"grant", "scout"}

(* The token that the headers carry is the one of the moment.               *)
InjectAuthHeaders(r) == [r EXCEPT !.token = token]

Sends(s, kind, tenant) ==
    /\ s \in site.slots /\ req[s].at = "idle" /\ ~Blocked
    /\ (s = GrantSlot /\ site.cards) = IsGrant(kind)
    /\ req' = [req EXCEPT ![s] = InjectAuthHeaders([NoRequest EXCEPT !.at = "sent", !.kind = kind, !.tenant = tenant,
                                                                     !.account = view.account])]
    /\ Forgets
    /\ UNCHANGED <<server, contexts, known, token, user, redirect, grant, grantTimer, cache, history>>

(* A request of the sync engine names the page's tenant; the settings and   *)
(* the check of a card's UID name none.                                     *)
SendOther(s) ==
    /\ view.at = "open" /\ token # None
    /\ Sends(s, "sync", view.tenant) \/ (site.bare /\ Sends(s, "bare", None))
    /\ UNCHANGED grantHook

SendGrant(s) ==
    /\ grantHook.at = "send"
    /\ Sends(s, IF view.role = "scout" THEN "scout" ELSE "grant", view.tenant)
    /\ grantHook' = [grantHook EXCEPT !.at = "fetch", !.slot = s]

(* deviceBlockCheck looks at no request without a token; then verifyToken    *)
(* and the tenant of the token.                                              *)
RefusedAsBlocked(tk) == tk # None /\ until > 0

(* The tokens of a browser are signed; what can be wrong with one is its    *)
(* age.                                                                     *)
VerifyAccessToken(tk) == tk # None /\ tk.left > 0

VerifyToken(r) == r.kind = "scout" \/ VerifyAccessToken(r.token)

Serve(s) ==
    /\ req[s].at = "sent"
    /\ LET tk == req[s].token
           allowed == VerifyToken(req[s]) /\ (req[s].kind \in {"scout", "bare"} \/ tk.tenant = req[s].tenant)
           answer  == IF RefusedAsBlocked(tk) THEN "blocked" ELSE IF allowed THEN "ok" ELSE "refused"
       IN req' = [req EXCEPT ![s].at = "answered", ![s].answer = answer, ![s].token = None,
                             ![s].left = IF answer = "blocked" THEN until ELSE IF answer = "ok" THEN GrantLife ELSE 0]
    /\ UNCHANGED <<server, contexts, known, token, user, blocked, grants, history>>

Fail(s) ==
    /\ req[s].at = "sent" /\ (site.loses \/ ~online)
    /\ req' = [req EXCEPT ![s] = [NoRequest EXCEPT !.at = "answered", !.kind = req[s].kind, !.tenant = req[s].tenant,
                                                   !.answer = "failed"]]
    /\ UNCHANGED <<server, contexts, known, token, user, blocked, grants, history>>

Done(s) == req' = [req EXCEPT ![s] = NoRequest]
Mine(s) == grantHook.slot = s /\ grantHook.at = "fetch"

(* Any other answer than a block.                                           *)
Arrive(s) ==
    /\ req[s].at = "answered"
    /\ req[s].answer \in {"refused", "failed"} \/ (req[s].answer = "ok" /\ ~IsGrant(req[s].kind))
    /\ Done(s)
    /\ grantHook' = IF Mine(s) THEN [grantHook EXCEPT !.at = "failed", !.slot = None] ELSE grantHook
    /\ UNCHANGED <<server, contexts, known, token, user, blocked, grant, grantTimer, cache, history>>

(* handleDeviceBlocked, as far as its first await, and useDeviceBlock.      *)
ArriveBlocked(s) ==
    /\ req[s].at = "answered" /\ req[s].answer = "blocked"
    /\ req' = [req EXCEPT ![s].at = "clearing"]
    /\ block' = [on |-> TRUE, left |-> req[s].left]
    /\ toasted' = TRUE /\ redirect' = (redirect \/ ~toasted)
    /\ told' = req[s].left /\ capped' = (capped \/ req[s].left > Cap)
    /\ late' = (late \/ block.on \/ timer # None \/ \E o \in FetchSlots : req[o].at \in {"clearing", "scheduling"})
    /\ UNCHANGED <<server, contexts, known, token, user, timer, grants>>

(* clearAuthState: one tenant's context, or all of them.  The cached grants *)
(* stay: clearSessionGrantCache opens the database in a version older than  *)
(* its own, which fails.                                                    *)
Cleared(t) == IF t = None THEN <<>> ELSE Without(t)

Clear(s) ==
    /\ req[s].at = "clearing"
    /\ contexts' = Cleared(req[s].tenant)
    /\ req' = [req EXCEPT ![s].at = "scheduling"]
    /\ UNCHANGED <<server, known, token, user, blocked, grants, history>>

(* Mutant: the delay is not in milliseconds.                                *)
UnblockDelayNow(left) == 0

UnblockDelay(left) == LeastOf(left, Cap)

(* scheduleUnblock.                                                         *)
Schedule(s) ==
    /\ req[s].at = "scheduling"
    /\ timer' = UnblockDelay(req[s].left)
    /\ Done(s)
    /\ grantHook' = IF Mine(s) THEN [grantHook EXCEPT !.at = "failed", !.slot = None] ELSE grantHook
    /\ UNCHANGED <<server, contexts, known, token, user, block, toasted, redirect, grant, grantTimer, cache, history>>

(* The timer, or the tab that comes into view, ends the block.              *)
Unblocks ==
    /\ block' = NoBlock /\ timer' = None /\ toasted' = FALSE
    /\ Home
    /\ UNCHANGED <<server, contexts, known, token, login, pending, redirect, req, cache, history>>

Fire    == timer = 0 /\ Unblocks
Visible == block.on /\ block.left = 0 /\ Unblocks

Redirect ==
    /\ redirect /\ redirect' = FALSE
    /\ \A s \in FetchSlots : req[s].at # "clearing"
    /\ Home
    /\ UNCHANGED <<server, contexts, known, token, login, pending, block, timer, toasted, req, cache, history>>

-----------------------------------------------------------------------------
(* useSessionGrant.                                                        *)

(* generateLocalSessionGrant: good for a year.                              *)
GenerateLocalSessionGrant == LocalGrant(LocalLife)

(* writeGrantToCache, which may fail and says nothing.                      *)
WriteGrantToCache(t, a, g) ==
    \/ cache' = [cache EXCEPT ![<<t, a>>] = g]
    \/ site.loses /\ UNCHANGED cache

(* readGrantFromCache, and the whole refresh when the device is offline:    *)
(* that one sets no timer.                                                  *)
Read ==
    /\ grantHook.at = "read"
    /\ LET c      == cache[<<view.tenant, view.account>>]
           cached == IF Valid(c) THEN c ELSE None
       IN IF online
          THEN grantHook' = [grantHook EXCEPT !.at = "send", !.cached = cached] /\ UNCHANGED grant
          ELSE grantHook' = NoHook /\ grant' = IF cached # None THEN cached ELSE GenerateLocalSessionGrant
    /\ UNCHANGED <<server, contexts, known, token, user, blocked, req, grantTimer, cache, history>>

(* apiFetch refuses.                                                        *)
Suppressed ==
    /\ grantHook.at = "send" /\ Blocked
    /\ grantHook' = [grantHook EXCEPT !.at = "failed"]
    /\ UNCHANGED <<server, contexts, known, token, user, blocked, req, grant, grantTimer, cache, history>>

(* scheduleRefresh.                                                         *)
RefreshDelay(g) ==
    LET delay == IF g.left > Buffer THEN g.left - Buffer ELSE 0
    IN IF delay > MaxDelay THEN 0 ELSE delay

(* A fresh grant.  It is cached even when its page is gone.                 *)
Granted(s) ==
    /\ req[s].at = "answered" /\ req[s].answer = "ok" /\ IsGrant(req[s].kind)
    /\ Done(s)
    /\ LET g == [from |-> "server", left |-> req[s].left] IN
         /\ WriteGrantToCache(req[s].tenant, req[s].account, g)
         /\ IF Mine(s) THEN grantHook' = NoHook /\ grant' = g /\ grantTimer' = RefreshDelay(g)
            ELSE UNCHANGED <<grantHook, grant, grantTimer>>
    /\ UNCHANGED <<server, contexts, known, token, user, blocked, history>>

(* Mutant: the page that falls back does not try again.                     *)
DelayAfterFallbackNone(g) == None

DelayAfterFallback(g) == RefreshDelay(g)

(* handleOnlineRefresh's catch.                                             *)
FallBack ==
    /\ grantHook.at = "failed"
    /\ LET g == IF grantHook.cached # None THEN grantHook.cached ELSE GenerateLocalSessionGrant IN
         /\ grantHook' = NoHook /\ grant' = g
         /\ grantTimer' = DelayAfterFallback(g)
    /\ UNCHANGED <<server, contexts, known, token, user, blocked, cache, req, history>>

(* The timer of scheduleRefresh.                                            *)
Renew ==
    /\ grantTimer = 0 /\ grantTimer' = None
    /\ grantHook' = [NoHook EXCEPT !.at = "read"]
    /\ UNCHANGED <<server, contexts, known, token, user, blocked, req, grant, cache, history>>

-----------------------------------------------------------------------------
(* Around the browser.                                                     *)

Block(d) ==
    /\ d \in site.blocks /\ until = 0 /\ until' = d
    /\ UNCHANGED <<site, online, contexts, known, token, user, blocked, req, grants, history>>

Unblock ==
    /\ until > 0 /\ until' = 0
    /\ UNCHANGED <<site, online, contexts, known, token, user, blocked, req, grants, history>>

Connect ==
    /\ site.offline /\ online' = ~online
    /\ UNCHANGED <<site, until, contexts, known, token, user, blocked, req, grants, history>>

OlderGrant(g) == IF g = None THEN None ELSE [g EXCEPT !.left = Less(@)]
OlderToken(t) == IF t = None THEN None ELSE [t EXCEPT !.left = Less(@)]
OlderTimer(n) == IF n = None THEN None ELSE Less(n)

Tick ==
    /\ \A s \in FetchSlots : req[s].at = "answered" /\ req[s].answer = "ok" /\ IsGrant(req[s].kind) => req[s].left > 1
    /\ until' = Less(until) /\ told' = Less(told)
    /\ token' = OlderToken(token)
    /\ block' = [block EXCEPT !.left = Less(@)] /\ timer' = OlderTimer(timer)
    /\ req' = [s \in FetchSlots |-> [req[s] EXCEPT !.left = Less(@), !.token = OlderToken(@)]]
    /\ grantHook' = [grantHook EXCEPT !.cached = OlderGrant(@)]
    /\ grant' = OlderGrant(grant) /\ grantTimer' = OlderTimer(grantTimer)
    /\ cache' = [k \in DOMAIN cache |-> OlderGrant(cache[k])]
    /\ UNCHANGED <<site, online, contexts, known, user, toasted, redirect, late, capped>>

Steps(s)   == Serve(s) \/ Fail(s) \/ Arrive(s) \/ ArriveBlocked(s) \/ Clear(s) \/ Schedule(s) \/ Granted(s)
Page       == Boot \/ Open \/ SilentAnswer \/ ServerAnswer \/ SetupAnswer
Hook       == Read \/ (\E s \in FetchSlots : SendGrant(s)) \/ Suppressed \/ FallBack \/ Renew

AccessNext ==
    \/ Page \/ Hook \/ Fire \/ Visible \/ Redirect \/ Tick
    \/ \E s \in FetchSlots : Steps(s) \/ SendOther(s)
    \/ \E t \in Tenants : Login(t) \/ Setup(t) \/ Scout(t)
    \/ PickRole \/ LeaveSetup \/ ReenterSetup \/ Visit \/ Logout \/ Reload \/ Connect \/ Unblock
    \/ \E role \in PageRoles : SwitchMode(role)
    \/ \E d \in site.blocks : Block(d)

AccessSpec == AccessInit /\ [][AccessNext]_accessVars

(* Handlers that have begun, timers and the clock go on; the user, the      *)
(* network and the superadmin need not.                                     *)
AccessFairness ==
    /\ WF_accessVars(Page) /\ WF_accessVars(Hook) /\ WF_accessVars(Fire) /\ WF_accessVars(Redirect) /\ WF_accessVars(Tick)
    /\ \A s \in FetchSlots : WF_accessVars(Steps(s))

FairAccess == AccessSpec /\ AccessFairness

-----------------------------------------------------------------------------
(* While it is blocked the browser makes no request: it waits for the time  *)
(* the server last told it, unless that is beyond the cap of its timer, or  *)
(* a second answer came before the first was dealt with and run out.        *)
SilentWhileBlocked ==
    \A s \in FetchSlots : req[s].at = "idle" /\ req'[s].at = "sent" => told = 0 \/ late \/ capped

(* A page whose context a block has deleted is about to be left, unless a   *)
(* second answer came before the first was dealt with and run out (and the  *)
(* state is well typed).                                                    *)
NoOrphanPage ==
    /\ AccessTypeOK
    /\ view.at = "open" => HasContext(view.tenant) \/ redirect \/ late

(* A grant of the server stays in the cache until another takes its place:  *)
(* the local ones a page falls back on never do.  Only the way into a page  *)
(* of a device (its role's set-up, or a scout's choice) puts one there.     *)
RealGrantIsKept ==
    \A k \in DOMAIN cache :
        cache[k] # None /\ cache[k].from = "server" /\ cache'[k] # None /\ cache'[k].from = "local"
          => view.at = "login" /\ view'.at = "opening"

(* What the server decided, a block or a grant, is respected at every step. *)
ServerIsObeyed == [][SilentWhileBlocked /\ RealGrantIsKept]_accessVars

(* A block ends for the browser, whatever answers come late.                *)
BlockEnds == block.on ~> ~block.on

(* A page of a device that stays online gets a grant again and again,       *)
(* be it blocked, refused or cut off from the server.                       *)
GrantKeepsComing == ~site.offline /\ site.cards => []<>(view.at = "open" => Valid(grant))

(* A browser gets out of a block and of a page without a grant.             *)
AccessComesBack == BlockEnds /\ GrantKeepsComing

-----------------------------------------------------------------------------
(* "Client must request a new session grant [...]  If access token also     *)
(* expired, full re-authentication via POST /api/auth/token": who logs in   *)
(* online, and is answered, gets a page with a token the server accepts.    *)
LoginRenewsToken ==
    [][view.at = "login" /\ view'.at = "opening" /\ view'.account = "own" /\ pending = None /\ online /\ ~site.loses
         => token' # None /\ token'.left > 0 /\ token'.tenant = view'.tenant]_accessVars

(* A page that was opened is not taken over by the answer of a log-in that  *)
(* was begun before (handleLoginSuccess navigates from wherever it is).     *)
PagesAreChosen ==
    [][view.at \in {"opening", "open"} /\ login.at # "idle" /\ login'.at = "idle" => view' = view]_accessVars

(* "[...] until connectivity is restored and a new grant is obtained": a    *)
(* page that stays open while the device is online for good gets a grant.   *)
GrantReturns == <>[](online /\ view.at = "open") => []<>Valid(grant)
=============================================================================

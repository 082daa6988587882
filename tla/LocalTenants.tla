----------------------------- MODULE LocalTenants -----------------------------
(***************************************************************************)
(* The tenants and accounts that a browser keeps for itself: the page that *)
(* sets up a tenant without the server, the log-in that looks here first   *)
(* and at the server then, and the copy of a server's account that it      *)
(* makes.  Configurations and accounts are two tables, written one after   *)
(* the other; a user name is unique in the table of accounts, whatever the *)
(* tenant.  What a page does after it is opened is left to DeviceAccess,   *)
(* the registration of a tenant at the server to TenantSync.               *)
(*                                                                         *)
(* Bounds: Jobs set-ups, log-ins and copies under way; a plan: who is at  *)
(* the server, what is typed, how many log-ins, set-ups, edits of the      *)
(* form, scouts' visits, faults and changes of a password there are.       *)
(***************************************************************************)
EXTENDS Naturals, FiniteSets

CONSTANTS
    Servers, Fresh,  \* tenants at the server; identifiers of tenants set up here
    Users, Passwords, Slugs,
    Jobs, Plans, Nothing

AllTenants == Servers \cup Fresh
PersonRoles == {"admin", "gate", "superadmin"}
Person  == [tenant : Servers, user : Users, pass : Passwords, role : PersonRoles]
Counts  == {"logins", "setups", "edits", "scouts", "faults", "changes"}

Account == [tenant : AllTenants, pass : Passwords, role : PersonRoles]
Config  == [slug : Slugs, mode : {"local", "synced"}]

(* What is under way: a set-up, a log-in, the copy of a server's account.   *)
Setups  == [kind : {"setup"}, at : {"check", "config", "account", "complete"}, slug : Slugs, user : Users, pass : Passwords,
            tenant : Fresh \cup {Nothing}]
Logins  == [kind : {"login", "device"}, at : {"account", "server"}, user : Users, pass : Passwords, slug : Slugs \cup {Nothing}]
Copies  == [kind : {"copy"}, at : {"account", "add", "update", "config"}, user : Users, pass : Passwords, tenant : Servers,
            role : PersonRoles, setsUp : BOOLEAN]

LocalBounds ==
    /\ Plans \subseteq [people : SUBSET Person, slugOf : [Servers -> Slugs],
                        types : SUBSET [user : Users, pass : Passwords], left : [Counts -> Nat]]
    /\ Servers \cap Fresh = {} /\ {"login", "setup"} \cap AllTenants = {}
    /\ Nothing \notin AllTenants /\ Nothing \notin Jobs
    /\ Nothing \notin Slugs \cup Account \cup Config \cup Setups \cup Logins \cup Copies

VARIABLES
    plan, left,      \* the plan, and what is left of it
    connected,       \* navigator.onLine
    people,          \* accounts at the server
    accounts,        \* localAccounts, by user name
    configs,         \* localTenantConfig, by tenant
    screen,          \* log-in, set-up or a tenant's page
    form,            \* useLocalSetup
    jobs,
    entered,         \* history: the credentials that were stored here, the last of each account
    disputed         \* history: names used for two tenants, or copied twice at a time

tables    == <<accounts, configs>>
history   == <<entered, disputed>>
localVars == <<plan, left, connected, people, tables, screen, form, jobs, history>>

Ask      == [by : {"validate", "next"}, slug : Slugs]
NoForm   == [step |-> "tenant", slug |-> Nothing, due |-> FALSE, error |-> FALSE, asks |-> {}, checked |-> Nothing,
             loading |-> Nothing]
OnScreen == {"login", "setup"} \cup AllTenants

LocalTypeOK ==
    /\ plan \in Plans /\ left \in [Counts -> Nat] /\ connected \in BOOLEAN /\ people \subseteq Person
    /\ accounts \in [Users -> Account \cup {Nothing}]
    /\ configs \in [AllTenants -> Config \cup {Nothing}]
    /\ screen \in [at : OnScreen, chosen : Slugs \cup {Nothing}]
    /\ form \in [step : {"tenant", "admin", "done"}, slug : Slugs \cup {Nothing}, due : BOOLEAN, error : BOOLEAN,
                 asks : SUBSET Ask, checked : Slugs \cup {Nothing}, loading : Jobs \cup {Nothing}]
    /\ jobs \in [Jobs -> Setups \cup Logins \cup Copies \cup {Nothing}]
    /\ entered \subseteq [tenant : AllTenants, user : Users, pass : Passwords] /\ disputed \subseteq Users

Init ==
    /\ plan \in Plans /\ left = plan.left /\ connected = TRUE /\ people = plan.people
    /\ accounts = [u \in Users |-> Nothing] /\ configs = [t \in AllTenants |-> Nothing]
    /\ screen = [at |-> "login", chosen |-> Nothing] /\ form = NoForm
    /\ jobs = [j \in Jobs |-> Nothing] /\ entered = {} /\ disputed = {}

Spend(what) == left[what] > 0 /\ left' = [left EXCEPT ![what] = @ - 1]
Free        == {j \in Jobs : jobs[j] = Nothing}
Is(j, kinds, at) == jobs[j] # Nothing /\ jobs[j].kind \in kinds /\ jobs[j].at = at
Becomes(j, job)  == jobs' = [jobs EXCEPT ![j] = job]
Ends(j)          == Becomes(j, Nothing)
Goes(j, at)      == jobs' = [jobs EXCEPT ![j].at = at]

(* A job begins in a free place; which one does not matter.                *)
First       == IF Free = {} THEN {} ELSE {CHOOSE j \in Free : TRUE}
Starts(job) == \E j \in First : Becomes(j, job)

Local(slug)  == \E t \in AllTenants : configs[t] # Nothing /\ configs[t].slug = slug
Remote(slug) == connected /\ \E t \in Servers : plan.slugOf[t] = slug

(* isSlugTaken: a request that fails counts as "not taken".                *)
Taken(slug) == {Local(slug) \/ Remote(slug)} \cup (IF left.faults > 0 THEN {Local(slug)} ELSE {})

-----------------------------------------------------------------------------
(* Setting a tenant up: useLocalSetup.                                     *)
EnterSetup ==
    /\ screen.at = "login" /\ screen' = [screen EXCEPT !.at = "setup"] /\ form' = NoForm
    /\ left.setups > 0
    /\ UNCHANGED <<plan, left, connected, people, tables, jobs, history>>

(* onBack: a set-up that has begun goes on.                                *)
LeaveSetup ==
    /\ screen.at = "setup" /\ form.step = "tenant"
    /\ screen' = [screen EXCEPT !.at = "login"] /\ form' = NoForm
    /\ UNCHANGED <<plan, left, connected, people, tables, jobs, history>>

OnForm(step) == screen.at = "setup" /\ form.step = step

Edit(slug) ==
    /\ OnForm("tenant") /\ form.slug # slug /\ Spend("edits")
    /\ form' = [form EXCEPT !.slug = slug, !.due = TRUE]
    /\ UNCHANGED <<plan, connected, people, tables, screen, jobs, history>>

(* The debounced validation, and the check of handleNextStep: both ask, and *)
(* the slug may be another one when the answer comes.                      *)
Validate ==
    /\ screen.at = "setup" /\ form.due
    /\ form' = [form EXCEPT !.due = FALSE, !.asks = @ \cup {[by |-> "validate", slug |-> form.slug]}]
    /\ UNCHANGED <<plan, left, connected, people, tables, screen, jobs, history>>

PressNext ==
    /\ OnForm("tenant") /\ form.slug # Nothing /\ ~form.error
    /\ form' = [form EXCEPT !.asks = @ \cup {[by |-> "next", slug |-> form.slug]}]
    /\ UNCHANGED <<plan, left, connected, people, tables, screen, jobs, history>>

Answered(ask) ==
    /\ ask \in form.asks
    /\ \E taken \in Taken(ask.slug) :
          LET next == [form EXCEPT !.asks = @ \ {ask}] IN
          form' = IF ask.by = "validate" THEN [next EXCEPT !.error = taken]
                  ELSE IF taken THEN [next EXCEPT !.error = TRUE]
                  ELSE [next EXCEPT !.step = "admin", !.checked = ask.slug]
    /\ UNCHANGED <<plan, left, connected, people, tables, screen, jobs, history>>

BackToTenant ==
    /\ OnForm("admin") /\ form' = [form EXCEPT !.step = "tenant"]
    /\ UNCHANGED <<plan, left, connected, people, tables, screen, jobs, history>>

(* handleSetup, and setupLocalTenant as far as its first await.            *)
PressSetup(user, pass) ==
    /\ OnForm("admin") /\ form.loading = Nothing /\ Spend("setups")
    /\ \E j \in First :
          /\ Becomes(j, [kind |-> "setup", at |-> "check", slug |-> form.slug, user |-> user, pass |-> pass,
                         tenant |-> Nothing])
          /\ form' = [form EXCEPT !.loading = j]
    /\ UNCHANGED <<plan, connected, people, tables, screen, history>>

(* What a set-up does to its form, if that is still there.                 *)
Shows(j, step) == form' = IF form.loading = j THEN [form EXCEPT !.step = step, !.loading = Nothing] ELSE form

NewId == {t \in Fresh : configs[t] = Nothing /\ \A j \in Jobs : jobs[j] # Nothing /\ jobs[j].kind = "setup" => jobs[j].tenant # t}

(* The slug is looked for among the local tenants once more.               *)
SlugChecked(j) ==
    /\ Is(j, {"setup"}, "check")
    /\ IF Local(jobs[j].slug)
         THEN Ends(j) /\ Shows(j, form.step)
         ELSE /\ NewId # {} /\ Becomes(j, [jobs[j] EXCEPT !.at = "config", !.tenant = CHOOSE t \in NewId : TRUE])
              /\ UNCHANGED form
    /\ UNCHANGED <<plan, left, connected, people, tables, screen, history>>

ConfigStored(j) ==
    /\ Is(j, {"setup"}, "config") /\ Goes(j, "account")
    /\ configs' = [configs EXCEPT ![jobs[j].tenant] = [slug |-> jobs[j].slug, mode |-> "local"]]
    /\ UNCHANGED <<plan, left, connected, people, accounts, screen, form, history>>

(* The account: a name that is taken fails, and the configuration stays.   *)
AdminStored(j) ==
    /\ Is(j, {"setup"}, "account")
    /\ LET job == jobs[j] IN
       IF accounts[job.user] = Nothing
         THEN /\ accounts' = [accounts EXCEPT ![job.user] = [tenant |-> job.tenant, pass |-> job.pass, role |-> "admin"]]
              /\ entered' = entered \cup {[tenant |-> job.tenant, user |-> job.user, pass |-> job.pass]}
              /\ Shows(j, "done") /\ Goes(j, "complete") /\ UNCHANGED disputed
         ELSE /\ disputed' = disputed \cup {job.user}
              /\ Shows(j, form.step) /\ Ends(j) /\ UNCHANGED <<accounts, entered>>
    /\ UNCHANGED <<plan, left, connected, people, configs, screen>>

(* The timer of onComplete takes the browser there, wherever it is.        *)
Completes(j) ==
    /\ Is(j, {"setup"}, "complete") /\ Ends(j)
    /\ screen' = [at |-> jobs[j].tenant, chosen |-> Nothing] /\ form' = NoForm
    /\ UNCHANGED <<plan, left, connected, people, tables, history>>

-----------------------------------------------------------------------------
(* Logging in: handleUnifiedLogin, and handleDeviceSetupAuth, which sends  *)
(* no slug.                                                                *)
LoggingIn == \E j \in Jobs : jobs[j] # Nothing /\ jobs[j].kind \in {"login", "device"}

Login(kind, user, pass, slug) ==
    /\ screen.at = "login" /\ ~LoggingIn /\ Spend("logins")
    /\ kind = "device" => slug = Nothing
    /\ Starts([kind |-> kind, at |-> "account", user |-> user, pass |-> pass, slug |-> slug])
    /\ UNCHANGED <<plan, connected, people, tables, screen, form, history>>

(* localLoginWithReason, on what the tables hold.  (Every row of an account *)
(* that this browser writes is "active", so "inactive" is never the answer.)*)
Outcome(user, pass, slug) ==
    LET row == accounts[user] IN
    IF row = Nothing \/ configs[row.tenant] = Nothing THEN "wrong_credentials"
    ELSE IF slug # Nothing /\ configs[row.tenant].slug # slug THEN "wrong_tenant"
    ELSE IF row.pass # pass THEN "wrong_credentials" ELSE "success"

(* Mutant: the tenant that was chosen is not looked at.                    *)
ReasonAnyTenant(job) == Outcome(job.user, job.pass, Nothing)

Reason(job) == Outcome(job.user, job.pass, job.slug)

Opens(t, slug) == screen' = [at |-> t, chosen |-> slug] /\ form' = NoForm

(* A set-up of a device needs an admin.                                    *)
Allowed(j, role) == jobs[j].kind = "device" => role = "admin"

LocalLogin(j) ==
    /\ Is(j, {"login", "device"}, "account")
    /\ \/ /\ Reason(jobs[j]) = "success" /\ Ends(j)
          /\ IF Allowed(j, accounts[jobs[j].user].role)
               THEN Opens(accounts[jobs[j].user].tenant, jobs[j].slug) ELSE UNCHANGED <<screen, form>>
       \/ Reason(jobs[j]) = "wrong_tenant" /\ Ends(j) /\ UNCHANGED <<screen, form>>
       \/ /\ Reason(jobs[j]) = "wrong_credentials"
          /\ IF connected THEN Goes(j, "server") ELSE Ends(j)
          /\ UNCHANGED <<screen, form>>
    /\ UNCHANGED <<plan, left, connected, people, tables, history>>

(* The server's search for an account: of the tenant, or else of anybody,  *)
(* a superadmin first.                                                     *)
Found(user, slug) ==
    LET named  == {p \in people : p.user = user}
        supers == {p \in named : p.role = "superadmin"}
    IN IF slug # Nothing THEN {p \in named : plan.slugOf[p.tenant] = slug}
       ELSE IF supers # {} THEN supers ELSE named

Copying(user) == \E j \in Jobs : jobs[j] # Nothing /\ jobs[j].kind = "copy" /\ jobs[j].user = user

(* The server's answer; the context and, if there is none, a configuration *)
(* are stored, the page opens, and the account is copied meanwhile.  The   *)
(* set-up of a device copies it first.                                     *)
ServerLogin(j) ==
    /\ Is(j, {"login", "device"}, "server")
    /\ \/ \E p \in Found(jobs[j].user, jobs[j].slug) :
             /\ p.pass = jobs[j].pass
             /\ Becomes(j, [kind |-> "copy", at |-> "account", user |-> p.user, pass |-> p.pass, tenant |-> p.tenant,
                            role |-> p.role, setsUp |-> jobs[j].kind = "device"])
             /\ IF jobs[j].kind = "device" THEN UNCHANGED <<configs, screen, form>>
                ELSE /\ configs' = IF configs[p.tenant] # Nothing THEN configs
                                   ELSE [configs EXCEPT ![p.tenant] = [slug |-> plan.slugOf[p.tenant], mode |-> "synced"]]
                     /\ Opens(p.tenant, jobs[j].slug)
             /\ disputed' = IF Copying(p.user) THEN disputed \cup {p.user} ELSE disputed
             /\ UNCHANGED left
       \/ /\ \/ Found(jobs[j].user, jobs[j].slug) = {} /\ UNCHANGED left
             \/ (\E p \in Found(jobs[j].user, jobs[j].slug) : p.pass # jobs[j].pass) /\ UNCHANGED left
             \/ Spend("faults")
          /\ Ends(j) /\ UNCHANGED <<configs, screen, form, disputed>>
    /\ UNCHANGED <<plan, connected, people, accounts, entered>>

(* cacheServerCredentials.                                                 *)
AccountRead(j) ==
    /\ Is(j, {"copy"}, "account")
    /\ Becomes(j, [jobs[j] EXCEPT !.at = IF accounts[jobs[j].user] = Nothing THEN "add" ELSE "update"])
    /\ UNCHANGED <<plan, left, connected, people, tables, screen, form, history>>

Copy(job) == [tenant |-> job.tenant, pass |-> job.pass, role |-> job.role]

(* A new account fails if its name has been taken since; one that was      *)
(* there, of whichever tenant, is taken over.                              *)
AccountCopied(j) ==
    /\ Is(j, {"copy"}, "update") \/ (Is(j, {"copy"}, "add") /\ accounts[jobs[j].user] = Nothing)
    /\ Goes(j, "config")
    /\ LET job == jobs[j]  row == accounts[job.user] IN
       /\ accounts' = [accounts EXCEPT ![job.user] = Copy(job)]
       /\ entered' = {e \in entered : e.tenant # job.tenant \/ e.user # job.user}
       /\ disputed' = IF row # Nothing /\ row.tenant # job.tenant THEN disputed \cup {job.user} ELSE disputed
    /\ UNCHANGED <<plan, left, connected, people, configs, screen, form>>

CopyFails(j) ==
    /\ \/ Is(j, {"copy"}, "add") /\ accounts[jobs[j].user] # Nothing /\ UNCHANGED left
       \/ jobs[j] # Nothing /\ jobs[j].kind = "copy" /\ Spend("faults")
    /\ Ends(j)
    /\ UNCHANGED <<plan, connected, people, tables, screen, form, history>>

ConfigCopied(j) ==
    /\ Is(j, {"copy"}, "config") /\ Ends(j)
    /\ LET job == jobs[j]  t == job.tenant IN
       /\ configs' = [configs EXCEPT ![t] = [slug |-> plan.slugOf[t],
                                             mode |-> IF configs[t] = Nothing THEN "synced" ELSE configs[t].mode]]
       /\ entered' = entered \cup {[tenant |-> t, user |-> job.user, pass |-> job.pass]}
       /\ IF job.setsUp /\ job.role = "admin" THEN Opens(t, Nothing) ELSE UNCHANGED <<screen, form>>
    /\ UNCHANGED <<plan, left, connected, people, accounts, disputed>>

-----------------------------------------------------------------------------
(* handleScoutEnterSlug: a local tenant first, then the server's.          *)
Scout(slug) ==
    /\ screen.at = "login" /\ Spend("scouts")
    /\ \/ \E t \in AllTenants : configs[t] # Nothing /\ configs[t].slug = slug /\ Opens(t, slug) /\ UNCHANGED configs
       \/ /\ ~Local(slug) /\ connected
          /\ \E t \in Servers : /\ plan.slugOf[t] = slug /\ Opens(t, slug)
                                /\ configs' = [configs EXCEPT ![t] = [slug |-> slug, mode |-> "synced"]]
    /\ UNCHANGED <<plan, connected, people, accounts, jobs, history>>

Logout ==
    /\ screen.at \in AllTenants /\ Opens("login", Nothing)
    /\ UNCHANGED <<plan, left, connected, people, tables, jobs, history>>

ChangePassword(p, pass) ==
    /\ p \in people /\ p.pass # pass /\ Spend("changes")
    /\ people' = (people \ {p}) \cup {[p EXCEPT !.pass = pass]}
    /\ UNCHANGED <<plan, connected, tables, screen, form, jobs, history>>

Connect ==
    /\ connected' = ~connected /\ Spend("faults")
    /\ UNCHANGED <<plan, people, tables, screen, form, jobs, history>>

JobSteps(j) ==
    \/ SlugChecked(j) \/ ConfigStored(j) \/ AdminStored(j) \/ Completes(j)
    \/ LocalLogin(j) \/ ServerLogin(j) \/ AccountRead(j) \/ AccountCopied(j) \/ CopyFails(j) \/ ConfigCopied(j)

Next ==
    \/ EnterSetup \/ LeaveSetup \/ Validate \/ PressNext \/ BackToTenant \/ Logout \/ Connect
    \/ \E slug \in Slugs : Edit(slug) \/ Scout(slug)
    \/ \E typed \in plan.types :
          \/ PressSetup(typed.user, typed.pass)
          \/ \E slug \in Slugs \cup {Nothing}, kind \in {"login", "device"} : Login(kind, typed.user, typed.pass, slug)
    \/ \E p \in people, pass \in Passwords : ChangePassword(p, pass)
    \/ \E ask \in form.asks : Answered(ask)
    \/ \E j \in Jobs : JobSteps(j)

-----------------------------------------------------------------------------
(* Properties.                                                             *)

(* Credentials that were stored here open their tenant without the server, *)
(* whatever is stored in what order and fails in between: unless the name  *)
(* is in dispute.                                                          *)
EntersAgain ==
    \A e \in entered : e.user \notin disputed =>
        /\ accounts[e.user].tenant = e.tenant
        /\ configs[e.tenant] # Nothing /\ Outcome(e.user, e.pass, configs[e.tenant].slug) = "success"

(* A tenant that was set up here has an admin to log in, or is just being  *)
(* set up; but for a name in dispute.                                      *)
HasAdmin ==
    \A t \in Fresh : configs[t] # Nothing =>
        \/ \E u \in Users : accounts[u] # Nothing /\ accounts[u].tenant = t /\ accounts[u].role = "admin"
        \/ \E j \in Jobs : Is(j, {"setup"}, "account") /\ jobs[j].tenant = t
        \/ disputed # {}

(* Who chooses a tenant gets a page of a tenant of that slug.              *)
RightTenant ==
    screen.at \in AllTenants /\ screen.chosen # Nothing =>
        configs[screen.at] # Nothing /\ configs[screen.at].slug = screen.chosen

LocalBooksAgree == LocalTypeOK /\ EntersAgain /\ HasAdmin /\ RightTenant

(* "Cache server-authenticated credentials locally so the user can log in  *)
(* offline on subsequent visits" (tenantRepository.ts:272).                *)
StaysOffline == \A e \in entered : accounts[e.user].tenant = e.tenant

(* "local-first -> server fallback" (useLoginAuth.ts:390): who is right is *)
(* let in.                                                                 *)
NobodyIsShutOut ==
    [][\A j \in Jobs :
          Is(j, {"login"}, "account") /\ connected /\ jobs'[j] = Nothing /\ screen' = screen
            => \A p \in Found(jobs[j].user, jobs[j].slug) : p.pass # jobs[j].pass]_localVars

(* "Validates slug format and uniqueness, then advances to the admin step" *)
(* (useLocalSetup.ts:89).                                                  *)
SlugWasChecked == form.step = "admin" => form.checked = form.slug
=============================================================================

------------------------------ MODULE TenantSync ------------------------------
(***************************************************************************)
(* A tenant that was set up on a device is registered with the server, and *)
(* then its rows follow: useTenantSync and useAdminTenantSync on the       *)
(* device, POST /api/tenants/sync on the server, and beside them the       *)
(* cycles of the sync engine, which push for whatever token the device     *)
(* holds.  The superadmin creates tenants, accounts and changes statuses   *)
(* in the same tables.                                                     *)
(*                                                                         *)
(* Each tenant of Locals is set up on a device of its own.  Three parts of *)
(* its pages hold a useTenantSync each: the set-up form, the frame of the  *)
(* admin pages and the settings page.                                      *)
(*                                                                         *)
(* Bound: maxPresses attempts to register, for each tenant.                *)
(***************************************************************************)
EXTENDS Naturals, FiniteSets

CONSTANTS
    Locals, Olds,   \* tenants set up on devices; tenants the server creates
    Slugs, Users,   \* short names and user names
    Sites,          \* what may happen at the places looked at, see Site
    None, Unknown

Hooks == {"setup", "frame", "settings"}
Pages == {"frame", "settings"}
Kinds == {"member", "card", "tx"}

(* who: tenants set up; slug, user: what the form is given; hooks: the      *)
(* parts in use; old: the tenants and admins the server has before; held:   *)
(* devices that hold a token of an old tenant; loses: are requests and      *)
(* answers lost; refuses: are members refused; kinds: rows the device       *)
(* makes; late: does it also make them while a page pushes; admin: what the *)
(* superadmin does; patchers: status changes under way at a time.           *)
Site == [who: SUBSET Locals, slug: [Locals -> Slugs], user: [Locals -> Users], hooks: SUBSET Hooks,
         old: SUBSET [id: Olds, slug: Slugs, user: Users],
         held: SUBSET Locals, loses: BOOLEAN, refuses: BOOLEAN, kinds: SUBSET Kinds, late: BOOLEAN, maxPresses: Nat,
         admin: SUBSET {"tenant", "account", "status"}, patchers: 0..2]

ASSUME TenantAssumption ==
    /\ Sites \subseteq Site /\ Sites # {}
    /\ \A s \in Sites : s.held # {} => s.old # {}

VARIABLES
    site,               \* never changes
    tenants, accounts,  \* the server's tables
    config, user,       \* the device's local tenant and its admin's name
    token,              \* the tenant the device's access token is for
    hook, req,          \* hook[t][h], and the request it has under way
    page,               \* page[t][h]: localConfig, syncStep, syncError
    presses,
    rows,               \* rows[t][k]: the device's member, card, transaction
    filed,              \* filed[t][k]: tenants under which the server has it
    create, patch,      \* requests of the superadmin
    lost, refused       \* history: a 201 was lost; a member was refused

tables == <<tenants, accounts>>
device == <<config, user, token>>
ui     == <<hook, req, page, presses>>
data   == <<rows, filed>>
super  == <<create, patch>>
history == <<lost, refused>>
vars == <<site, tables, device, ui, data, super, history>>

Ids    == Locals \cup Olds
Roles  == {"admin", "staff"}
Status == {"active", "suspended", "archived"}
Tenant == [id: Ids, slug: Slugs, status: Status]
Account == [tenant: Ids, user: Users, role: Roles]
Conflict == [type: {"slug_only", "admin_only", "slug_and_admin"}, with: Ids \cup {Unknown}]

Config == [mode: {"local", "synced"}, slug: Slugs]

(* Device and server make identifiers at random, so neither makes one of    *)
(* the other's; what is not there is no record.                            *)
ASSUME NamesAssumption ==
    /\ Locals \cap Olds = {} /\ {None, Unknown} \cap Ids = {}
    /\ None \notin Conflict /\ None \notin Config

(* A request: what it carries, and what its handler has read so far.  It    *)
(* stays after its end, for retryWithChanges.                              *)
NoRequest == [at |-> "idle", slug |-> None, user |-> None, bySlug |-> None, answer |-> None]
NoHook    == [status |-> "idle", conflict |-> None]
FreshPage(cfg) == [seen |-> cfg, step |-> "none", error |-> FALSE]
Steps     == {"none", "syncing-tenant", "member", "card", "tx", "complete"}

TypeOK ==
    /\ site \in Sites /\ tenants \subseteq Tenant /\ accounts \subseteq Account
    /\ config \in [Locals -> Config \cup {None}]
    /\ user \in [Locals -> Users] /\ token \in [Locals -> Ids \cup {None}]
    /\ \A t \in Locals, h \in Hooks :
         /\ hook[t][h].status \in {"idle", "syncing", "success", "conflict", "error"}
         /\ hook[t][h].conflict \in Conflict \cup {None}
         /\ hook[t][h].status = "syncing" <=> req[t][h].at # "idle"
         /\ req[t][h].at \in {"idle", "slug", "user", "insert", "recheck", "done"}
    /\ \A t \in Locals, h \in Pages : page[t][h].step \in Steps
    /\ \A t \in Locals : presses[t] \in 0..site.maxPresses
    /\ rows \in [Locals -> [Kinds -> {"none", "pending", "synced"}]]
    /\ filed \in [Locals -> [Kinds -> SUBSET Ids]]
    /\ create.at \in {"idle", "user", "insert"} /\ patch \in [1..2 -> Status \cup {None}]
    /\ lost \in [Locals -> BOOLEAN] /\ refused \in [Locals -> BOOLEAN]

FirstOf(S) == CHOOSE x \in S : TRUE

Init ==
    /\ site \in Sites
    /\ tenants = {[id |-> o.id, slug |-> o.slug, status |-> "active"] : o \in site.old}
    /\ accounts = {[tenant |-> o.id, user |-> o.user, role |-> "admin"] : o \in site.old}
    /\ config = [t \in Locals |-> None] /\ user = site.user
    /\ token = [t \in Locals |-> IF t \in site.held THEN FirstOf(site.old).id ELSE None]
    /\ hook = [t \in Locals |-> [h \in Hooks |-> NoHook]]
    /\ req = [t \in Locals |-> [h \in Hooks |-> NoRequest]]
    /\ page = [t \in Locals |-> [h \in Pages |-> FreshPage(None)]]
    /\ presses = [t \in Locals |-> 0]
    /\ rows = [t \in Locals |-> [k \in Kinds |-> "none"]]
    /\ filed = [t \in Locals |-> [k \in Kinds |-> {}]]
    /\ create = [at |-> "idle", bySlug |-> None] /\ patch = [p \in 1..2 |-> None]
    /\ lost = [t \in Locals |-> FALSE] /\ refused = [t \in Locals |-> FALSE]

WithSlug(slug) == {x \in tenants : x.slug = slug}
Admins(name)   == {a \in accounts : a.user = name /\ a.role = "admin"}
Named(name)    == {a \in accounts : a.user = name}
Registered(t)  == \E x \in tenants : x.id = t

-----------------------------------------------------------------------------
(* The device: performSync and its callers.                                *)

(* performSync up to its fetch.                                            *)
Begin(t, h, slug, name) ==
    /\ hook[t][h].status # "syncing"
    /\ presses[t] < site.maxPresses
    /\ presses' = [presses EXCEPT ![t] = @ + 1]
    /\ hook' = [hook EXCEPT ![t][h] = [status |-> "syncing", conflict |-> None]]
    /\ req' = [req EXCEPT ![t][h] = [NoRequest EXCEPT !.at = "slug", !.slug = slug, !.user = name]]

(* handleSetup: the tenant is stored, and registered if the device is      *)
(* online.  The form has asked the server whether the slug is taken, but   *)
(* takes no answer for a no.                                               *)
SetUp(t) ==
    /\ t \in site.who /\ config[t] = None
    /\ config' = [config EXCEPT ![t] = [mode |-> "local", slug |-> site.slug[t]]]
    /\ \/ "setup" \in site.hooks /\ Begin(t, "setup", site.slug[t], user[t])
       \/ UNCHANGED <<hook, req, presses>>
    /\ UNCHANGED <<site, tables, user, token, page, data, super, history>>

(* isSyncingToServer.                                                      *)
Busy(t, h) == hook[t][h].status = "syncing" \/ page[t][h].step \notin {"none", "complete"}

(* A page is opened, or left and opened again when nothing is under way;    *)
(* it reads the configuration once.                                        *)
Open(t, h) ==
    /\ h \in site.hooks \cap Pages /\ config[t] # None
    /\ ~Busy(t, h) \/ page[t][h].error
    /\ page' = [page EXCEPT ![t][h] = FreshPage(config[t])]
    /\ hook' = [hook EXCEPT ![t][h] = NoHook]
    /\ UNCHANGED <<site, tables, device, req, presses, data, super, history>>

(* handleSyncToServer: only for a tenant the page takes for local.         *)
Press(t, h) ==
    /\ h \in site.hooks \cap Pages
    /\ page[t][h].seen # None /\ page[t][h].seen.mode = "local" /\ ~Busy(t, h)
    /\ Begin(t, h, page[t][h].seen.slug, user[t])
    /\ page' = [page EXCEPT ![t][h].step = "syncing-tenant", ![t][h].error = FALSE]
    /\ UNCHANGED <<site, tables, device, data, super, history>>

(* The whole of performSync again, outside handleSyncToServer.              *)
RetryWithChanges(t, slug, name) == Begin(t, "settings", slug, name)

(* SyncConflictDialog, on the settings page: what was taken is changed.     *)
Retry(t, slug, name) ==
    LET c == hook[t]["settings"].conflict
        last == req[t]["settings"] IN
    /\ c # None /\ ~Busy(t, "settings")
    /\ IF c.type = "admin_only" THEN slug = last.slug ELSE slug # last.slug
    /\ IF c.type = "slug_only" THEN name = last.user ELSE name # last.user
    /\ RetryWithChanges(t, slug, name)
    /\ UNCHANGED <<site, tables, device, page, data, super, history>>

(* reset.                                                                  *)
Dismiss(t) ==
    /\ hook[t]["settings"].conflict # None
    /\ hook' = [hook EXCEPT ![t]["settings"].status = "idle", ![t]["settings"].conflict = None]
    /\ UNCHANGED <<site, tables, device, req, page, presses, data, super, history>>

(* The access token and the configuration that a 201 leaves behind.        *)
Granted(t, h) == req[t][h].answer = None

SavedUser(t, h) == req[t][h].user

SavedConfig(t, h) == [mode |-> "synced", slug |-> req[t][h].slug]

TokenAfter(t, h) == IF Granted(t, h) THEN t ELSE token[t]

NextStep(step) ==
    CASE step = "syncing-tenant" -> "member" [] step = "member" -> "card" [] step = "card" -> "tx"
      [] OTHER -> "complete"

(* Mutant: without a token the step stays where it is.                     *)
StepAfterKeeps(t, h, granted) ==
    IF h \in Pages /\ granted /\ page[t][h].step = "syncing-tenant"
      THEN [page EXCEPT ![t][h].step = NextStep(@)]
    ELSE page

(* What becomes of the page that waits for the registration.               *)
StepAfter(t, h, granted) ==
    IF h \in Pages /\ page[t][h].step = "syncing-tenant"
      THEN [page EXCEPT ![t][h].step = IF granted THEN NextStep(@) ELSE "none"]
    ELSE page

Answered(t, h) ==
    /\ req[t][h].at = "done"
    /\ token' = [token EXCEPT ![t] = TokenAfter(t, h)]
    /\ IF Granted(t, h)
         THEN /\ config' = [config EXCEPT ![t] = SavedConfig(t, h)]
              /\ user' = [user EXCEPT ![t] = SavedUser(t, h)]
         ELSE UNCHANGED <<config, user>>
    /\ hook' = [hook EXCEPT ![t][h].status = IF Granted(t, h) THEN "success" ELSE "conflict",
                            ![t][h].conflict = req[t][h].answer]
    /\ req' = [req EXCEPT ![t][h].at = "idle"]
    /\ page' = StepAfter(t, h, Granted(t, h))
    /\ UNCHANGED <<site, tables, presses, data, super, history>>

(* fetch throws: the request or its answer was lost.                       *)
Lost(t, h) ==
    /\ site.loses /\ req[t][h].at \in {"slug", "done"}
    /\ lost' = [lost EXCEPT ![t] = @ \/ (req[t][h].at = "done" /\ Granted(t, h))]
    /\ hook' = [hook EXCEPT ![t][h].status = "error"]
    /\ req' = [req EXCEPT ![t][h].at = "idle"]
    /\ page' = StepAfter(t, h, FALSE)
    /\ UNCHANGED <<site, tables, device, presses, data, super, refused>>

(* The pages are loaded anew, and what they were waiting for is dropped.   *)
(* (A reload while the handler is at work is taken when it has answered.)  *)
Reload(t) ==
    /\ site.loses /\ config[t] # None
    /\ \A h \in Hooks : req[t][h].at \in {"idle", "slug", "done"}
    /\ lost' = [lost EXCEPT ![t] = @ \/ \E h \in Hooks : req[t][h].at = "done" /\ Granted(t, h)]
    /\ hook' = [hook EXCEPT ![t] = [h \in Hooks |-> NoHook]]
    /\ req' = [req EXCEPT ![t] = [h \in Hooks |-> NoRequest]]
    /\ page' = [page EXCEPT ![t] = [h \in Pages |-> FreshPage(None)]]
    /\ UNCHANGED <<site, tables, device, presses, data, super, refused>>

-----------------------------------------------------------------------------
(* The server: POST /api/tenants/sync, one statement at a time.            *)
Handler == UNCHANGED <<site, device, hook, page, presses, data, super, history>>
Put(t, h, at, answer) == req' = [req EXCEPT ![t][h].at = at, ![t][h].answer = answer]

ReadSlug(t, h) ==
    /\ req[t][h].at = "slug"
    /\ req' = [req EXCEPT ![t][h].at = "user",
                          ![t][h].bySlug = IF WithSlug(req[t][h].slug) = {} THEN None
                                           ELSE FirstOf(WithSlug(req[t][h].slug)).id]
    /\ UNCHANGED tables /\ Handler

(* handleConflictResponse.                                                 *)
Verdict(bySlug, byUser) ==
    IF bySlug # None /\ byUser # {} THEN [type |-> "slug_and_admin", with |-> bySlug]
    ELSE IF bySlug # None THEN [type |-> "slug_only", with |-> bySlug]
    ELSE [type |-> "admin_only", with |-> FirstOf(byUser).tenant]

ReadUser(t, h) ==
    /\ req[t][h].at = "user"
    /\ LET byUser == Admins(req[t][h].user) IN
         IF req[t][h].bySlug = None /\ byUser = {} THEN Put(t, h, "insert", None)
         ELSE Put(t, h, "done", Verdict(req[t][h].bySlug, byUser))
    /\ UNCHANGED tables /\ Handler

(* The primary key, the slug and the user name are UNIQUE, and the batch   *)
(* stores both rows or none.                                               *)
Fits(id, slug, name) == ~Registered(id) /\ WithSlug(slug) = {} /\ Named(name) = {}

Stored(id, slug, name) ==
    /\ tenants' = tenants \cup {[id |-> id, slug |-> slug, status |-> "active"]}
    /\ accounts' = accounts \cup {[tenant |-> id, user |-> name, role |-> "admin"]}

Insert(t, h) ==
    /\ req[t][h].at = "insert"
    /\ IF Fits(t, req[t][h].slug, req[t][h].user)
         THEN Stored(t, req[t][h].slug, req[t][h].user) /\ Put(t, h, "done", None)
         ELSE UNCHANGED tables /\ Put(t, h, "recheck", None)
    /\ Handler

(* Mutant: only the slug is looked up again.                               *)
RecheckedSlugOnly(slug, name) ==
    IF WithSlug(slug) = {} THEN [type |-> "slug_and_admin", with |-> Unknown]
    ELSE Verdict(FirstOf(WithSlug(slug)).id, {})

(* handleRaceConditionConflict.                                            *)
Rechecked(slug, name) ==
    IF WithSlug(slug) = {} /\ Admins(name) = {} THEN [type |-> "slug_and_admin", with |-> Unknown]
    ELSE Verdict(IF WithSlug(slug) = {} THEN None ELSE FirstOf(WithSlug(slug)).id, Admins(name))

Recheck(t, h) ==
    /\ req[t][h].at = "recheck"
    /\ Put(t, h, "done", Rechecked(req[t][h].slug, req[t][h].user))
    /\ UNCHANGED tables /\ Handler

-----------------------------------------------------------------------------
(* The rows of the tenant.                                                 *)

UnderWay(t, h) == page[t][h].step \notin {"none", "complete"} /\ ~page[t][h].error

(* The sections create rows: a member, then a card, then a transaction.    *)
Before(k) == CASE k = "member" -> "member" [] k = "card" -> "member" [] k = "tx" -> "card"
NewRow(t, k) ==
    /\ config[t] # None /\ k \in site.kinds /\ rows[t][k] = "none"
    /\ site.late \/ \A h \in Pages : ~UnderWay(t, h)
    /\ k # "member" => rows[t][Before(k)] # "none"
    /\ rows' = [rows EXCEPT ![t][k] = "pending"]
    /\ UNCHANGED <<site, tables, device, ui, filed, super, history>>

(* Each push skips a device without a token and sends what is pending; the *)
(* server files the rows under the tenant of the token, unless it refuses  *)
(* a row.  down: nothing arrives; lost: the answer does not.               *)
Outcomes == IF site.loses THEN {"ok", "down", "lost"} ELSE {"ok"}
PendingOf(t, ks) == {k \in ks : rows[t][k] = "pending"}
Refusals(t, ks) == IF site.refuses THEN SUBSET (PendingOf(t, ks) \cap {"member"}) ELSE {{}}

Filed(t, ks, outcome, no) ==
    [k \in Kinds |-> IF k \in PendingOf(t, ks) \ no /\ outcome # "down" THEN filed[t][k] \cup {token[t]}
                     ELSE filed[t][k]]
Marked(t, ks, outcome, no) ==
    [k \in Kinds |-> IF k \in PendingOf(t, ks) \ no /\ outcome = "ok" THEN "synced" ELSE rows[t][k]]

(* A step of handleSyncToServer: syncPushMembers, syncPushCards, syncPush. *)
(* One that fails ends the sequence and leaves the step where it is.       *)
PushStep(t, h) ==
    /\ page[t][h].step \in Kinds /\ ~page[t][h].error
    /\ LET k == page[t][h].step IN
         \E outcome \in Outcomes, no \in Refusals(t, {k}) :
           /\ PendingOf(t, {k}) = {} => outcome = "ok"
           /\ filed' = [filed EXCEPT ![t] = Filed(t, {k}, outcome, no)]
           /\ rows' = [rows EXCEPT ![t] = Marked(t, {k}, outcome, no)]
           /\ refused' = [refused EXCEPT ![t] = @ \/ no # {}]
           /\ page' = IF outcome # "ok" THEN [page EXCEPT ![t][h].error = TRUE]
                      ELSE [page EXCEPT ![t][h].step = NextStep(k),
                                        ![t][h].seen = IF NextStep(k) = "complete" THEN config[t] ELSE @]
    /\ UNCHANGED <<site, tables, device, hook, req, presses, super, lost>>

(* A cycle of the sync engine: the entities in one request, members first, *)
(* and whatever comes of it the transactions in another.                   *)
Cycle(t) ==
    /\ config[t] # None /\ token[t] # None
    /\ PendingOf(t, Kinds) # {}
    /\ \E e, x \in Outcomes, no \in Refusals(t, {"member"}) :
         /\ filed' = [filed EXCEPT ![t] = [Filed(t, {"member", "card"}, e, no)
                                            EXCEPT !["tx"] = Filed(t, {"tx"}, x, {})["tx"]]]
         /\ rows' = [rows EXCEPT ![t] = [Marked(t, {"member", "card"}, e, no)
                                           EXCEPT !["tx"] = Marked(t, {"tx"}, x, {})["tx"]]]
         /\ refused' = [refused EXCEPT ![t] = @ \/ no # {}]
    /\ UNCHANGED <<site, tables, device, ui, super, lost>>

-----------------------------------------------------------------------------
(* The superadmin: createTenant, createAccount and updateTenantStatus.     *)
Free == {id \in Olds : ~Registered(id)}

StartCreate(slug) ==
    /\ "tenant" \in site.admin /\ create.at = "idle" /\ Free # {}
    /\ WithSlug(slug) = {}
    /\ create' = [at |-> "user", bySlug |-> slug]
    /\ UNCHANGED <<site, tables, device, ui, data, patch, history>>

(* Unlike the device's request this one looks at accounts of every role.   *)
CheckCreate(name) ==
    /\ create.at = "user"
    /\ create' = IF Named(name) # {} THEN [at |-> "idle", bySlug |-> None]
                 ELSE [at |-> "insert", bySlug |-> create.bySlug, user |-> name]
    /\ UNCHANGED <<site, tables, device, ui, data, patch, history>>

FinishCreate ==
    /\ create.at = "insert"
    /\ LET id == FirstOf(Free) IN
         IF Fits(id, create.bySlug, create.user) THEN Stored(id, create.bySlug, create.user)
         ELSE UNCHANGED tables
    /\ create' = [at |-> "idle", bySlug |-> None]
    /\ UNCHANGED <<site, device, ui, data, patch, history>>

(* createAccount, and POST /api/accounts: the INSERT is the check.         *)
CreateAccount(id, name, role) ==
    /\ "account" \in site.admin
    /\ Registered(id) /\ Named(name) = {}
    /\ accounts' = accounts \cup {[tenant |-> id, user |-> name, role |-> role]}
    /\ UNCHANGED <<site, tenants, device, ui, data, super, history>>

(* VALID_TRANSITIONS.                                                      *)
Allowed(from, to) ==
    \/ from = "active" /\ to \in {"suspended", "archived"}
    \/ from = "suspended" /\ to \in {"active", "archived"}

Changeable == FirstOf(Olds)
StatusOf(id) == (CHOOSE x \in tenants : x.id = id).status

(* The status is read and the change is allowed ...                        *)
CheckStatus(p, to) ==
    /\ "status" \in site.admin /\ p <= site.patchers
    /\ patch[p] = None /\ Registered(Changeable) /\ Allowed(StatusOf(Changeable), to)
    /\ patch' = [patch EXCEPT ![p] = to]
    /\ UNCHANGED <<site, tables, device, ui, data, create, history>>

(* ... then the row is updated.                                            *)
UpdateStatus(p) ==
    /\ patch[p] # None
    /\ tenants' = {IF x.id = Changeable THEN [x EXCEPT !.status = patch[p]] ELSE x : x \in tenants}
    /\ patch' = [patch EXCEPT ![p] = None]
    /\ UNCHANGED <<site, accounts, device, ui, data, create, history>>

-----------------------------------------------------------------------------
Handle(t, h) == ReadSlug(t, h) \/ ReadUser(t, h) \/ Insert(t, h) \/ Recheck(t, h)

Superadmin ==
    \/ \E slug \in Slugs : StartCreate(slug)
    \/ \E name \in Users : CheckCreate(name)
    \/ FinishCreate
    \/ \E id \in Ids, name \in Users, role \in Roles : CreateAccount(id, name, role)
    \/ \E p \in 1..2 : UpdateStatus(p) \/ \E to \in Status : CheckStatus(p, to)

Next ==
    \/ \E t \in Locals :
         \/ SetUp(t) \/ Dismiss(t) \/ Reload(t) \/ Cycle(t)
         \/ \E slug \in Slugs, name \in Users : Retry(t, slug, name)
         \/ \E k \in Kinds : NewRow(t, k)
         \/ \E h \in Hooks : Answered(t, h) \/ Lost(t, h) \/ Handle(t, h)
         \/ \E h \in Pages : Open(t, h) \/ Press(t, h) \/ PushStep(t, h)
    \/ Superadmin

Spec == Init /\ [][Next]_vars

(* The handler ends, fetch returns or throws, and the sequence goes on.    *)
FairSpec ==
    Spec /\ \A t \in Locals :
              /\ \A h \in Hooks : WF_vars(Handle(t, h) \/ Answered(t, h))
              /\ \A h \in Pages : WF_vars(PushStep(t, h))

-----------------------------------------------------------------------------
(* Properties.                                                             *)

(* What the device believes of a synced tenant is what the server has: its *)
(* slug and the name of its admin, after any conflicts, retries and races  *)
(* of the three parts that register it.                                    *)
ConfigMatchesServer ==
    \A t \in Locals : config[t] # None /\ config[t].mode = "synced" =>
        /\ \E x \in tenants : x.id = t /\ x.slug = config[t].slug
        /\ [tenant |-> t, user |-> user[t], role |-> "admin"] \in accounts

(* A tenant the server has registered is synced on its device as soon as   *)
(* no request is under way, unless the answer that said so was lost.       *)
RegisteredIsKnown ==
    \A t \in Locals :
        Registered(t) /\ ~lost[t] /\ (\A h \in Hooks : req[t][h].at = "idle") => config[t].mode = "synced"

(* The rows of a tenant are filed under that tenant, on a device that did  *)
(* not hold a token of another one before.                                 *)
RowsFollowTenant ==
    \A t \in Locals : t \notin site.held => \A k \in Kinds : filed[t][k] \subseteq {t}

(* bugfix.md of tenant-sync-ordering-fix, line 27: "the system SHALL first *)
(* push the tenant record via POST /api/tenants/sync and wait for          *)
(* confirmation (201 response) before pushing any other data".             *)
TenantGoesFirst == \A t \in Locals : \A k \in Kinds : filed[t][k] # {} => Registered(t)

(* Requirement 2.2 there: a card reaches the server after its member,      *)
(* unless the server refused the member, or both were made after the       *)
(* page's sequence had passed the members.                                 *)
CardsFollowMembers ==
    ~site.late => \A t \in Locals : filed[t]["card"] \subseteq filed[t]["member"] \/ refused[t] \/ t \in site.held

(* A conflict with an unknown tenant says that this very tenant is already *)
(* registered, or that the name belongs to an account that is no admin.    *)
UnknownIsSelfOrStaff ==
    \A t \in Locals, h \in Hooks :
        hook[t][h].conflict # None /\ hook[t][h].conflict.with = Unknown =>
            Registered(t) \/ \E a \in Named(req[t][h].user) : a.role = "staff"

(* Device and server agree on a registration, whichever way its parts met  *)
(* conflicts, retries, lost answers and each other, and the rows that      *)
(* reach the server come under their tenant and after the rows they point  *)
(* to (and the state is well typed).                                       *)
RegistrationAgrees ==
    /\ TypeOK
    /\ ConfigMatchesServer /\ RegisteredIsKnown /\ UnknownIsSelfOrStaff
    /\ RowsFollowTenant /\ CardsFollowMembers

(* A page that registers its tenant comes to an end of it: with a conflict *)
(* or an error, or with everything pushed.                                 *)
RegistrationEnds == \A t \in Locals, h \in Pages : UnderWay(t, h) ~> ~UnderWay(t, h)
=============================================================================

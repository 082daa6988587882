--------------------------- MODULE SuperadminPages ---------------------------
(***************************************************************************)
(* The superadmin's page (SuperadminSection.tsx and its panels and dialogs) *)
(* and the handlers of /api/superadmin that it calls.  The page reads       *)
(* through queries, whose answers are cached, shared and refetched by the   *)
(* query library, and writes through one mutation for each kind of change.  *)
(* A call's answer may be lost while its handler goes on, another           *)
(* superadmin may change the same rows, tokens expire.                      *)
(*                                                                         *)
(* The query library is external; of it the module has what the page leans  *)
(* on: one fetch at a time for a key; an invalidation refetches at once the *)
(* keys a mounted component uses, replacing a fetch under way only if there *)
(* are data already; an answer makes its key fresh; nothing is retried.     *)
(*                                                                         *)
(* Bounds: Slots calls at a time, MaxLogins tokens, and of a visit the keys  *)
(* that are read, the statuses chosen for tenants (aims), the accounts there *)
(* are at first and the switches.                                           *)
(***************************************************************************)
EXTENDS Naturals, FiniteSets

CONSTANTS
    Tenants, Accounts, Self,   \* rows, and the superadmin's own account
    Slots, MaxLogins, Visits, None

Ops   == {"tenantStatus", "createTenant", "accountStatus", "createAccount", "changePassword"}
Lists == {"tenants", "accounts", "options"}
Keys  == Tenants \cup Lists

Visit == [ops: SUBSET Ops, keys: SUBSET Keys, aims: SUBSET {"active", "suspended", "archived"}, there: SUBSET Accounts, loses: BOOLEAN, others: BOOLEAN, expires: BOOLEAN, leaves: BOOLEAN]

(* Rows of the two tables and keys are different things; a visit that makes  *)
(* a tenant reads the list of tenants if it reads details at all.           *)
ASSUME PagesAssumption ==
    /\ Self \in Accounts /\ Slots \subseteq Nat /\ IsFiniteSet(Slots)
    /\ MaxLogins \in Nat \ {0} /\ Visits \subseteq Visit
    /\ Tenants \cap Accounts = {} /\ Tenants \cap Lists = {} /\ None \notin Tenants
    /\ \A v \in Visits : "createTenant" \in v.ops /\ v.keys \cap Tenants # {} => "tenants" \in v.keys

VARIABLES
    visit,
    tenants, accounts,   \* statuses of the rows of the server, or "none"
    token, expired,      \* localStorage's superadmin-token (0: none); tokens
    signedIn,            \* isAuthenticated
    section, selected,   \* activeSection, selectedTenantId (None: the list)
    seen,                \* the tenant whose detail was the last to have data
    cache, fetch,        \* of each query
    old,                 \* tokens of fetches that were replaced
    confirm,             \* confirmTarget of the TenantDetailPanel
    dialog,              \* the open dialog of an operation and whom it names
    calls,               \* requests that change something
    excused, met, dismissed   \* history, see the properties

server == <<tenants, accounts>>
auth   == <<token, expired, signedIn>>
view   == <<section, selected, seen, confirm, dialog>>
query  == <<cache, fetch, old>>
ghost  == <<excused, met, dismissed>>
pageVars == <<visit, server, auth, view, query, calls, ghost>>

Transitions == [active |-> {"suspended", "archived"}, suspended |-> {"active", "archived"}, archived |-> {}]

NoData  == [data |-> None, stale |-> TRUE, failed |-> FALSE]
NoFetch == [at |-> "idle", data |-> None, token |-> 0]
NoCall  == [op |-> "none", on |-> None, to |-> "none", token |-> 0, at |-> "idle", says |-> "", heard |-> "none"]
Tokens  == 0..MaxLogins

PagesTypeOK ==
    /\ visit \in Visits
    /\ tenants \in [Tenants -> DOMAIN Transitions \cup {"none"}]
    /\ accounts \in [Accounts -> {"none", "active", "suspended"}]
    /\ token \in Tokens /\ expired \subseteq Tokens /\ signedIn \in BOOLEAN
    /\ section \in {"tenants", "accounts"} /\ selected \in Tenants \cup {None} /\ seen \in Tenants \cup {None}
    /\ confirm \in DOMAIN Transitions \cup {None}
    /\ \A k \in Keys : /\ cache[k].stale \in BOOLEAN /\ cache[k].failed \in BOOLEAN
                       /\ fetch[k].at \in {"idle", "sent", "answer"} /\ fetch[k].token \in Tokens
    /\ old \subseteq Tokens
    /\ DOMAIN dialog = Ops
    /\ \A s \in Slots : /\ calls[s].op \in Ops \cup {"none"} /\ calls[s].at \in {"idle", "sent", "checked", "answer"}
                        /\ calls[s].heard \in {"page", "cache", "none"}
    /\ excused \subseteq Keys /\ met \subseteq Tenants /\ dismissed \subseteq Ops

PagesInit ==
    /\ visit \in Visits
    /\ \E T \in {Tenants, {CHOOSE t \in Tenants : TRUE}} :
         /\ tenants = [t \in Tenants |-> IF t \in T THEN "active" ELSE "none"]
         /\ T # Tenants <=> "createTenant" \in visit.ops
    /\ accounts = [a \in Accounts |-> IF a \in visit.there THEN "active" ELSE "none"]
    /\ token = 0 /\ expired = {} /\ signedIn = FALSE
    /\ section = "tenants" /\ selected = None /\ seen = None /\ confirm = None
    /\ cache = [k \in Keys |-> NoData] /\ fetch = [k \in Keys |-> NoFetch] /\ old = {}
    /\ dialog = [op \in Ops |-> None] /\ calls = [s \in Slots |-> NoCall]
    /\ excused = {} /\ met = {} /\ dismissed = {}

Pending(op) == \E s \in Slots : calls[s].op = op /\ calls[s].heard = "page"
Free(s)     == calls[s] = NoCall /\ \A o \in Slots : o < s => calls[o] # NoCall
Quiet       == confirm = None /\ \A op \in Ops : dialog[op] = None

-----------------------------------------------------------------------------
(* The queries.                                                            *)

(* Where the queries are enabled.                                           *)
UsesTenants   == signedIn
UsesAccounts  == signedIn /\ section = "accounts"
UsesOptions   == dialog["createAccount"] # None
UsesDetail(t) == selected = t

InUse(k) ==
    /\ k \in visit.keys
    /\ CASE k = "tenants"  -> UsesTenants
         [] k = "accounts" -> UsesAccounts
         [] k = "options"  -> UsesOptions
         [] OTHER          -> UsesDetail(k)

StartOf(k, tok) == [at |-> "sent", data |-> None, token |-> tok]

Fetch(k) ==
    /\ InUse(k) /\ fetch[k].at = "idle" /\ cache[k].stale
    /\ fetch' = [fetch EXCEPT ![k] = StartOf(k, token)]
    /\ cache' = [cache EXCEPT ![k].failed = @ /\ cache[k].data # None]
    /\ UNCHANGED <<visit, server, auth, view, old, calls, ghost>>

(* Mutant: a fetch under way is never replaced.                             *)
ReplacesNothing(k) == FALSE

(* A fetch under way is replaced: its answer will not be used.              *)
Replaces(k) == cache[k].data # None

(* What the mutations invalidate when they have succeeded.                  *)
AfterStatus(t)     == {t, "tenants"}
AfterTenant        == {"tenants"}
AfterAccount       == {"accounts"}
AfterAccountStatus == {"accounts"}
AfterPassword      == {}

Invalidates(op, on) ==
    CASE op = "tenantStatus"  -> AfterStatus(on)
      [] op = "createTenant"  -> AfterTenant
      [] op = "createAccount" -> AfterAccount
      [] op = "accountStatus" -> AfterAccountStatus
      [] OTHER -> AfterPassword

(* invalidateQueries.  It comes too late for a fetch it does not replace:   *)
(* the answer will make the key fresh again.                                *)
Invalidate(K, tok) ==
    LET refetched == {k \in K : InUse(k) /\ (fetch[k].at = "idle" \/ Replaces(k))} IN
    /\ cache' = [k \in Keys |-> IF k \in K /\ cache[k].data # None THEN [cache[k] EXCEPT !.stale = TRUE] ELSE cache[k]]
    /\ fetch' = [k \in Keys |-> IF k \in refetched THEN StartOf(k, tok) ELSE fetch[k]]
    /\ old' = old \cup {fetch[k].token : k \in {j \in refetched : fetch[j].at # "idle"}}
    /\ excused' = excused \cup {k \in K : fetch[k].at # "idle" /\ ~(InUse(k) /\ cache[k].data # None)}

(* verifyToken and requireSuperadmin.                                       *)
Accepts(tok) == tok # 0 /\ tok \notin expired /\ accounts[Self] = "active"

(* handleResponse on 401 or 403: whatever token there is now is removed.    *)
ShutOut ==
    /\ token' = 0 /\ signedIn' = FALSE /\ confirm' = None
    /\ UNCHANGED <<expired, section, selected, seen, dialog>>

(* What the handlers of the GETs answer.  A detail is its tenant's status,  *)
(* a list the statuses of all rows.                                         *)
TenantList  == tenants
AccountList == accounts
Detail(t)   == tenants[t]

AnswerTo(k) == IF k = "accounts" THEN AccountList ELSE IF k \in Tenants THEN Detail(k) ELSE TenantList

ServeFetch(k) ==
    /\ fetch[k].at = "sent"
    /\ fetch' = [fetch EXCEPT ![k].at = "answer", ![k].data = IF Accepts(fetch[k].token) THEN AnswerTo(k) ELSE None]
    /\ UNCHANGED <<visit, server, auth, view, cache, old, calls, ghost>>

(* The answer, or an error for want of one.                                 *)
EndFetch(k) ==
    /\ fetch[k].at = "answer" /\ fetch' = [fetch EXCEPT ![k] = NoFetch]
    /\ IF fetch[k].data # None
       THEN /\ cache' = [cache EXCEPT ![k] = [data |-> fetch[k].data, stale |-> FALSE, failed |-> FALSE]]
            /\ seen' = IF k = selected THEN k ELSE seen
            /\ UNCHANGED <<auth, section, selected, confirm, dialog>>
       ELSE cache' = [cache EXCEPT ![k].failed = TRUE, ![k].stale = TRUE] /\ ShutOut
    /\ UNCHANGED <<visit, server, old, calls, ghost>>

LoseFetch(k) ==
    /\ visit.loses /\ fetch[k].at # "idle"
    /\ fetch' = [fetch EXCEPT ![k] = NoFetch]
    /\ cache' = [cache EXCEPT ![k].failed = TRUE, ![k].stale = TRUE]
    /\ UNCHANGED <<visit, server, auth, view, old, calls, ghost>>

(* A fetch that was replaced still goes through handleResponse.             *)
EndOld(tok) ==
    /\ tok \in old /\ old' = old \ {tok}
    /\ IF Accepts(tok) THEN UNCHANGED <<auth, view>> ELSE ShutOut
    /\ UNCHANGED <<visit, server, cache, fetch, calls, ghost>>

(* Half a minute passes.                                                    *)
Age(k) ==
    /\ visit.others /\ cache[k].data # None /\ ~cache[k].stale
    /\ cache' = [cache EXCEPT ![k].stale = TRUE]
    /\ UNCHANGED <<visit, server, auth, view, fetch, old, calls, ghost>>

-----------------------------------------------------------------------------
(* The page.                                                               *)

(* handleSuperadminLogin, up to its end.                                    *)
SignIn ==
    /\ visit.ops # {} /\ ~signedIn /\ accounts[Self] = "active"
    /\ \E tok \in Tokens \ {0} :
         /\ tok \notin expired \cup old \cup {token} \cup {fetch[k].token : k \in Keys}
                               \cup {calls[s].token : s \in Slots}
         /\ token' = tok /\ Invalidate({"tenants", "accounts"}, tok)
    /\ signedIn' = TRUE
    /\ UNCHANGED <<visit, server, expired, view, calls, met, dismissed>>

(* SuperadminLayout, whose sections come and go with the panels in them.    *)
GoTo(s) ==
    /\ signedIn /\ Quiet /\ section # s /\ s \in visit.keys /\ section' = s
    /\ UNCHANGED <<visit, server, auth, selected, seen, confirm, dialog, query, calls, ghost>>

Listed(t) ==
    /\ t \in visit.keys
    /\ "tenants" \in visit.keys => cache["tenants"].data # None /\ cache["tenants"].data[t] # "none"

(* handleSelectTenant: a tenant with data is shown at once.                 *)
SelectTenant(t) ==
    /\ signedIn /\ section = "tenants" /\ selected = None /\ Quiet /\ Listed(t)
    /\ selected' = t /\ seen' = IF cache[t].data # None THEN t ELSE seen
    /\ UNCHANGED <<visit, server, auth, section, confirm, dialog, query, calls, ghost>>

(* handleBackToList.                                                        *)
BackToList ==
    /\ signedIn /\ section = "tenants" /\ selected # None
    /\ selected' = None /\ confirm' = None
    /\ UNCHANGED <<visit, server, auth, section, seen, dialog, query, calls, ghost>>

(* The tenant the TenantDetailPanel shows: while the selected one is        *)
(* loading, placeholderData makes it the one that was shown before.         *)
Shown ==
    IF ~signedIn \/ section # "tenants" \/ selected = None \/ cache[selected].failed THEN None
    ELSE IF cache[selected].data # None THEN selected ELSE seen

(* The panel's buttons, for the transitions from the status it shows.       *)
AskStatus(to) ==
    /\ "tenantStatus" \in visit.ops /\ Quiet /\ ~Pending("tenantStatus")
    /\ Shown # None /\ to \in Transitions[cache[Shown].data] \cap visit.aims
    /\ confirm' = to
    /\ UNCHANGED <<visit, server, auth, section, selected, seen, dialog, query, calls, ghost>>

Send(s, op, on, to) ==
    /\ Free(s)
    /\ calls' = [calls EXCEPT ![s] = [op |-> op, on |-> on, to |-> to, token |-> token, at |-> "sent", says |-> "",
                                      heard |-> "page"]]

(* Mutant: the button is not disabled.                                      *)
CanAlwaysSubmit(op) == TRUE

(* A mutation takes no second call while its first is under way.            *)
CanSubmit(op) == ~Pending(op)

(* The panel's dialog and handleStatusChange.                               *)
ConfirmStatus(s) ==
    /\ confirm # None /\ Shown # None /\ CanSubmit("tenantStatus")
    /\ Send(s, "tenantStatus", selected, confirm) /\ confirm' = None
    /\ UNCHANGED <<visit, server, auth, section, selected, seen, dialog, query, ghost>>

CancelStatus ==
    /\ confirm # None /\ Shown # None /\ confirm' = None
    /\ UNCHANGED <<visit, server, auth, section, selected, seen, dialog, query, calls, ghost>>

(* A dialog opens: to create a row, or for a row of the list of accounts.   *)
Opens(op, on, to) ==
    /\ op \in visit.ops /\ signedIn /\ Quiet
    /\ dialog' = [dialog EXCEPT ![op] = [on |-> on, to |-> to]]
    /\ UNCHANGED <<visit, server, auth, section, selected, seen, confirm, query, calls, ghost>>

InList(a) == section = "accounts" /\ cache["accounts"].data # None /\ cache["accounts"].data[a] # "none"

(* handleToggleStatus keeps the status that the list shows.                 *)
Toggled(a) == IF cache["accounts"].data[a] = "active" THEN "suspended" ELSE "active"

CreateTenant      == section = "tenants" /\ Opens("createTenant", None, "active")
CreateAccount     == section = "accounts" /\ Opens("createAccount", None, "active")
ChangePassword(a) == InList(a) /\ Opens("changePassword", a, "active")
ToggleStatus(a)   == InList(a) /\ Opens("accountStatus", a, Toggled(a))

(* A dialog of the section that is not shown waits.                         *)
OnScreen(op) == signedIn /\ dialog[op] # None /\ section = IF op = "createTenant" THEN "tenants" ELSE "accounts"

Submit(s, op, on) ==
    /\ OnScreen(op) /\ CanSubmit(op)
    /\ Send(s, op, on, dialog[op].to)
    /\ dismissed' = dismissed \ {op}
    /\ UNCHANGED <<visit, server, auth, view, query, excused, met>>

(* The forms check what the server will check.  An account is made for a    *)
(* tenant of the options.                                                   *)
SubmitTenant(s, t)  == Submit(s, "createTenant", t)
SubmitAccount(s, a) == cache["options"].data # None /\ Submit(s, "createAccount", a)
SubmitPassword(s)   == Submit(s, "changePassword", dialog["changePassword"].on)
SubmitToggle(s)     == Submit(s, "accountStatus", dialog["accountStatus"].on)

(* onOpenChange(false), which nothing disables.                             *)
Dismiss(op) ==
    /\ OnScreen(op) /\ dialog' = [dialog EXCEPT ![op] = None]
    /\ dismissed' = IF Pending(op) THEN dismissed \cup {op} ELSE dismissed
    /\ UNCHANGED <<visit, server, auth, section, selected, seen, confirm, query, calls, excused, met>>

(* The superadmin leaves the page (handleLogout goes to "/" and nothing     *)
(* more) and comes back to a new one; calls under way no longer reach it.   *)
Reopen ==
    /\ visit.leaves
    /\ signedIn' = (token # 0)
    /\ section' = "tenants" /\ selected' = None /\ seen' = None /\ confirm' = None
    /\ dialog' = [op \in Ops |-> None] /\ dismissed' = {}
    /\ calls' = [s \in Slots |-> IF calls[s].heard = "page" THEN [calls[s] EXCEPT !.heard = "cache"] ELSE calls[s]]
    /\ UNCHANGED <<visit, server, token, expired, query, excused, met>>

-----------------------------------------------------------------------------
(* The server's handlers of changes.                                       *)

(* Mutant: nothing is checked.                                              *)
AnyTransition(from, to) == TRUE
IsValidTransition(from, to) == to \in Transitions[from]

Exists(t) == tenants[t] # "none"

(* What the handlers look at before they write.                             *)
TenantMayTurn(t, to)  == Exists(t) /\ IsValidTransition(tenants[t], to)
TenantMayBeMade(t)    == ~Exists(t)
AccountMayTurn(a)     == accounts[a] # "none"
PasswordMayChange(a)  == accounts[a] # "none"

MayGoOn(c) ==
    CASE c.op = "tenantStatus"   -> TenantMayTurn(c.on, c.to)
      [] c.op = "createTenant"   -> TenantMayBeMade(c.on)
      [] c.op = "accountStatus"  -> AccountMayTurn(c.on)
      [] c.op = "changePassword" -> PasswordMayChange(c.on)
      [] OTHER -> TRUE

Check(s) ==
    LET c == calls[s]
        known == c.token = 0 \/ Accepts(c.token)
        goes == known /\ MayGoOn(c)
        also == {o \in Slots \ {s} : calls[o].at = "checked" /\ calls[o].on = c.on}
    IN /\ c.at = "sent"
       /\ calls' = [calls EXCEPT ![s].at = IF goes THEN "checked" ELSE "answer",
                               ![s].says = IF ~known THEN "refused" ELSE IF goes THEN "" ELSE "no"]
       /\ met' = IF goes /\ c.on \in Tenants /\ also # {} THEN met \cup {c.on} ELSE met
       /\ UNCHANGED <<visit, server, auth, view, query, excused, dismissed>>

(* The writes: of createTenant one transaction, of createAccount one        *)
(* insert, refused if the name is taken by now; the others do not look      *)
(* again.                                                                   *)
SlugTaken(c)  == c.op = "createTenant" /\ Exists(c.on)
NameTaken(c)  == c.op = "createAccount" /\ accounts[c.on] # "none"
NewTenants(c)  == IF c.op \in {"tenantStatus", "createTenant"} THEN [tenants EXCEPT ![c.on] = c.to] ELSE tenants
NewAccounts(c) == IF c.op \in {"accountStatus", "createAccount"} THEN [accounts EXCEPT ![c.on] = c.to] ELSE accounts

Write(s) ==
    LET c == calls[s]
        taken == SlugTaken(c) \/ NameTaken(c)
    IN /\ c.at = "checked"
       /\ calls' = [calls EXCEPT ![s].at = "answer", ![s].says = IF taken THEN "no" ELSE "ok"]
       /\ IF taken THEN UNCHANGED <<server, excused>>
          ELSE /\ tenants' = NewTenants(c) /\ accounts' = NewAccounts(c)
               /\ excused' = IF c.heard = "none" THEN excused \cup Invalidates(c.op, c.on) ELSE excused
       /\ UNCHANGED <<visit, auth, view, query, met, dismissed>>

(* onSuccess and onError of the mutations.                                  *)
Answer(s) ==
    LET c == calls[s] IN
       /\ c.at = "answer" /\ calls' = [calls EXCEPT ![s] = NoCall]
       /\ IF c.heard # "none" /\ c.says = "ok" THEN Invalidate(Invalidates(c.op, c.on), token) ELSE UNCHANGED <<query, excused>>
       /\ IF c.heard # "none" /\ c.says = "refused" THEN ShutOut
          ELSE /\ dialog' = IF c.heard = "page" /\ c.says = "ok" THEN [dialog EXCEPT ![c.op] = None] ELSE dialog
               /\ UNCHANGED <<auth, section, selected, seen, confirm>>
       /\ UNCHANGED <<visit, server, met, dismissed>>

(* The connection fails; the handler may run all the same, or never.        *)
Lose(s) ==
    LET c == calls[s] IN
    /\ visit.loses /\ c.heard # "none"
    /\ \/ c.at = "sent" /\ calls' = [calls EXCEPT ![s] = NoCall]
       \/ calls' = [calls EXCEPT ![s].heard = "none"]
    /\ excused' = IF c.at = "answer" /\ c.says = "ok" THEN excused \cup Invalidates(c.op, c.on) ELSE excused
    /\ UNCHANGED <<visit, server, auth, view, query, met, dismissed>>

(* Another superadmin.                                                      *)
Other(s, op, on, to) ==
    /\ visit.others /\ op \in visit.ops /\ Free(s) /\ \A o \in Slots : calls[o].heard # "none" \/ calls[o] = NoCall
    /\ calls' = [calls EXCEPT ![s] = [NoCall EXCEPT !.op = op, !.on = on, !.to = to, !.at = "sent"]]
    /\ UNCHANGED <<visit, server, auth, view, query, ghost>>

Expire ==
    /\ visit.expires /\ token \notin expired \cup {0} /\ expired' = expired \cup {token}
    /\ UNCHANGED <<visit, server, token, signedIn, view, query, calls, ghost>>

-----------------------------------------------------------------------------
PageSteps ==
    \/ \E k \in visit.keys : Fetch(k) \/ ServeFetch(k) \/ EndFetch(k) \/ LoseFetch(k) \/ Age(k)
    \/ \E tok \in old : EndOld(tok)
    \/ SignIn \/ BackToList \/ CancelStatus \/ Reopen \/ Expire
    \/ \E s \in {"tenants", "accounts"} : GoTo(s)
    \/ \E t \in Tenants : SelectTenant(t)
    \/ \E to \in DOMAIN Transitions : AskStatus(to)
    \/ \E op \in Ops : Dismiss(op)
    \/ CreateTenant \/ CreateAccount \/ \E a \in Accounts : ChangePassword(a) \/ ToggleStatus(a)
    \/ \E s \in Slots : ConfirmStatus(s) \/ Check(s) \/ Answer(s) \/ Lose(s)
    \/ \E s \in Slots : SubmitPassword(s) \/ SubmitToggle(s)
    \/ \E s \in Slots : (\E t \in Tenants : SubmitTenant(s, t)) \/ \E a \in Accounts : SubmitAccount(s, a)
    \/ \E s \in Slots, t \in Tenants, to \in visit.aims : Other(s, "tenantStatus", t, to)

PageWrites == \E s \in Slots : Write(s)
PageNext   == PageSteps \/ PageWrites
PageSpec   == PagesInit /\ [][PageNext]_pageVars

-----------------------------------------------------------------------------
(* An answer is still to come that will invalidate k.                      *)
ToldSoon(k) == \E s \in Slots : LET c == calls[s] IN c.at = "answer" /\ c.says = "ok" /\ k \in Invalidates(c.op, c.on)

(* A list or a detail that the page holds for fresh is what the server has, *)
(* unless an answer is still to come that will invalidate it.  Excused are  *)
(* keys that were changed by a call whose answer nobody heard, and keys     *)
(* whose invalidation met a fetch that it could not replace.  (And the      *)
(* state is well typed.)                                                    *)
FreshIsCurrent == PagesTypeOK /\
    \A k \in (Keys \ {"options"}) \ excused :
      cache[k].data # None /\ ~cache[k].stale /\ ~ToldSoon(k) => cache[k].data = AnswerTo(k)

(* An archived tenant stays archived, unless two handlers were between      *)
(* their look at it and their write; which a page that hears its answers    *)
(* and is not left never brings about.                                      *)
ArchivedForGood ==
    [][/\ \A t \in Tenants \ met : tenants[t] = "archived" => tenants'[t] = "archived"
       /\ visit.loses \/ visit.others \/ visit.leaves \/ met' = {}]_pageVars

(* A success closes the dialog of the row it is about and no other one,     *)
(* unless that operation's dialog was dismissed while the call was on its   *)
(* way.                                                                     *)
SuccessIsItsOwn ==
    [][\A s \in Slots, op \in Ops \ dismissed :
         calls[s].op = op /\ calls[s].heard = "page" /\ calls[s].at = "answer" /\ calls'[s] = NoCall
         /\ dialog[op] # None /\ dialog'[op] = None
           => dialog[op].on \in {None, calls[s].on}]_pageVars

(* The tenant whose status is changed is the one that the confirmation      *)
(* dialog names.                                                            *)
ChangesWhatItShows ==
    [][\A s \in Slots :
         calls[s] = NoCall /\ calls'[s].op = "tenantStatus" /\ calls'[s].heard = "page" => calls'[s].on = Shown]_pageVars
=============================================================================

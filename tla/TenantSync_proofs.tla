-------------------------- MODULE TenantSync_proofs --------------------------
(***************************************************************************)
(* A device and the server agree on the registration of a tenant           *)
(* (Registration), for any number of devices, tenants, names, attempts,    *)
(* lost requests and answers, and steps of the superadmin.                 *)
(*                                                                         *)
(* The inductive invariant has these parts:                                *)
(*   TypeInv  what a request, a hook and a page are;                       *)
(*   UiInv    a part of the pages is either waiting for its request or     *)
(*            pushing rows, and forgets its conflict when it tries again;  *)
(*   RegInv   a 201 under way stands for the rows that were stored, and an *)
(*            INSERT that failed has met a row, which stays;               *)
(*   RowsInv  a page that has passed the members has left none pending;    *)
(*   FreeInv  an identifier that the superadmin's request needs is free.   *)
(*                                                                         *)
(* First comes what each step does to the variables (the ...Shape lemmas), *)
(* then that it keeps the invariant (the ...Keeps lemmas).                 *)
(***************************************************************************)
EXTENDS TenantSync, TLAPS

(* The types of a hook, its request and a page.                            *)
States  == {"idle", "syncing", "success", "conflict", "error"}
Ats     == {"idle", "slug", "user", "insert", "recheck", "done"}
Hook    == [status: States, conflict: Conflict \cup {None}]
Request == [at: Ats, slug: Slugs \cup {None}, user: Users \cup {None}, bySlug: Ids \cup {None}, answer: Conflict \cup {None}]
Page    == [seen: Config \cup {None}, step: Steps, error: BOOLEAN]

TablesOK == tenants \subseteq Tenant /\ accounts \subseteq Account
DeviceOK ==
    /\ config \in [Locals -> Config \cup {None}]
    /\ user \in [Locals -> Users] /\ token \in [Locals -> Ids \cup {None}]
UiOK ==
    /\ hook \in [Locals -> [Hooks -> Hook]] /\ req \in [Locals -> [Hooks -> Request]]
    /\ page \in [Locals -> [Pages -> Page]] /\ presses \in [Locals -> 0..site.maxPresses]
CarriesOK == \A t \in Locals, h \in Hooks : req[t][h].at # "idle" => req[t][h].slug \in Slugs /\ req[t][h].user \in Users
DataOK ==
    /\ rows \in [Locals -> [Kinds -> {"none", "pending", "synced"}]]
    /\ filed \in [Locals -> [Kinds -> SUBSET Ids]]
SuperOK ==
    /\ create \in [at: {"idle"}, bySlug: {None}] \cup [at: {"user"}, bySlug: Slugs]
                  \cup [at: {"insert"}, bySlug: Slugs, user: Users]
    /\ patch \in [1..2 -> Status \cup {None}]
HistoryOK == lost \in [Locals -> BOOLEAN] /\ refused \in [Locals -> BOOLEAN]

TypeInv == /\ site \in Sites /\ TablesOK /\ DeviceOK /\ UiOK /\ CarriesOK /\ DataOK /\ SuperOK /\ HistoryOK

(* A hook is syncing while its request is under way, and has no conflict    *)
(* then; a page that pushes rows has no request under way.                 *)
HookOK(t, h) ==
    /\ hook[t][h].status = "syncing" <=> req[t][h].at # "idle"
    /\ hook[t][h].status = "syncing" => hook[t][h].conflict = None
PageOK(t, h) ==
    /\ page[t][h].step \in Kinds => hook[t][h].status # "syncing"
    /\ page[t][h].error => page[t][h].step \in Kinds
UiInv == \A t \in Locals : (\A h \in Hooks : HookOK(t, h)) /\ \A h \in Pages : PageOK(t, h)

(* Before a tenant is set up, nothing is known of it anywhere.             *)
NothingYet(t) ==
    /\ ~Registered(t)
    /\ \A h \in Hooks : req[t][h].at = "idle" /\ hook[t][h].conflict = None
    /\ \A h \in Pages : page[t][h].seen = None

(* Rows of the server for tenant t.                                        *)
HasRows(t, slug, name) ==
    /\ \E x \in tenants : x.id = t /\ x.slug = slug
    /\ [tenant |-> t, user |-> name, role |-> "admin"] \in accounts
HasStaff(name) == \E a \in Named(name) : a.role = "staff"
Stands(t, h)   == req[t][h].at = "done" /\ req[t][h].answer = None
Synced(t)      == config[t] # None /\ config[t].mode = "synced"
IsUnknown(c)   == c # None /\ c.with = Unknown

(* A 201 that has not been heard yet stands for what the server has; a      *)
(* tenant that is registered is synced or will be; and an INSERT that       *)
(* failed has met a row that is still there.                               *)
DeviceInv(t) ==
    /\ config[t] = None => NothingYet(t)
    /\ Synced(t) => HasRows(t, config[t].slug, user[t])
    /\ Registered(t) /\ ~lost[t] => Synced(t) \/ \E h \in Hooks : Stands(t, h)
RequestInv(t, h) ==
    /\ Stands(t, h) => HasRows(t, req[t][h].slug, req[t][h].user)
    /\ req[t][h].at = "recheck" => Registered(t) \/ WithSlug(req[t][h].slug) # {} \/ Named(req[t][h].user) # {}
    /\ (req[t][h].at = "done" /\ IsUnknown(req[t][h].answer)) \/ IsUnknown(hook[t][h].conflict)
         => Registered(t) \/ HasStaff(req[t][h].user)
RegInv == \A t \in Locals : DeviceInv(t) /\ \A h \in Hooks : RequestInv(t, h)

(* Rows go under the tenant of the token; a page that has passed the        *)
(* members has none left that is pending.                                  *)
TokenOK(t) ==
    /\ \A h \in Pages : page[t][h].step \in Kinds => token[t] # None
    /\ t \notin site.held => token[t] \in {None, t} /\ \A k \in Kinds : filed[t][k] \subseteq {t}
OrderOK(t) ==
    /\ rows[t]["card"] # "none" => rows[t]["member"] # "none"
    /\ rows[t]["member"] = "synced" => filed[t]["member"] # {}
    /\ ~site.late /\ ~refused[t] =>
         /\ \A h \in Pages : page[t][h].step \in {"card", "tx"} /\ ~page[t][h].error => rows[t]["member"] # "pending"
         /\ t \notin site.held => filed[t]["card"] \subseteq filed[t]["member"]
RowsInv == \A t \in Locals : TokenOK(t) /\ OrderOK(t)

(* A tenant the superadmin is creating finds an identifier that is free.    *)
FreeInv == create.at # "idle" => Free # {}

Inv == TypeInv /\ UiInv /\ RegInv /\ RowsInv /\ FreeInv
-----------------------------------------------------------------------------
(* The run's property follows.                                             *)
LEMMA InvAgrees == Inv => RegistrationAgrees
<1> SUFFICES ASSUME Inv PROVE RegistrationAgrees
  OBVIOUS
<1>1. TypeInv /\ UiInv /\ RegInv /\ RowsInv
  BY DEF Inv
<1>2. TypeOK
  <2>1. site \in Sites /\ tenants \subseteq Tenant /\ accounts \subseteq Account
        /\ config \in [Locals -> Config \cup {None}]
        /\ user \in [Locals -> Users] /\ token \in [Locals -> Ids \cup {None}]
    BY <1>1 DEF TypeInv, TablesOK, DeviceOK
  <2>2. \A t \in Locals, h \in Hooks :
         /\ hook[t][h].status \in {"idle", "syncing", "success", "conflict", "error"}
         /\ hook[t][h].conflict \in Conflict \cup {None}
         /\ hook[t][h].status = "syncing" <=> req[t][h].at # "idle"
         /\ req[t][h].at \in {"idle", "slug", "user", "insert", "recheck", "done"}
    BY <1>1 DEF TypeInv, UiOK, Hook, Request, States, Ats, UiInv, HookOK
  <2>3. /\ \A t \in Locals, h \in Pages : page[t][h].step \in Steps
        /\ \A t \in Locals : presses[t] \in 0..site.maxPresses
    BY <1>1 DEF TypeInv, UiOK, Page
  <2>4. rows \in [Locals -> [Kinds -> {"none", "pending", "synced"}]] /\ filed \in [Locals -> [Kinds -> SUBSET Ids]]
    BY <1>1 DEF TypeInv, DataOK
  <2>5. create.at \in {"idle", "user", "insert"} /\ patch \in [1..2 -> Status \cup {None}]
    BY <1>1 DEF TypeInv, SuperOK
  <2>6. lost \in [Locals -> BOOLEAN] /\ refused \in [Locals -> BOOLEAN]
    BY <1>1 DEF TypeInv, HistoryOK
  <2>7. QED BY <2>1, <2>2, <2>3, <2>4, <2>5, <2>6 DEF TypeOK
<1>3. ConfigMatchesServer
  BY <1>1 DEF ConfigMatchesServer, RegInv, DeviceInv, Synced, HasRows
<1>4. RegisteredIsKnown
  BY <1>1 DEF RegisteredIsKnown, RegInv, DeviceInv, Synced, Stands
<1>5. UnknownIsSelfOrStaff
  BY <1>1 DEF UnknownIsSelfOrStaff, RegInv, RequestInv, IsUnknown, HasStaff
<1>6. RowsFollowTenant
  BY <1>1 DEF RowsFollowTenant, RowsInv, TokenOK
<1>7. CardsFollowMembers
  BY <1>1 DEF CardsFollowMembers, RowsInv, OrderOK
<1>8. QED BY <1>2, <1>3, <1>4, <1>5, <1>6, <1>7 DEF RegistrationAgrees

-----------------------------------------------------------------------------
(* A table of tables that changes at one place.                            *)
LEMMA Point ==
    ASSUME NEW S, NEW T, NEW V, NEW f \in [S -> [T -> V]], NEW s \in S, NEW t \in T, NEW v, NEW g,
           g = [f EXCEPT ![s][t] = v]
    PROVE  /\ g[s][t] = v
           /\ \A a \in S, b \in T : a # s \/ b # t => g[a][b] = f[a][b]
           /\ v \in V => g \in [S -> [T -> V]]
OBVIOUS

(* What the operators of the module choose.                                *)
LEMMA First == ASSUME NEW S, S # {} PROVE FirstOf(S) \in S
BY DEF FirstOf

(* The names that NamesAssumption keeps apart, one by one.                 *)
LEMMA Names == /\ Locals \cap Olds = {} /\ None \notin Ids /\ Unknown \notin Ids /\ None \notin Conflict /\ None \notin Config
BY NamesAssumption DEF NamesAssumption

(* A handler takes a request on, and a hook hears of it.                   *)
LEMMA PutShape ==
    ASSUME TypeInv, NEW t \in Locals, NEW h \in Hooks, NEW at \in Ats \ {"idle"}, NEW answer \in Conflict \cup {None},
           Put(t, h, at, answer), req[t][h].at # "idle"
    PROVE  /\ req' \in [Locals -> [Hooks -> Request]]
           /\ \A u \in Locals, g \in Hooks : u # t \/ g # h => req'[u][g] = req[u][g]
           /\ req'[t][h].at = at /\ req'[t][h].answer = answer
           /\ req'[t][h].slug = req[t][h].slug /\ req'[t][h].user = req[t][h].user
<1>1. req \in [Locals -> [Hooks -> Request]] /\ req[t][h] \in Request
  BY DEF TypeInv, UiOK
<1> DEFINE r == [req[t][h] EXCEPT !.at = at, !.answer = answer]
<1>2. req' = [req EXCEPT ![t][h] = r]
  BY <1>1 DEF Put
<1>3. r \in Request /\ r.at = at /\ r.answer = answer /\ r.slug = req[t][h].slug /\ r.user = req[t][h].user
  BY <1>1 DEF Request
<1> HIDE DEF r
<1>4. QED BY <1>1, <1>2, <1>3, Point

(* performSync up to its fetch.                                            *)
LEMMA BeginShape ==
    ASSUME TypeInv, NEW t \in Locals, NEW h \in Hooks, NEW slug \in Slugs, NEW name \in Users, Begin(t, h, slug, name)
    PROVE  /\ hook[t][h].status # "syncing"
           /\ hook' \in [Locals -> [Hooks -> Hook]] /\ req' \in [Locals -> [Hooks -> Request]]
           /\ presses' \in [Locals -> 0..site.maxPresses]
           /\ \A u \in Locals, g \in Hooks : u # t \/ g # h => req'[u][g] = req[u][g] /\ hook'[u][g] = hook[u][g]
           /\ req'[t][h].at = "slug" /\ req'[t][h].slug = slug /\ req'[t][h].user = name
           /\ hook'[t][h].status = "syncing" /\ hook'[t][h].conflict = None
<1>1. /\ hook \in [Locals -> [Hooks -> Hook]] /\ req \in [Locals -> [Hooks -> Request]]
      /\ presses \in [Locals -> 0..site.maxPresses] /\ site.maxPresses \in Nat
  BY TenantAssumption DEF TypeInv, UiOK, TenantAssumption, Site
<1> DEFINE r == [NoRequest EXCEPT !.at = "slug", !.slug = slug, !.user = name]
<1> DEFINE k == [status |-> "syncing", conflict |-> None]
<1>2. req' = [req EXCEPT ![t][h] = r] /\ hook' = [hook EXCEPT ![t][h] = k] /\ hook[t][h].status # "syncing"
  BY DEF Begin
<1>3. k \in Hook /\ k.status = "syncing" /\ k.conflict = None
  BY DEF Hook, States
<1>4. NoRequest \in [at: {"idle"}, slug: {None}, user: {None}, bySlug: {None}, answer: {None}]
  BY DEF NoRequest
<1>5. r \in [at: {"slug"}, slug: {slug}, user: {name}, bySlug: {None}, answer: {None}]
  BY <1>4
<1> HIDE DEF r, k
<1>6. r \in Request /\ r.at = "slug" /\ r.slug = slug /\ r.user = name
  BY <1>5 DEF Request, Ats
<1>7. presses' \in [Locals -> 0..site.maxPresses]
  <2>1. presses' = [presses EXCEPT ![t] = @ + 1] /\ presses[t] < site.maxPresses
    BY DEF Begin
  <2>2. presses[t] + 1 \in 0..site.maxPresses
    BY <1>1, <2>1
  <2>3. QED BY <1>1, <2>1, <2>2
<1>8. /\ req' \in [Locals -> [Hooks -> Request]] /\ req'[t][h] = r
      /\ \A u \in Locals, g \in Hooks : u # t \/ g # h => req'[u][g] = req[u][g]
  BY <1>1, <1>2, <1>6, Point
<1>9. /\ hook' \in [Locals -> [Hooks -> Hook]] /\ hook'[t][h] = k
      /\ \A u \in Locals, g \in Hooks : u # t \/ g # h => hook'[u][g] = hook[u][g]
  BY <1>1, <1>2, <1>3, Point
<1>10. QED BY <1>2, <1>3, <1>6, <1>7, <1>8, <1>9

(* A hook, a request or a page turns to another one.  (These and the next   *)
(* are named so that the provers take them as they are.)                   *)
HookIs(t, h, k)    == hook' = [hook EXCEPT ![t][h] = k]
RequestIs(t, h, r) == req' = [req EXCEPT ![t][h] = r]
PageIs(t, h, p)    == page' = [page EXCEPT ![t][h] = p]

LEMMA HookPoint ==
    ASSUME TypeInv, NEW t \in Locals, NEW h \in Hooks, NEW k \in Hook, HookIs(t, h, k)
    PROVE  /\ hook' \in [Locals -> [Hooks -> Hook]] /\ hook'[t][h] = k
           /\ \A u \in Locals, g \in Hooks : u # t \/ g # h => hook'[u][g] = hook[u][g]
BY Point DEF TypeInv, UiOK, HookIs

(* A request turns to another one.                                         *)
LEMMA RequestPoint ==
    ASSUME TypeInv, NEW t \in Locals, NEW h \in Hooks, NEW r \in Request, RequestIs(t, h, r)
    PROVE  /\ req' \in [Locals -> [Hooks -> Request]] /\ req'[t][h] = r
           /\ \A u \in Locals, g \in Hooks : u # t \/ g # h => req'[u][g] = req[u][g]
BY Point DEF TypeInv, UiOK, RequestIs

(* The answer arrives, or nothing does: what becomes of request and hook.   *)
RequestEnds(t, h)      == req' = [req EXCEPT ![t][h].at = "idle"]
HookTurns(t, h, st, c) == hook' = [hook EXCEPT ![t][h].status = st, ![t][h].conflict = c]

(* A request that ends keeps what it carried.                              *)
LEMMA EndRequest ==
    ASSUME TypeInv, NEW t \in Locals, NEW h \in Hooks, RequestEnds(t, h)
    PROVE  /\ req' \in [Locals -> [Hooks -> Request]]
           /\ \A u \in Locals, g \in Hooks : u # t \/ g # h => req'[u][g] = req[u][g]
           /\ req'[t][h].at = "idle" /\ req'[t][h].slug = req[t][h].slug /\ req'[t][h].user = req[t][h].user
<1>1. req \in [Locals -> [Hooks -> Request]] /\ req[t][h] \in Request
  BY DEF TypeInv, UiOK
<1>2. PICK r : r = [req[t][h] EXCEPT !.at = "idle"]
  OBVIOUS
<1>3. RequestIs(t, h, r)
  BY <1>1, <1>2 DEF RequestEnds, RequestIs
<1>4. r \in Request /\ r.at = "idle" /\ r.slug = req[t][h].slug /\ r.user = req[t][h].user
  BY <1>1, <1>2 DEF Request, Ats
<1>5. QED BY <1>3, <1>4, RequestPoint

(* The hook hears of it: its status and its conflict.                      *)
LEMMA EndHook ==
    ASSUME TypeInv, NEW t \in Locals, NEW h \in Hooks, NEW st \in States, NEW c \in Conflict \cup {None}, HookTurns(t, h, st, c)
    PROVE  /\ hook' \in [Locals -> [Hooks -> Hook]]
           /\ \A u \in Locals, g \in Hooks : u # t \/ g # h => hook'[u][g] = hook[u][g]
           /\ hook'[t][h].status = st /\ hook'[t][h].conflict = c
<1>1. hook \in [Locals -> [Hooks -> Hook]] /\ hook[t][h] \in Hook
  BY DEF TypeInv, UiOK
<1>2. PICK k : k = [hook[t][h] EXCEPT !.status = st, !.conflict = c]
  OBVIOUS
<1>3. HookIs(t, h, k)
  BY <1>1, <1>2 DEF HookTurns, HookIs
<1>4. k \in Hook /\ k.status = st /\ k.conflict = c
  BY <1>1, <1>2 DEF Hook
<1>5. QED BY <1>3, <1>4, HookPoint

(* A page turns to another one.                                            *)
LEMMA PagePoint ==
    ASSUME TypeInv, NEW t \in Locals, NEW h \in Pages, NEW p \in Page, PageIs(t, h, p)
    PROVE  /\ page' \in [Locals -> [Pages -> Page]] /\ page'[t][h] = p
           /\ \A u \in Locals, g \in Pages : u # t \/ g # h => page'[u][g] = page[u][g]
BY Point DEF TypeInv, UiOK, PageIs

(* Everything but the place t, h stays.                                    *)
OtherHooks(t, h) == \A u \in Locals, g \in Hooks : u # t \/ g # h => req'[u][g] = req[u][g] /\ hook'[u][g] = hook[u][g]
OtherPages(t, h) == \A u \in Locals, g \in Pages : u # t \/ g # h => page'[u][g] = page[u][g]

(* A registration ends for the page that waits for it, and for no other.    *)
Moves(t, h, granted) ==
    \A u \in Locals, g \in Pages :
      /\ page'[u][g].seen = page[u][g].seen /\ page'[u][g].error = page[u][g].error
      /\ \/ page'[u][g].step = page[u][g].step
         \/ u = t /\ g = h /\ page[u][g].step = "syncing-tenant" /\ page'[u][g].step = IF granted THEN "member" ELSE "none"

PageAfter(t, h, granted) == page' = StepAfter(t, h, granted)

(* The operator StepAfter does no more than Moves says.                    *)
LEMMA StepAfterShape ==
    ASSUME TypeInv, NEW t \in Locals, NEW h \in Hooks, NEW granted \in BOOLEAN, PageAfter(t, h, granted)
    PROVE  page' \in [Locals -> [Pages -> Page]] /\ Moves(t, h, granted)
<1>0. page \in [Locals -> [Pages -> Page]]
  BY DEF TypeInv, UiOK
<1>1. CASE h \in Pages /\ page[t][h].step = "syncing-tenant"
  <2>1. PICK p : p = [page[t][h] EXCEPT !.step = IF granted THEN "member" ELSE "none"]
    OBVIOUS
  <2>2. PageIs(t, h, p)
    BY <1>0, <1>1, <2>1 DEF PageAfter, StepAfter, NextStep, PageIs
  <2>3. page[t][h] \in Page
    BY <1>0, <1>1
  <2>4. /\ p \in Page /\ p.seen = page[t][h].seen /\ p.error = page[t][h].error
        /\ p.step = IF granted THEN "member" ELSE "none"
    BY <2>1, <2>3 DEF Page, Steps
  <2>5. /\ page' \in [Locals -> [Pages -> Page]] /\ page'[t][h] = p
        /\ \A u \in Locals, g \in Pages : u # t \/ g # h => page'[u][g] = page[u][g]
    BY <1>1, <2>2, <2>4, PagePoint
  <2>6. QED BY <1>1, <2>4, <2>5 DEF Moves
<1>2. CASE ~(h \in Pages /\ page[t][h].step = "syncing-tenant")
  <2>1. page' = page
    BY <1>2 DEF PageAfter, StepAfter
  <2>2. QED BY <1>0, <2>1 DEF Moves
<1>3. QED BY <1>1, <1>2

(* What an answer does to the pages.                                       *)
LEMMA AnsweredShape ==
    ASSUME TypeInv, NEW t \in Locals, NEW h \in Hooks, Answered(t, h)
    PROVE  /\ req[t][h].at = "done" /\ UiOK' /\ OtherHooks(t, h)
           /\ req'[t][h].at = "idle" /\ req'[t][h].slug = req[t][h].slug /\ req'[t][h].user = req[t][h].user
           /\ hook'[t][h].status # "syncing" /\ hook'[t][h].conflict = req[t][h].answer
           /\ Moves(t, h, req[t][h].answer = None)
<1>1. req[t][h] \in Request /\ presses \in [Locals -> 0..site.maxPresses]
  BY DEF TypeInv, UiOK
<1>2. PICK st \in {"success", "conflict"} : HookTurns(t, h, st, req[t][h].answer)
  BY DEF Answered, HookTurns
<1>3. RequestEnds(t, h) /\ PageAfter(t, h, req[t][h].answer = None) /\ UNCHANGED <<site, presses>> /\ req[t][h].at = "done"
  BY DEF Answered, RequestEnds, PageAfter, Granted
<1>4. req[t][h].answer \in Conflict \cup {None} /\ st \in States /\ st # "syncing"
  BY <1>1 DEF Request, States
<1>5. /\ hook' \in [Locals -> [Hooks -> Hook]]
      /\ \A u \in Locals, g \in Hooks : u # t \/ g # h => hook'[u][g] = hook[u][g]
      /\ hook'[t][h].status = st /\ hook'[t][h].conflict = req[t][h].answer
  BY <1>2, <1>4, EndHook
<1>6. /\ req' \in [Locals -> [Hooks -> Request]]
      /\ \A u \in Locals, g \in Hooks : u # t \/ g # h => req'[u][g] = req[u][g]
      /\ req'[t][h].at = "idle" /\ req'[t][h].slug = req[t][h].slug /\ req'[t][h].user = req[t][h].user
  BY <1>3, EndRequest
<1>7. page' \in [Locals -> [Pages -> Page]] /\ Moves(t, h, req[t][h].answer = None)
  <2>1. PICK granted \in BOOLEAN : granted = (req[t][h].answer = None)
    OBVIOUS
  <2>2. PageAfter(t, h, granted)
    BY <1>3, <2>1
  <2>3. QED BY <2>1, <2>2, StepAfterShape
<1>8. UiOK'
  BY <1>1, <1>3, <1>5, <1>6, <1>7 DEF UiOK
<1>9. QED BY <1>3, <1>4, <1>5, <1>6, <1>7, <1>8 DEF OtherHooks

(* What it does to the device: with a 201 the tenant is synced and the     *)
(* token its own, with a conflict nothing changes.                         *)
LEMMA AnsweredDevice ==
    ASSUME TypeInv, NEW t \in Locals, NEW h \in Hooks, Answered(t, h)
    PROVE  /\ DeviceOK'
           /\ \A u \in Locals : u # t => config'[u] = config[u] /\ user'[u] = user[u] /\ token'[u] = token[u]
           /\ req[t][h].answer = None => /\ config'[t] # None /\ config'[t].mode = "synced"
                                         /\ config'[t].slug = req[t][h].slug /\ user'[t] = req[t][h].user /\ token'[t] = t
           /\ req[t][h].answer # None => UNCHANGED device
<1>1. /\ config \in [Locals -> Config \cup {None}]
      /\ user \in [Locals -> Users] /\ token \in [Locals -> Ids \cup {None}]
      /\ req[t][h].slug \in Slugs /\ req[t][h].user \in Users /\ t \in Ids
  BY DEF TypeInv, DeviceOK, CarriesOK, Answered, Ids
<1>2. PICK c : c = [mode |-> "synced", slug |-> req[t][h].slug]
  OBVIOUS
<1>3. c \in Config /\ c.mode = "synced" /\ c.slug = req[t][h].slug /\ c # None
  BY <1>1, <1>2, Names DEF Config
<1>4. CASE req[t][h].answer = None
  <2>1. config' = [config EXCEPT ![t] = c] /\ user' = [user EXCEPT ![t] = req[t][h].user] /\ token' = [token EXCEPT ![t] = t]
    BY <1>2, <1>4 DEF Answered, Granted, SavedConfig, SavedUser, TokenAfter
  <2>2. DeviceOK'
    BY <1>1, <1>3, <2>1 DEF DeviceOK
  <2>3. QED BY <1>1, <1>3, <1>4, <2>1, <2>2
<1>5. CASE req[t][h].answer # None
  <2>1. config' = config /\ user' = user /\ token' = [token EXCEPT ![t] = token[t]]
    BY <1>5 DEF Answered, Granted, TokenAfter
  <2>2. token' = token
    BY <1>1, <2>1
  <2>3. QED BY <1>1, <1>5, <2>1, <2>2 DEF DeviceOK, device
<1>6. QED BY <1>4, <1>5

(* What becomes of the pages when a request or its answer is lost.         *)
LEMMA LostShape ==
    ASSUME TypeInv, NEW t \in Locals, NEW h \in Hooks, Lost(t, h)
    PROVE  /\ req[t][h].at \in {"slug", "done"} /\ UiOK' /\ OtherHooks(t, h)
           /\ req'[t][h].at = "idle" /\ req'[t][h].slug = req[t][h].slug /\ req'[t][h].user = req[t][h].user
           /\ hook'[t][h].status # "syncing" /\ hook'[t][h].conflict = hook[t][h].conflict
           /\ Moves(t, h, FALSE)
           /\ lost' \in [Locals -> BOOLEAN] /\ \A u \in Locals : lost[u] => lost'[u]
           /\ Stands(t, h) => lost'[t]
<1>1. /\ hook[t][h] \in Hook /\ hook \in [Locals -> [Hooks -> Hook]] /\ presses \in [Locals -> 0..site.maxPresses]
      /\ lost \in [Locals -> BOOLEAN]
  BY DEF TypeInv, UiOK, HistoryOK
<1>2. RequestEnds(t, h) /\ PageAfter(t, h, FALSE) /\ UNCHANGED <<site, presses>> /\ req[t][h].at \in {"slug", "done"}
  BY DEF Lost, RequestEnds, PageAfter
<1>3. PICK k : k = [hook[t][h] EXCEPT !.status = "error"]
  OBVIOUS
<1>4. HookIs(t, h, k)
  BY <1>1, <1>3 DEF Lost, HookIs
<1>5. k \in Hook /\ k.status = "error" /\ k.conflict = hook[t][h].conflict
  BY <1>1, <1>3 DEF Hook, States
<1>6. /\ hook' \in [Locals -> [Hooks -> Hook]] /\ hook'[t][h] = k
      /\ \A u \in Locals, g \in Hooks : u # t \/ g # h => hook'[u][g] = hook[u][g]
  BY <1>4, <1>5, HookPoint
<1>7. /\ req' \in [Locals -> [Hooks -> Request]]
      /\ \A u \in Locals, g \in Hooks : u # t \/ g # h => req'[u][g] = req[u][g]
      /\ req'[t][h].at = "idle" /\ req'[t][h].slug = req[t][h].slug /\ req'[t][h].user = req[t][h].user
  BY <1>2, EndRequest
<1>8. page' \in [Locals -> [Pages -> Page]] /\ Moves(t, h, FALSE)
  BY <1>2, StepAfterShape
<1>9. UiOK'
  BY <1>1, <1>2, <1>6, <1>7, <1>8 DEF UiOK
<1>10. lost' \in [Locals -> BOOLEAN] /\ (\A u \in Locals : lost[u] => lost'[u]) /\ (Stands(t, h) => lost'[t])
  <2>1. lost' = [lost EXCEPT ![t] = @ \/ (req[t][h].at = "done" /\ req[t][h].answer = None)]
    BY DEF Lost, Granted
  <2>2. lost' \in [Locals -> BOOLEAN]
    BY <1>1, <2>1
  <2>3. \A u \in Locals : u # t => lost'[u] = lost[u]
    BY <1>1, <2>1
  <2>4. lost'[t] <=> lost[t] \/ (req[t][h].at = "done" /\ req[t][h].answer = None)
    BY <1>1, <2>1
  <2>5. QED BY <2>2, <2>3, <2>4 DEF Stands
<1>11. QED BY <1>2, <1>5, <1>6, <1>7, <1>8, <1>9, <1>10 DEF OtherHooks

(* A page, a hook and a request as they are at first.                      *)
LEMMA FreshIsPage == ASSUME NEW c \in Config \cup {None}
                     PROVE  FreshPage(c) \in Page /\ FreshPage(c).seen = c /\ FreshPage(c).step = "none" /\ ~FreshPage(c).error
BY DEF FreshPage, Page, Steps

LEMMA NoHookIsHook == NoHook \in Hook /\ NoHook.status = "idle" /\ NoHook.conflict = None
BY DEF NoHook, Hook, States

LEMMA NoRequestIsRequest == NoRequest \in Request /\ NoRequest.at = "idle"
BY DEF NoRequest, Request, Ats

(* What a part of the pages looks like when it has been opened.            *)
LEMMA OpenShape ==
    ASSUME TypeInv, NEW t \in Locals, NEW h \in Pages, Open(t, h)
    PROVE  /\ UiOK' /\ OtherHooks(t, h) /\ OtherPages(t, h) /\ UNCHANGED req /\ config[t] # None
           /\ ~Busy(t, h) \/ page[t][h].error
           /\ hook'[t][h].status = "idle" /\ hook'[t][h].conflict = None
           /\ page'[t][h].seen = config[t] /\ page'[t][h].step = "none" /\ ~page'[t][h].error
<1>1. h \in Hooks /\ config[t] \in Config \cup {None} /\ req \in [Locals -> [Hooks -> Request]]
      /\ presses \in [Locals -> 0..site.maxPresses]
  BY DEF TypeInv, DeviceOK, UiOK, Pages, Hooks
<1>2. /\ hook' \in [Locals -> [Hooks -> Hook]] /\ hook'[t][h] = NoHook
      /\ \A u \in Locals, g \in Hooks : u # t \/ g # h => hook'[u][g] = hook[u][g]
  <2>1. HookIs(t, h, NoHook)
    BY DEF Open, HookIs
  <2>2. QED BY <1>1, <2>1, NoHookIsHook, HookPoint
<1>3. /\ page' \in [Locals -> [Pages -> Page]] /\ page'[t][h] = FreshPage(config[t])
      /\ \A u \in Locals, g \in Pages : u # t \/ g # h => page'[u][g] = page[u][g]
  <2>1. PICK p \in Page : p = FreshPage(config[t])
    BY <1>1, FreshIsPage
  <2>2. PageIs(t, h, p)
    BY <2>1 DEF Open, PageIs
  <2>3. QED BY <2>1, <2>2, PagePoint
<1>4. UNCHANGED <<site, req, presses>> /\ config[t] # None /\ (~Busy(t, h) \/ page[t][h].error)
  BY DEF Open
<1>5. UiOK'
  BY <1>1, <1>2, <1>3, <1>4 DEF UiOK
<1>6. QED BY <1>1, <1>2, <1>3, <1>4, <1>5, FreshIsPage, NoHookIsHook DEF OtherHooks, OtherPages

(* A page that registers its tenant waits for the request it has begun.    *)
LEMMA PressShape ==
    ASSUME TypeInv, NEW t \in Locals, NEW h \in Pages, Press(t, h)
    PROVE  /\ page[t][h].seen \in Config /\ page[t][h].seen # None /\ Begin(t, h, page[t][h].seen.slug, user[t])
           /\ page' \in [Locals -> [Pages -> Page]] /\ OtherPages(t, h)
           /\ page'[t][h].seen = page[t][h].seen /\ page'[t][h].step = "syncing-tenant" /\ ~page'[t][h].error
<1>1. page \in [Locals -> [Pages -> Page]] /\ page[t][h] \in Page
  BY DEF TypeInv, UiOK
<1>2. page[t][h].seen # None /\ Begin(t, h, page[t][h].seen.slug, user[t])
  BY DEF Press
<1>3. PICK p : p = [page[t][h] EXCEPT !.step = "syncing-tenant", !.error = FALSE]
  OBVIOUS
<1>4. PageIs(t, h, p)
  BY <1>1, <1>3 DEF Press, PageIs
<1>5. p \in Page /\ p.seen = page[t][h].seen /\ p.step = "syncing-tenant" /\ ~p.error
  BY <1>1, <1>3 DEF Page, Steps
<1>6. /\ page' \in [Locals -> [Pages -> Page]] /\ page'[t][h] = p
      /\ \A u \in Locals, g \in Pages : u # t \/ g # h => page'[u][g] = page[u][g]
  BY <1>4, <1>5, PagePoint
<1>7. page[t][h].seen \in Config
  BY <1>1, <1>2 DEF Page
<1>8. QED BY <1>2, <1>5, <1>6, <1>7 DEF OtherPages

(* A dismissed conflict is forgotten.                                      *)
LEMMA DismissShape ==
    ASSUME TypeInv, NEW t \in Locals, Dismiss(t)
    PROVE  /\ UiOK' /\ OtherHooks(t, "settings") /\ UNCHANGED <<req, page>> /\ hook[t]["settings"].conflict # None
           /\ hook'[t]["settings"].status = "idle" /\ hook'[t]["settings"].conflict = None
<1>1. "settings" \in Hooks /\ "idle" \in States /\ None \in Conflict \cup {None}
  BY DEF Hooks, States
<1>2. HookTurns(t, "settings", "idle", None) /\ UNCHANGED <<site, req, page, presses>> /\ hook[t]["settings"].conflict # None
  BY DEF Dismiss, HookTurns
<1>3. /\ hook' \in [Locals -> [Hooks -> Hook]]
      /\ \A u \in Locals, g \in Hooks : u # t \/ g # "settings" => hook'[u][g] = hook[u][g]
      /\ hook'[t]["settings"].status = "idle" /\ hook'[t]["settings"].conflict = None
  BY <1>1, <1>2, EndHook
<1>4. UiOK'
  BY <1>2, <1>3 DEF TypeInv, UiOK
<1>5. QED BY <1>2, <1>3, <1>4 DEF OtherHooks

(* After a reload all parts are fresh, and a 201 under way is lost.        *)
LEMMA ReloadShape ==
    ASSUME TypeInv, NEW t \in Locals, Reload(t)
    PROVE  /\ UiOK' /\ config[t] # None /\ lost' \in [Locals -> BOOLEAN]
           /\ \A h \in Hooks : hook'[t][h] = NoHook /\ req'[t][h] = NoRequest
           /\ \A h \in Pages : page'[t][h] = FreshPage(None)
           /\ \A u \in Locals : u # t => hook'[u] = hook[u] /\ req'[u] = req[u] /\ page'[u] = page[u]
           /\ \A u \in Locals : lost[u] => lost'[u]
           /\ (\E h \in Hooks : Stands(t, h)) => lost'[t]
<1>1. /\ hook \in [Locals -> [Hooks -> Hook]] /\ req \in [Locals -> [Hooks -> Request]]
      /\ page \in [Locals -> [Pages -> Page]] /\ presses \in [Locals -> 0..site.maxPresses] /\ lost \in [Locals -> BOOLEAN]
  BY DEF TypeInv, UiOK, HistoryOK
<1>2. /\ hook' = [hook EXCEPT ![t] = [h \in Hooks |-> NoHook]] /\ req' = [req EXCEPT ![t] = [h \in Hooks |-> NoRequest]]
      /\ page' = [page EXCEPT ![t] = [h \in Pages |-> FreshPage(None)]]
      /\ UNCHANGED <<site, presses>> /\ config[t] # None
  BY DEF Reload
<1>3. /\ [h \in Hooks |-> NoHook] \in [Hooks -> Hook] /\ [h \in Hooks |-> NoRequest] \in [Hooks -> Request]
      /\ [h \in Pages |-> FreshPage(None)] \in [Pages -> Page]
  BY NoHookIsHook, NoRequestIsRequest, FreshIsPage
<1>4. UiOK'
  BY <1>1, <1>2, <1>3 DEF UiOK
<1>5. /\ \A h \in Hooks : hook'[t][h] = NoHook /\ req'[t][h] = NoRequest
      /\ \A h \in Pages : page'[t][h] = FreshPage(None)
      /\ \A u \in Locals : u # t => hook'[u] = hook[u] /\ req'[u] = req[u] /\ page'[u] = page[u]
  BY <1>1, <1>2
<1>6. lost' \in [Locals -> BOOLEAN] /\ (\A u \in Locals : lost[u] => lost'[u]) /\ ((\E h \in Hooks : Stands(t, h)) => lost'[t])
  <2>1. lost' = [lost EXCEPT ![t] = @ \/ \E h \in Hooks : req[t][h].at = "done" /\ req[t][h].answer = None]
    BY DEF Reload, Granted
  <2>2. lost' \in [Locals -> BOOLEAN]
    BY <1>1, <2>1
  <2>3. \A u \in Locals : u # t => lost'[u] = lost[u]
    BY <1>1, <2>1
  <2>4. lost'[t] <=> lost[t] \/ \E h \in Hooks : req[t][h].at = "done" /\ req[t][h].answer = None
    BY <1>1, <2>1
  <2>5. QED BY <2>2, <2>3, <2>4 DEF Stands
<1>7. QED BY <1>2, <1>4, <1>5, <1>6

(* A tenant is set up, and perhaps registered at once.                     *)
LEMMA SetUpShape ==
    ASSUME TypeInv, NEW t \in Locals, SetUp(t)
    PROVE  /\ config[t] = None /\ config' \in [Locals -> Config \cup {None}]
           /\ config'[t] # None /\ config'[t].mode = "local" /\ \A u \in Locals : u # t => config'[u] = config[u]
           /\ \/ "setup" \in Hooks /\ site.slug[t] \in Slugs /\ user[t] \in Users /\ Begin(t, "setup", site.slug[t], user[t])
              \/ UNCHANGED <<hook, req, presses>>
           /\ UNCHANGED <<site, tables, user, token, page, data, super, history>>
<1>1. config \in [Locals -> Config \cup {None}] /\ user[t] \in Users /\ site.slug[t] \in Slugs
  BY TenantAssumption DEF TypeInv, DeviceOK, TenantAssumption, Site
<1>2. PICK c : c = [mode |-> "local", slug |-> site.slug[t]]
  OBVIOUS
<1>3. c \in Config /\ c.mode = "local" /\ c # None
  BY <1>1, <1>2, Names DEF Config
<1>4. config' = [config EXCEPT ![t] = c] /\ config[t] = None
  BY <1>2 DEF SetUp
<1>5. /\ config' \in [Locals -> Config \cup {None}] /\ config'[t] = c
      /\ \A u \in Locals : u # t => config'[u] = config[u]
  BY <1>1, <1>3, <1>4
<1>6. "setup" \in Hooks
  BY DEF Hooks
<1>7. QED BY <1>1, <1>3, <1>4, <1>5, <1>6 DEF SetUp
-----------------------------------------------------------------------------
(* The server.  What a handler does to the request it is at work on.       *)
Goes(t, h, at) ==
    /\ req' \in [Locals -> [Hooks -> Request]] /\ UNCHANGED <<hook, page>>
    /\ \A u \in Locals, g \in Hooks : u # t \/ g # h => req'[u][g] = req[u][g]
    /\ req'[t][h].at = at /\ req'[t][h].slug = req[t][h].slug /\ req'[t][h].user = req[t][h].user

(* A conflict in which something was found names a tenant.                 *)
LEMMA Verdicts ==
    ASSUME TypeInv, NEW bySlug \in Ids \cup {None}, NEW byUser \in SUBSET Account, bySlug # None \/ byUser # {}
    PROVE  Verdict(bySlug, byUser) \in Conflict /\ Verdict(bySlug, byUser).with # Unknown
<1>1. byUser # {} => FirstOf(byUser).tenant \in Ids
  BY First DEF Account
<1>2. PICK v : v = Verdict(bySlug, byUser)
  OBVIOUS
<1>3. CASE bySlug # None
  <2>1. bySlug \in Ids
    BY <1>3
  <2>2. v \in [type: {"slug_and_admin", "slug_only"}, with: Ids]
    BY <1>2, <1>3, <2>1 DEF Verdict
  <2>3. QED BY <1>2, <2>2, Names DEF Conflict
<1>4. CASE bySlug = None
  <2>1. v = [type |-> "admin_only", with |-> FirstOf(byUser).tenant]
    BY <1>2, <1>4 DEF Verdict
  <2>2. v \in [type: {"admin_only"}, with: Ids]
    BY <1>1, <1>4, <2>1
  <2>3. QED BY <1>2, <2>2, Names DEF Conflict
<1>5. QED BY <1>3, <1>4

(* The handler's first query ...                                           *)
LEMMA ReadSlugShape == ASSUME TypeInv, NEW t \in Locals, NEW h \in Hooks, ReadSlug(t, h) PROVE req[t][h].at = "slug" /\ Goes(t, h, "user")
<1>1. req \in [Locals -> [Hooks -> Request]] /\ req[t][h] \in Request /\ req[t][h].at = "slug" /\ UNCHANGED <<hook, page>>
  BY DEF TypeInv, UiOK, ReadSlug, Handler
<1> DEFINE S == WithSlug(req[t][h].slug)
<1>2. PICK by : by = IF S = {} THEN None ELSE FirstOf(S).id
  OBVIOUS
<1>3. by \in Ids \cup {None}
  <2>1. S \subseteq Tenant
    BY DEF TypeInv, TablesOK, WithSlug
  <2> HIDE DEF S
  <2>2. S # {} => FirstOf(S).id \in Ids
    BY <2>1, First DEF Tenant
  <2>3. QED BY <1>2, <2>2
<1>4. PICK r : r = [req[t][h] EXCEPT !.at = "user", !.bySlug = by]
  OBVIOUS
<1>5. RequestIs(t, h, r)
  BY <1>1, <1>2, <1>4 DEF ReadSlug, RequestIs
<1>6. r \in Request /\ r.at = "user" /\ r.slug = req[t][h].slug /\ r.user = req[t][h].user
  BY <1>1, <1>3, <1>4 DEF Request, Ats
<1>7. /\ req' \in [Locals -> [Hooks -> Request]] /\ req'[t][h] = r
      /\ \A u \in Locals, g \in Hooks : u # t \/ g # h => req'[u][g] = req[u][g]
  BY <1>5, <1>6, RequestPoint
<1>8. QED BY <1>1, <1>6, <1>7 DEF Goes

(* ... its second, which answers or goes on to the INSERT ...              *)
LEMMA ReadUserShape ==
    ASSUME TypeInv, NEW t \in Locals, NEW h \in Hooks, ReadUser(t, h)
    PROVE  /\ req[t][h].at = "user"
           /\ \/ Goes(t, h, "insert")
              \/ Goes(t, h, "done") /\ req'[t][h].answer \in Conflict /\ req'[t][h].answer.with # Unknown
<1>1. req[t][h] \in Request /\ req[t][h].at = "user" /\ UNCHANGED <<hook, page>>
  BY DEF TypeInv, UiOK, ReadUser, Handler
<1> DEFINE byUser == Admins(req[t][h].user)
<1>2. byUser \in SUBSET Account
  BY DEF TypeInv, TablesOK, Admins
<1>3. CASE req[t][h].bySlug = None /\ byUser = {}
  <2>1. Put(t, h, "insert", None)
    BY <1>3 DEF ReadUser
  <2>2. Goes(t, h, "insert")
    BY <1>1, <2>1, PutShape DEF Goes, Ats
  <2>3. QED BY <1>1, <2>2
<1>4. CASE ~(req[t][h].bySlug = None /\ byUser = {})
  <2>1. PICK v : v = Verdict(req[t][h].bySlug, byUser)
    OBVIOUS
  <2>2. Put(t, h, "done", v)
    BY <1>4, <2>1 DEF ReadUser
  <2>3. v \in Conflict /\ v.with # Unknown
    BY <1>1, <1>2, <1>4, <2>1, Verdicts DEF Request
  <2>4. Goes(t, h, "done") /\ req'[t][h].answer = v
    BY <1>1, <2>2, <2>3, PutShape DEF Goes, Ats
  <2>5. QED BY <1>1, <2>3, <2>4
<1>5. QED BY <1>3, <1>4

(* ... and the INSERT, which stores both rows or has met one.              *)
LEMMA InsertShape ==
    ASSUME TypeInv, NEW t \in Locals, NEW h \in Hooks, Insert(t, h)
    PROVE  /\ req[t][h].at = "insert"
           /\ \/ /\ Goes(t, h, "done") /\ req'[t][h].answer = None
                 /\ ~Registered(t) /\ Stored(t, req[t][h].slug, req[t][h].user)
              \/ /\ Goes(t, h, "recheck") /\ UNCHANGED tables /\ ~Fits(t, req[t][h].slug, req[t][h].user)
<1>1. req[t][h].at = "insert" /\ UNCHANGED <<hook, page>>
  BY DEF Insert, Handler
<1>2. CASE Fits(t, req[t][h].slug, req[t][h].user)
  <2>1. Put(t, h, "done", None) /\ Stored(t, req[t][h].slug, req[t][h].user) /\ ~Registered(t)
    BY <1>2 DEF Insert, Fits
  <2>2. Goes(t, h, "done") /\ req'[t][h].answer = None
    BY <1>1, <2>1, PutShape DEF Goes, Ats
  <2>3. QED BY <1>1, <2>1, <2>2
<1>3. CASE ~Fits(t, req[t][h].slug, req[t][h].user)
  <2>1. Put(t, h, "recheck", None) /\ UNCHANGED tables
    BY <1>3 DEF Insert
  <2>2. Goes(t, h, "recheck")
    BY <1>1, <2>1, PutShape DEF Goes, Ats
  <2>3. QED BY <1>1, <1>3, <2>1, <2>2
<1>4. QED BY <1>2, <1>3

(* The second look names somebody, unless neither the slug nor an admin of  *)
(* that name is there.                                                     *)
LEMMA RecheckShape ==
    ASSUME TypeInv, NEW t \in Locals, NEW h \in Hooks, Recheck(t, h)
    PROVE  /\ req[t][h].at = "recheck" /\ Goes(t, h, "done") /\ req'[t][h].answer \in Conflict
           /\ req'[t][h].answer.with = Unknown => WithSlug(req[t][h].slug) = {} /\ Admins(req[t][h].user) = {}
<1> DEFINE S == WithSlug(req[t][h].slug)
<1> DEFINE A == Admins(req[t][h].user)
<1>1. req[t][h].at = "recheck" /\ UNCHANGED <<hook, page>> /\ S \subseteq Tenant /\ A \in SUBSET Account
  BY DEF Recheck, Handler, TypeInv, TablesOK, WithSlug, Admins
<1>2. PICK v : v = Rechecked(req[t][h].slug, req[t][h].user)
  OBVIOUS
<1>3. v \in Conflict /\ (v.with = Unknown => S = {} /\ A = {})
  <2>1. CASE S = {} /\ A = {}
    <3>1. v \in [type: {"slug_and_admin"}, with: {Unknown}]
      BY <1>2, <2>1 DEF Rechecked
    <3>2. QED BY <2>1, <3>1 DEF Conflict
  <2>2. CASE ~(S = {} /\ A = {})
    <3>1. PICK by : by = IF S = {} THEN None ELSE FirstOf(S).id
      OBVIOUS
    <3>2. v = Verdict(by, A)
      BY <1>2, <2>2, <3>1 DEF Rechecked
    <3> HIDE DEF S, A
    <3>3. S # {} => FirstOf(S) \in Tenant
      BY <1>1, First
    <3>4. by \in Ids \cup {None} /\ (S # {} => by \in Ids)
      BY <3>1, <3>3 DEF Tenant
    <3>5. CASE by = None /\ A = {}
      <4>1. S # {} /\ by \in Ids
        BY <2>2, <3>4, <3>5
      <4>2. QED BY <3>5, <4>1, Names
    <3>6. CASE by # None \/ A # {}
      BY <1>1, <3>2, <3>4, <3>6, Verdicts
    <3>7. QED BY <3>5, <3>6
  <2>3. QED BY <2>1, <2>2
<1>4. Put(t, h, "done", v)
  BY <1>2 DEF Recheck
<1>5. Goes(t, h, "done") /\ req'[t][h].answer = v
  BY <1>1, <1>3, <1>4, PutShape DEF Goes, Ats
<1>6. QED BY <1>1, <1>3, <1>5
(* The tables: what stays of them, whoever writes.                         *)
Grows ==
    /\ accounts \subseteq accounts'
    /\ \A x \in tenants : \E y \in tenants' : y.id = x.id /\ y.slug = x.slug

(* Tables that are not written grow.                                       *)
LEMMA SameGrows == ASSUME UNCHANGED tables PROVE Grows /\ \A id : Registered(id)' <=> Registered(id)
BY DEF Grows, tables, Registered

(* An identifier, its slug and its admin enter both tables, and nobody      *)
(* else does.                                                              *)
LEMMA StoredShape ==
    ASSUME TypeInv, NEW id \in Ids, NEW slug \in Slugs, NEW name \in Users, Stored(id, slug, name)
    PROVE  /\ TablesOK' /\ Grows
           /\ HasRows(id, slug, name)'
           /\ \A u : u # id => (Registered(u)' <=> Registered(u))
<1>1. PICK x : x = [id |-> id, slug |-> slug, status |-> "active"]
  OBVIOUS
<1>2. PICK a : a = [tenant |-> id, user |-> name, role |-> "admin"]
  OBVIOUS
<1>3. tenants' = tenants \cup {x} /\ accounts' = accounts \cup {a}
  BY <1>1, <1>2 DEF Stored
<1>4. x \in Tenant /\ a \in Account /\ x.id = id /\ x.slug = slug
  BY <1>1, <1>2 DEF Tenant, Account, Status, Roles
<1>5. TablesOK'
  BY <1>3, <1>4 DEF TypeInv, TablesOK
<1>6. Grows
  BY <1>3 DEF Grows
<1>7. HasRows(id, slug, name)'
  <2>1. x \in tenants' /\ x.id = id /\ x.slug = slug /\ a \in accounts'
    BY <1>3, <1>4
  <2>2. QED BY <1>2, <2>1 DEF HasRows
<1>8. \A u : u # id => (Registered(u)' <=> Registered(u))
  BY <1>3, <1>4 DEF Registered
<1>9. QED BY <1>5, <1>6, <1>7, <1>8

(* The tenant whose status changes keeps its identifier and its slug.       *)
LEMMA UpdateShape ==
    ASSUME TypeInv, NEW p \in 1..2, UpdateStatus(p)
    PROVE  /\ TablesOK' /\ SuperOK' /\ Grows /\ UNCHANGED <<site, create, device, ui, data, history>>
           /\ \A id : Registered(id)' <=> Registered(id)
<1> DEFINE f(x) == IF x.id = Changeable THEN [x EXCEPT !.status = patch[p]] ELSE x
<1>0. tenants \subseteq Tenant /\ accounts \subseteq Account /\ patch \in [1..2 -> Status \cup {None}]
  BY DEF TypeInv, TablesOK, SuperOK
<1>1. patch[p] \in Status /\ accounts' = accounts /\ UNCHANGED <<site, create, device, ui, data, history>>
  BY <1>0 DEF UpdateStatus
<1>2. tenants' = {f(x) : x \in tenants}
  BY DEF UpdateStatus
<1>3. \A x \in tenants : f(x) \in Tenant /\ f(x).id = x.id /\ f(x).slug = x.slug
  BY <1>0, <1>1 DEF Tenant
<1>4. patch' = [patch EXCEPT ![p] = None]
  BY DEF UpdateStatus
<1> HIDE DEF f
<1>5. TablesOK'
  BY <1>0, <1>1, <1>2, <1>3 DEF TablesOK
<1>6. Grows
  BY <1>1, <1>2, <1>3 DEF Grows
<1>7. \A id : Registered(id)' <=> Registered(id)
  BY <1>2, <1>3 DEF Registered
<1>8. SuperOK'
  <2>1. patch' \in [1..2 -> Status \cup {None}] /\ create' = create
    BY <1>0, <1>1, <1>4
  <2>2. QED BY <2>1 DEF TypeInv, SuperOK
<1>9. QED BY <1>1, <1>5, <1>6, <1>7, <1>8
(* The superadmin's steps: identifiers of its own, and rows that stay.      *)
LEMMA SuperShape ==
    ASSUME TypeInv, FreeInv, Superadmin
    PROVE  /\ TablesOK' /\ SuperOK' /\ FreeInv' /\ Grows /\ UNCHANGED <<site, device, ui, data, history>>
           /\ \A t \in Locals : Registered(t)' <=> Registered(t)
<1>0. /\ tenants \subseteq Tenant /\ accounts \subseteq Account /\ patch \in [1..2 -> Status \cup {None}]
      /\ create \in [at: {"idle"}, bySlug: {None}] \cup [at: {"user"}, bySlug: Slugs]
                    \cup [at: {"insert"}, bySlug: Slugs, user: Users]
  BY DEF TypeInv, TablesOK, SuperOK
<1> DEFINE Stays == TablesOK' /\ Grows /\ \A id : Registered(id)' <=> Registered(id)
<1>s. UNCHANGED tables => Stays
  BY <1>0, SameGrows DEF TablesOK, tables
<1>f. Stays /\ (create'.at # "idle" => create.at # "idle") => FreeInv'
  BY DEF FreeInv, Free
<1> HIDE DEF Stays
<1>n. [at |-> "idle", bySlug |-> None] \in [at: {"idle"}, bySlug: {None}]
  OBVIOUS
<1>1. ASSUME NEW slug \in Slugs, StartCreate(slug)
      PROVE  Stays /\ SuperOK' /\ FreeInv' /\ UNCHANGED <<site, device, ui, data, history>>
  <2>1. [at |-> "user", bySlug |-> slug] \in [at: {"user"}, bySlug: Slugs]
    OBVIOUS
  <2>2. create' = [at |-> "user", bySlug |-> slug] /\ patch' = patch /\ UNCHANGED <<site, tables, device, ui, data, history>> /\ Free # {}
    BY <1>1 DEF StartCreate
  <2>3. SuperOK'
    BY <1>0, <2>1, <2>2 DEF SuperOK
  <2>4. FreeInv'
    BY <2>2 DEF FreeInv, Free, Registered, tables
  <2>5. QED BY <1>s, <2>2, <2>3, <2>4
<1>2. ASSUME NEW name \in Users, CheckCreate(name)
      PROVE  Stays /\ SuperOK' /\ FreeInv' /\ UNCHANGED <<site, device, ui, data, history>>
  <2>1. create.at = "user" /\ create.bySlug \in Slugs
    <3>1. create.at = "user"
      BY <1>2 DEF CheckCreate
    <3>2. CASE create \in [at: {"idle"}, bySlug: {None}]
      BY <3>1, <3>2
    <3>3. QED BY <1>0, <3>1, <3>2
  <2>2. [at |-> "insert", bySlug |-> create.bySlug, user |-> name] \in [at: {"insert"}, bySlug: Slugs, user: Users]
    BY <2>1
  <2>3. create' \in {[at |-> "idle", bySlug |-> None], [at |-> "insert", bySlug |-> create.bySlug, user |-> name]}
    BY <1>2 DEF CheckCreate
  <2>4. patch' = patch /\ UNCHANGED <<site, tables, device, ui, data, history>>
    BY <1>2 DEF CheckCreate
  <2>5. SuperOK'
    BY <1>0, <1>n, <2>2, <2>3, <2>4 DEF SuperOK
  <2>6. QED BY <1>s, <1>f, <2>1, <2>4, <2>5
<1>3. ASSUME FinishCreate
      PROVE  /\ TablesOK' /\ Grows /\ \A t \in Locals : Registered(t)' <=> Registered(t)
             /\ SuperOK' /\ FreeInv' /\ UNCHANGED <<site, device, ui, data, history>>
  <2>1. create.at = "insert" /\ create.bySlug \in Slugs /\ create.user \in Users
    <3>1. create.at = "insert"
      BY <1>3 DEF FinishCreate
    <3>2. CASE create \in [at: {"idle"}, bySlug: {None}] \cup [at: {"user"}, bySlug: Slugs]
      BY <3>1, <3>2
    <3>3. QED BY <1>0, <3>1, <3>2
  <2>2. create' = [at |-> "idle", bySlug |-> None] /\ patch' = patch /\ UNCHANGED <<site, device, ui, data, history>>
    BY <1>3 DEF FinishCreate
  <2>3. SuperOK'
    BY <1>0, <1>n, <2>2 DEF SuperOK
  <2>4. FreeInv'
    BY <2>2 DEF FreeInv
  <2>5. UNCHANGED tables \/ Stored(FirstOf(Free), create.bySlug, create.user)
    BY <1>3 DEF FinishCreate
  <2>6. CASE UNCHANGED tables
    BY <1>s, <2>2, <2>3, <2>4, <2>6 DEF Stays
  <2>7. CASE Stored(FirstOf(Free), create.bySlug, create.user)
    <3>1. PICK id : id = FirstOf(Free)
      OBVIOUS
    <3>2. id \in Free
      BY <2>1, <3>1, First DEF FreeInv
    <3>3. id \in Ids /\ id \notin Locals
      BY <3>2, Names DEF Free, Ids
    <3>4. Stored(id, create.bySlug, create.user)
      BY <2>7, <3>1
    <3>5. TablesOK' /\ Grows /\ \A u : u # id => (Registered(u)' <=> Registered(u))
      BY <2>1, <3>3, <3>4, StoredShape
    <3>6. QED BY <2>2, <2>3, <2>4, <3>3, <3>5
  <2>8. QED BY <2>5, <2>6, <2>7
<1>4. ASSUME NEW id \in Ids, NEW name \in Users, NEW role \in Roles, CreateAccount(id, name, role)
      PROVE  Stays /\ SuperOK' /\ FreeInv' /\ UNCHANGED <<site, device, ui, data, history>>
  <2>1. [tenant |-> id, user |-> name, role |-> role] \in Account
    BY DEF Account
  <2>2. accounts' = accounts \cup {[tenant |-> id, user |-> name, role |-> role]} /\ tenants' = tenants
        /\ create' = create /\ patch' = patch /\ UNCHANGED <<site, device, ui, data, history>>
    BY <1>4 DEF CreateAccount, super
  <2>3. Stays
    BY <1>0, <2>1, <2>2 DEF Stays, TablesOK, Grows, Registered
  <2>4. SuperOK'
    BY <1>0, <2>2 DEF SuperOK
  <2>5. QED BY <1>f, <2>2, <2>3, <2>4
<1>5. ASSUME NEW p \in 1..2, UpdateStatus(p)
      PROVE  Stays /\ SuperOK' /\ FreeInv' /\ UNCHANGED <<site, device, ui, data, history>>
  <2>1. /\ TablesOK' /\ SuperOK' /\ Grows /\ UNCHANGED <<site, create, device, ui, data, history>>
        /\ \A id : Registered(id)' <=> Registered(id)
    BY <1>5, UpdateShape
  <2>2. Stays
    BY <2>1 DEF Stays
  <2>3. QED BY <1>f, <2>1, <2>2
<1>6. ASSUME NEW p \in 1..2, NEW to \in Status, CheckStatus(p, to)
      PROVE  Stays /\ SuperOK' /\ FreeInv' /\ UNCHANGED <<site, device, ui, data, history>>
  <2>1. patch' = [patch EXCEPT ![p] = to] /\ create' = create /\ UNCHANGED <<site, tables, device, ui, data, history>>
    BY <1>6 DEF CheckStatus
  <2>2. SuperOK'
    BY <1>0, <2>1 DEF SuperOK
  <2>3. QED BY <1>s, <1>f, <2>1, <2>2
<1>7. QED BY <1>1, <1>2, <1>3, <1>4, <1>5, <1>6 DEF Stays, Superadmin
-----------------------------------------------------------------------------
(* The rows.  What a push does to one kind of rows.                        *)
OutcomeSet == {"ok", "down", "lost"}
Sent(t, k, ks, no) == k \in ks /\ k \notin no /\ rows[t][k] = "pending"

(* f and r are the filed and the marked rows of t after such a push.        *)
AfterPush(t, ks, outcome, no, f, r) ==
    /\ f \in [Kinds -> SUBSET Ids] /\ r \in [Kinds -> {"none", "pending", "synced"}]
    /\ \A k \in Kinds :
         /\ f[k] = IF Sent(t, k, ks, no) /\ outcome # "down" THEN filed[t][k] \cup {token[t]} ELSE filed[t][k]
         /\ r[k] = IF Sent(t, k, ks, no) /\ outcome = "ok" THEN "synced" ELSE rows[t][k]

(* Filed and Marked are of that form.                                      *)
LEMMA PushShape ==
    ASSUME TypeInv, NEW t \in Locals, NEW ks \in SUBSET Kinds, NEW outcome, NEW no, token[t] # None
    PROVE  AfterPush(t, ks, outcome, no, Filed(t, ks, outcome, no), Marked(t, ks, outcome, no))
<1>1. /\ rows[t] \in [Kinds -> {"none", "pending", "synced"}] /\ filed[t] \in [Kinds -> SUBSET Ids]
      /\ token[t] \in Ids
  BY DEF TypeInv, DataOK, DeviceOK
<1>2. \A k \in Kinds : k \in PendingOf(t, ks) \ no <=> Sent(t, k, ks, no)
  BY DEF PendingOf, Sent
<1>3. \A k \in Kinds : filed[t][k] \in SUBSET Ids /\ filed[t][k] \cup {token[t]} \in SUBSET Ids
  BY <1>1
<1>4. \A k \in Kinds :
        Filed(t, ks, outcome, no)[k] =
          IF Sent(t, k, ks, no) /\ outcome # "down" THEN filed[t][k] \cup {token[t]} ELSE filed[t][k]
  BY <1>2 DEF Filed
<1>5. \A k \in Kinds : Marked(t, ks, outcome, no)[k] = IF Sent(t, k, ks, no) /\ outcome = "ok" THEN "synced" ELSE rows[t][k]
  BY <1>2 DEF Marked
<1>6. Filed(t, ks, outcome, no) \in [Kinds -> SUBSET Ids]
  BY <1>3 DEF Filed
<1>7. Marked(t, ks, outcome, no) \in [Kinds -> {"none", "pending", "synced"}]
  BY <1>1 DEF Marked
<1>8. QED BY <1>4, <1>5, <1>6, <1>7 DEF AfterPush

(* Only the rows of t change.                                              *)
OtherRows(t) == \A u \in Locals : u # t => rows'[u] = rows[u] /\ filed'[u] = filed[u] /\ refused'[u] = refused[u]

(* What a push leaves: rows that it sent, filed under the tenant of the     *)
(* token; a row that is marked has been filed.                             *)
Pushed(t) ==
    /\ DataOK' /\ HistoryOK' /\ OtherRows(t) /\ lost' = lost /\ (refused[t] => refused'[t])
    /\ \A k \in Kinds :
         /\ filed'[t][k] = filed[t][k] \/ (rows[t][k] = "pending" /\ filed'[t][k] = filed[t][k] \cup {token[t]})
         /\ rows'[t][k] = rows[t][k]
              \/ (rows[t][k] = "pending" /\ rows'[t][k] = "synced" /\ filed'[t][k] = filed[t][k] \cup {token[t]})

(* The rows of t turn to others.                                           *)
LEMMA RowPoint ==
    ASSUME TypeInv, NEW t \in Locals, NEW r \in [Kinds -> {"none", "pending", "synced"}],
           NEW f \in [Kinds -> SUBSET Ids], NEW b \in BOOLEAN,
           rows' = [rows EXCEPT ![t] = r], filed' = [filed EXCEPT ![t] = f], refused' = [refused EXCEPT ![t] = b], lost' = lost
    PROVE  DataOK' /\ HistoryOK' /\ OtherRows(t) /\ rows'[t] = r /\ filed'[t] = f /\ refused'[t] = b
BY DEF TypeInv, DataOK, HistoryOK, OtherRows

(* A step of the page's sequence pushes one kind, and only goes on when it *)
(* was heard of.                                                           *)
LEMMA StepPushes ==
    ASSUME TypeInv, NEW t \in Locals, NEW h \in Pages, PushStep(t, h), token[t] # None
    PROVE  /\ page[t][h].step \in Kinds /\ ~page[t][h].error /\ Pushed(t)
           /\ \A k \in Kinds : k # page[t][h].step => filed'[t][k] = filed[t][k] /\ rows'[t][k] = rows[t][k]
           /\ page' \in [Locals -> [Pages -> Page]] /\ OtherPages(t, h)
           /\ \/ page'[t][h].error /\ page'[t][h].step = page[t][h].step /\ page'[t][h].seen = page[t][h].seen
              \/ /\ ~page'[t][h].error /\ page'[t][h].step = NextStep(page[t][h].step)
                 /\ page'[t][h].seen \in {page[t][h].seen, config[t]}
                 /\ page[t][h].step = "member" /\ ~refused'[t] => rows'[t]["member"] # "pending"
<1> DEFINE k == page[t][h].step
<1>1. /\ page \in [Locals -> [Pages -> Page]] /\ page[t][h] \in Page /\ config[t] \in Config \cup {None}
      /\ k \in Kinds /\ ~page[t][h].error /\ lost' = lost /\ refused[t] \in BOOLEAN
  BY DEF TypeInv, UiOK, DeviceOK, HistoryOK, PushStep
<1>2. PICK outcome \in Outcomes, no \in Refusals(t, {k}) :
           /\ filed' = [filed EXCEPT ![t] = Filed(t, {k}, outcome, no)]
           /\ rows' = [rows EXCEPT ![t] = Marked(t, {k}, outcome, no)]
           /\ refused' = [refused EXCEPT ![t] = @ \/ no # {}]
           /\ page' = IF outcome # "ok" THEN [page EXCEPT ![t][h].error = TRUE]
                      ELSE [page EXCEPT ![t][h].step = NextStep(k),
                                        ![t][h].seen = IF NextStep(k) = "complete" THEN config[t] ELSE @]
  BY DEF PushStep
<1>3. PICK f, r : f = Filed(t, {k}, outcome, no) /\ r = Marked(t, {k}, outcome, no)
  OBVIOUS
<1>4. PICK b \in BOOLEAN : b = (refused[t] \/ no # {})
  OBVIOUS
<1>5. refused' = [refused EXCEPT ![t] = b]
  BY <1>2, <1>4 DEF TypeInv, HistoryOK
<1>6. AfterPush(t, {k}, outcome, no, f, r)
  <2>1. PICK ks \in SUBSET Kinds : ks = {k}
    BY <1>1
  <2>2. f = Filed(t, ks, outcome, no) /\ r = Marked(t, ks, outcome, no)
    BY <1>3, <2>1
  <2>3. AfterPush(t, ks, outcome, no, Filed(t, ks, outcome, no), Marked(t, ks, outcome, no))
    BY PushShape
  <2>4. AfterPush(t, ks, outcome, no, f, r)
    BY <2>2, <2>3
  <2>5. QED BY <2>1, <2>4
<1>7. DataOK' /\ HistoryOK' /\ OtherRows(t) /\ rows'[t] = r /\ filed'[t] = f /\ refused'[t] = b
  <2>1. rows' = [rows EXCEPT ![t] = r] /\ filed' = [filed EXCEPT ![t] = f]
    BY <1>2, <1>3
  <2>2. QED BY <1>1, <1>5, <1>6, <2>1, RowPoint DEF AfterPush
<1>8. Pushed(t)
  BY <1>1, <1>4, <1>6, <1>7 DEF Pushed, Sent, AfterPush
<1>9. \A j \in Kinds : j # k => filed'[t][j] = filed[t][j] /\ rows'[t][j] = rows[t][j]
  BY <1>6, <1>7 DEF Sent, AfterPush
<1>10. PICK p : p = IF outcome # "ok" THEN [page[t][h] EXCEPT !.error = TRUE]
                    ELSE [page[t][h] EXCEPT !.step = NextStep(k), !.seen = IF NextStep(k) = "complete" THEN config[t] ELSE @]
  OBVIOUS
<1>11. PageIs(t, h, p)
  BY <1>1, <1>2, <1>10 DEF PageIs
<1>12. NextStep(k) \in Steps
  BY <1>1 DEF NextStep, Kinds, Steps
<1>13. /\ p \in Page
       /\ outcome # "ok" => p.error /\ p.step = k /\ p.seen = page[t][h].seen
       /\ outcome = "ok" => ~p.error /\ p.step = NextStep(k) /\ p.seen \in {page[t][h].seen, config[t]}
  BY <1>1, <1>10, <1>12 DEF Page
<1>14. page' \in [Locals -> [Pages -> Page]] /\ page'[t][h] = p /\ OtherPages(t, h)
  BY <1>11, <1>13, PagePoint DEF OtherPages
<1>15. outcome = "ok" /\ k = "member" /\ ~refused'[t] => rows'[t]["member"] # "pending"
  BY <1>1, <1>4, <1>6, <1>7 DEF Sent, AfterPush
<1>16. QED BY <1>1, <1>8, <1>9, <1>13, <1>14, <1>15
(* A cycle pushes members and cards at once: a card is filed with its       *)
(* member.                                                                 *)
LEMMA CyclePushes ==
    ASSUME TypeInv, NEW t \in Locals, Cycle(t)
    PROVE  /\ Pushed(t) /\ config[t] # None /\ token[t] # None
           /\ ~refused'[t] /\ filed'[t]["card"] # filed[t]["card"] /\ rows[t]["member"] = "pending"
                => filed'[t]["member"] = filed[t]["member"] \cup {token[t]}
<1>1. config[t] # None /\ token[t] # None /\ refused[t] \in BOOLEAN /\ lost' = lost
  BY DEF TypeInv, HistoryOK, Cycle
<1>2. PICK e \in Outcomes, x \in Outcomes, no \in Refusals(t, {"member"}) :
         /\ filed' = [filed EXCEPT ![t] = [Filed(t, {"member", "card"}, e, no)
                                            EXCEPT !["tx"] = Filed(t, {"tx"}, x, {})["tx"]]]
         /\ rows' = [rows EXCEPT ![t] = [Marked(t, {"member", "card"}, e, no)
                                           EXCEPT !["tx"] = Marked(t, {"tx"}, x, {})["tx"]]]
         /\ refused' = [refused EXCEPT ![t] = @ \/ no # {}]
  BY DEF Cycle
<1>3. PICK two, one \in SUBSET Kinds : two = {"member", "card"} /\ one = {"tx"}
  BY DEF Kinds
<1>4. PICK none : none = {}
  OBVIOUS
<1>5. PICK f2, r2 : f2 = Filed(t, two, e, no) /\ r2 = Marked(t, two, e, no)
  OBVIOUS
<1>6. PICK f1, r1 : f1 = Filed(t, one, x, none) /\ r1 = Marked(t, one, x, none)
  OBVIOUS
<1>7. PICK f, r : f = [f2 EXCEPT !["tx"] = f1["tx"]] /\ r = [r2 EXCEPT !["tx"] = r1["tx"]]
  OBVIOUS
<1>8. filed' = [filed EXCEPT ![t] = f] /\ rows' = [rows EXCEPT ![t] = r]
  BY <1>2, <1>3, <1>4, <1>5, <1>6, <1>7
<1>9. AfterPush(t, two, e, no, f2, r2) /\ AfterPush(t, one, x, none, f1, r1)
  BY <1>1, <1>5, <1>6, PushShape
<1>10. /\ f2 \in [Kinds -> SUBSET Ids] /\ r2 \in [Kinds -> {"none", "pending", "synced"}]
       /\ f1 \in [Kinds -> SUBSET Ids] /\ r1 \in [Kinds -> {"none", "pending", "synced"}]
  BY <1>9 DEF AfterPush
<1>11. /\ f \in [Kinds -> SUBSET Ids] /\ r \in [Kinds -> {"none", "pending", "synced"}]
       /\ f["tx"] = f1["tx"] /\ r["tx"] = r1["tx"] /\ f["member"] = f2["member"] /\ r["member"] = r2["member"]
       /\ f["card"] = f2["card"] /\ r["card"] = r2["card"]
  BY <1>7, <1>10 DEF Kinds
<1>12. PICK b \in BOOLEAN : b = (refused[t] \/ no # {})
  OBVIOUS
<1>13. refused' = [refused EXCEPT ![t] = b]
  BY <1>2, <1>12 DEF TypeInv, HistoryOK
<1>14. DataOK' /\ HistoryOK' /\ OtherRows(t) /\ rows'[t] = r /\ filed'[t] = f /\ refused'[t] = b
  BY <1>1, <1>8, <1>11, <1>13, RowPoint
<1>15. \A k \in Kinds :
         /\ f[k] = filed[t][k] \/ (rows[t][k] = "pending" /\ f[k] = filed[t][k] \cup {token[t]})
         /\ r[k] = rows[t][k] \/ (rows[t][k] = "pending" /\ r[k] = "synced" /\ f[k] = filed[t][k] \cup {token[t]})
  BY <1>9, <1>11 DEF AfterPush, Sent, Kinds
<1>16. Pushed(t)
  BY <1>1, <1>12, <1>14, <1>15 DEF Pushed
<1>17. no = {} /\ f["card"] # filed[t]["card"] /\ rows[t]["member"] = "pending" => f["member"] = filed[t]["member"] \cup {token[t]}
  BY <1>3, <1>9, <1>11 DEF AfterPush, Sent, Kinds
<1>18. QED BY <1>1, <1>12, <1>14, <1>16, <1>17

(* A row is made: none of its kind was there, its member is, and unless     *)
(* rows come late no page is at its sequence.                              *)
LEMMA NewRowShape ==
    ASSUME TypeInv, NEW t \in Locals, NEW k \in Kinds, NewRow(t, k)
    PROVE  /\ DataOK' /\ OtherRows(t) /\ rows[t][k] = "none" /\ rows'[t][k] = "pending"
           /\ \A j \in Kinds : j # k => rows'[t][j] = rows[t][j]
           /\ filed' = filed /\ refused' = refused
           /\ k = "card" => rows[t]["member"] # "none"
           /\ site.late \/ \A h \in Pages : ~UnderWay(t, h)
<1>1. rows \in [Locals -> [Kinds -> {"none", "pending", "synced"}]] /\ filed \in [Locals -> [Kinds -> SUBSET Ids]]
  BY DEF TypeInv, DataOK
<1>2. rows' = [rows EXCEPT ![t][k] = "pending"] /\ filed' = filed /\ refused' = refused /\ rows[t][k] = "none"
  BY DEF NewRow, history
<1>3. k = "card" => rows[t]["member"] # "none"
  BY DEF NewRow, Before
<1>4. site.late \/ \A h \in Pages : ~UnderWay(t, h)
  BY DEF NewRow
<1>5. DataOK' /\ OtherRows(t) /\ rows'[t][k] = "pending" /\ \A j \in Kinds : j # k => rows'[t][j] = rows[t][j]
  BY <1>1, <1>2 DEF DataOK, OtherRows
<1>6. QED BY <1>2, <1>3, <1>4, <1>5
-----------------------------------------------------------------------------
(* What keeps the parts of the invariant where a step does not reach.       *)
SameReg(t) ==
    /\ config'[t] = config[t] /\ user'[t] = user[t] /\ (lost[t] => lost'[t])
    /\ \A h \in Hooks : req'[t][h] = req[t][h] /\ hook'[t][h].conflict \in {hook[t][h].conflict, None}
    /\ \A h \in Pages : page'[t][h].seen \in {page[t][h].seen, config[t]}
    /\ Registered(t)' <=> Registered(t)

(* Rows of the server stay.                                                *)
LEMMA HasStays == Grows => \A t, slug, name : HasRows(t, slug, name) => HasRows(t, slug, name)'
BY DEF Grows, HasRows

(* What is said of a request stays true while the request and the tables   *)
(* do; a conflict may be forgotten.                                        *)
LEMMA RequestStays ==
    ASSUME NEW t, NEW h, RequestInv(t, h), Grows, Registered(t) => Registered(t)',
           req'[t][h] = req[t][h], hook'[t][h].conflict \in {hook[t][h].conflict, None}
    PROVE  RequestInv(t, h)'
<1>1. PICK r, c : r = req[t][h] /\ c = hook[t][h].conflict
  OBVIOUS
<1>2. req'[t][h] = r /\ hook'[t][h].conflict \in {c, None}
  BY <1>1
<1>3. ASSUME r.at = "done", r.answer = None
      PROVE  HasRows(t, r.slug, r.user)'
  <2>1. HasRows(t, r.slug, r.user)
    BY <1>1, <1>3 DEF RequestInv, Stands
  <2>2. QED BY <2>1, HasStays
<1>4. ASSUME r.at = "recheck"
      PROVE  Registered(t)' \/ WithSlug(r.slug)' # {} \/ Named(r.user)' # {}
  <2>1. Registered(t) \/ WithSlug(r.slug) # {} \/ Named(r.user) # {}
    BY <1>1, <1>4 DEF RequestInv
  <2>2. WithSlug(r.slug) # {} => WithSlug(r.slug)' # {}
    BY DEF WithSlug, Grows
  <2>3. Named(r.user) # {} => Named(r.user)' # {}
    BY DEF Named, Grows
  <2>4. QED BY <2>1, <2>2, <2>3
<1>5. ASSUME (r.at = "done" /\ IsUnknown(r.answer)) \/ IsUnknown(c)
      PROVE  Registered(t)' \/ HasStaff(r.user)'
  <2>1. Registered(t) \/ HasStaff(r.user)
    BY <1>1, <1>5 DEF RequestInv
  <2>2. HasStaff(r.user) => HasStaff(r.user)'
    BY DEF HasStaff, Named, Grows
  <2>3. QED BY <2>1, <2>2
<1>6. QED BY <1>2, <1>3, <1>4, <1>5 DEF RequestInv, Stands, HasRows, WithSlug, Named, HasStaff, IsUnknown, Registered

(* So does what is said of a synced tenant.                                *)
LEMMA SyncedStays ==
    ASSUME NEW t, Grows, Synced(t) => HasRows(t, config[t].slug, user[t]), config'[t] = config[t], user'[t] = user[t]
    PROVE  /\ Synced(t)' <=> Synced(t)
           /\ Synced(t)' => HasRows(t, config[t].slug, user[t])'
<1>1. PICK c, n : c = config[t] /\ n = user[t]
  OBVIOUS
<1>2. config'[t] = c /\ user'[t] = n
  BY <1>1
<1>3. Synced(t)' <=> Synced(t)
  BY <1>1, <1>2 DEF Synced
<1>4. Synced(t) => HasRows(t, c.slug, n)'
  <2>1. Synced(t) => HasRows(t, c.slug, n)
    BY <1>1
  <2>2. QED BY <2>1, HasStays
<1>5. QED BY <1>2, <1>3, <1>4 DEF HasRows

(* Therefore a tenant that a step leaves alone keeps its part of RegInv.   *)
LEMMA SameKeeps ==
    ASSUME NEW t \in Locals, Grows, SameReg(t), RegInv
    PROVE  DeviceInv(t)' /\ \A h \in Hooks : RequestInv(t, h)'
<1>1. DeviceInv(t) /\ \A h \in Hooks : RequestInv(t, h)
  BY DEF RegInv
<1>2. /\ config'[t] = config[t] /\ user'[t] = user[t] /\ (lost[t] => lost'[t])
      /\ \A h \in Hooks : req'[t][h] = req[t][h] /\ hook'[t][h].conflict \in {hook[t][h].conflict, None}
      /\ \A h \in Pages : page'[t][h].seen \in {page[t][h].seen, config[t]}
      /\ Registered(t)' <=> Registered(t)
  BY DEF SameReg
<1>3. \A h \in Hooks : RequestInv(t, h)'
  BY <1>1, <1>2, RequestStays
<1>4. config'[t] = None => NothingYet(t)'
  <2>1. config[t] = None => NothingYet(t)
    BY <1>1 DEF DeviceInv
  <2>2. config[t] = None /\ NothingYet(t) => NothingYet(t)'
    BY <1>2 DEF NothingYet
  <2>3. QED BY <1>2, <2>1, <2>2
<1>5. (Synced(t)' <=> Synced(t)) /\ (Synced(t)' => HasRows(t, config[t].slug, user[t])')
  BY <1>1, <1>2, SyncedStays DEF DeviceInv
<1>6. Registered(t)' /\ ~lost'[t] => Synced(t)' \/ \E h \in Hooks : Stands(t, h)'
  <2>1. Registered(t) /\ ~lost[t] => Synced(t) \/ \E h \in Hooks : Stands(t, h)
    BY <1>1 DEF DeviceInv
  <2>2. \A h \in Hooks : Stands(t, h)' <=> Stands(t, h)
    BY <1>2 DEF Stands
  <2>3. QED BY <1>2, <1>5, <2>1, <2>2
<1>7. DeviceInv(t)'
  BY <1>4, <1>5, <1>6 DEF DeviceInv
<1>8. QED BY <1>3, <1>7

(* The rows and the token are those of before, and so is the step of a page *)
(* that pushes.                                                            *)
SameRows(t) ==
    /\ rows'[t] = rows[t] /\ filed'[t] = filed[t] /\ token'[t] = token[t] /\ (refused[t] => refused'[t])
    /\ \A h \in Pages : /\ page'[t][h].step \in Kinds => page'[t][h].step = page[t][h].step
                        /\ page'[t][h].step \in Kinds => page'[t][h].error = page[t][h].error

(* ... and its part of RowsInv.                                            *)
LEMMA SameRowsKeeps ==
    ASSUME NEW t \in Locals, site' = site, SameRows(t), RowsInv
    PROVE  TokenOK(t)' /\ OrderOK(t)'
<1>1. TokenOK(t) /\ OrderOK(t)
  BY DEF RowsInv
<1>2. TokenOK(t)'
  BY <1>1 DEF TokenOK, SameRows
<1>3. OrderOK(t)'
  BY <1>1 DEF OrderOK, SameRows, Kinds
<1>4. QED BY <1>2, <1>3

(* What is free stays free while nothing is stored.                        *)
LEMMA SameFree == ASSUME FreeInv, UNCHANGED <<create, tables>> PROVE FreeInv'
BY DEF FreeInv, Free, Registered, tables

(* The same of the tables and of who is registered.                        *)
LEMMA SameTables == ASSUME TypeInv, UNCHANGED tables PROVE TablesOK' /\ Grows /\ \A id : Registered(id)' <=> Registered(id)
BY SameGrows DEF TypeInv, TablesOK, tables

(* A step that leaves what users see alone.                                *)
LEMMA SameUi == ASSUME UiInv, UNCHANGED <<hook, req, page>> PROVE UiInv'
BY DEF UiInv, HookOK, PageOK

(* The types of variables that stay.                                       *)
LEMMA SameTypes ==
    ASSUME TypeInv, site' = site
    PROVE  /\ site' \in Sites
           /\ UNCHANGED device => DeviceOK'
           /\ UNCHANGED ui => UiOK' /\ CarriesOK'
           /\ UNCHANGED data => DataOK'
           /\ UNCHANGED super => SuperOK'
           /\ UNCHANGED history => HistoryOK'
BY DEF TypeInv, DeviceOK, UiOK, CarriesOK, DataOK, SuperOK, HistoryOK, device, ui, data, super, history
-----------------------------------------------------------------------------
(* Each step keeps the invariant.                                          *)
LEMMA SuperKeeps == ASSUME Inv, Superadmin PROVE Inv'
<1>1. TypeInv /\ UiInv /\ RegInv /\ RowsInv /\ FreeInv
  BY DEF Inv
<1>2. /\ TablesOK' /\ SuperOK' /\ FreeInv' /\ Grows /\ UNCHANGED <<site, device, ui, data, history>>
      /\ \A t \in Locals : Registered(t)' <=> Registered(t)
  BY <1>1, SuperShape
<1>3. TypeInv'
  BY <1>1, <1>2, SameTypes DEF TypeInv
<1>4. UiInv'
  BY <1>1, <1>2, SameUi DEF ui
<1>5. \A t \in Locals : SameReg(t) /\ SameRows(t)
  BY <1>2 DEF SameReg, SameRows, device, ui, data, history
<1>6. RegInv'
  BY <1>1, <1>2, <1>5, SameKeeps DEF RegInv
<1>7. RowsInv'
  BY <1>1, <1>2, <1>5, SameRowsKeeps DEF RowsInv
<1>8. QED BY <1>2, <1>3, <1>4, <1>6, <1>7 DEF Inv

(* The steps of the rows leave the rest alone.                             *)
LEMMA OnlyRows ==
    ASSUME Inv, UNCHANGED <<site, tables, device, ui, super, lost>>, DataOK', HistoryOK',
           \A t \in Locals : TokenOK(t)' /\ OrderOK(t)'
    PROVE  Inv'
<1>1. TypeInv /\ UiInv /\ RegInv /\ RowsInv /\ FreeInv
  BY DEF Inv
<1>2. TablesOK' /\ Grows /\ \A id : Registered(id)' <=> Registered(id)
  BY <1>1, SameTables
<1>3. TypeInv'
  BY <1>1, <1>2, SameTypes DEF TypeInv
<1>4. UiInv'
  BY <1>1, SameUi DEF ui
<1>5. \A t \in Locals : SameReg(t)
  BY <1>2 DEF SameReg, device, ui
<1>6. RegInv'
  BY <1>1, <1>2, <1>5, SameKeeps DEF RegInv
<1>7. FreeInv'
  BY <1>1, SameFree DEF super
<1>8. RowsInv'
  BY DEF RowsInv
<1>9. QED BY <1>3, <1>4, <1>6, <1>7, <1>8 DEF Inv

(* A new row: a member only while no page is past the members.             *)
LEMMA NewRowKeeps == ASSUME Inv, NEW t \in Locals, NEW k \in Kinds, NewRow(t, k) PROVE Inv'
<1>1. TypeInv /\ RowsInv
  BY DEF Inv
<1>2. UNCHANGED <<site, tables, device, ui, filed, super, history>>
  BY DEF NewRow
<1>3. /\ DataOK' /\ OtherRows(t) /\ rows[t][k] = "none" /\ rows'[t][k] = "pending"
      /\ \A j \in Kinds : j # k => rows'[t][j] = rows[t][j]
      /\ filed' = filed /\ refused' = refused
      /\ k = "card" => rows[t]["member"] # "none"
      /\ site.late \/ \A h \in Pages : ~UnderWay(t, h)
  BY <1>1, NewRowShape
<1>4. HistoryOK'
  BY <1>1, <1>2, SameTypes
<1>5. \A u \in Locals : u # t => SameRows(u)
  BY <1>2, <1>3 DEF SameRows, OtherRows, ui, device
<1>6. TokenOK(t) /\ OrderOK(t)
  BY <1>1 DEF RowsInv
<1>7. TokenOK(t)'
  BY <1>2, <1>6 DEF TokenOK, device, ui
<1>8. OrderOK(t)'
  <2>1. rows'[t]["card"] # "none" => rows'[t]["member"] # "none"
    BY <1>3, <1>6 DEF OrderOK, Kinds
  <2>2. rows'[t]["member"] = "synced" => filed'[t]["member"] # {}
    BY <1>3, <1>6 DEF OrderOK, Kinds
  <2>3. ASSUME ~site.late, ~refused[t], NEW h \in Pages, page[t][h].step \in {"card", "tx"}, ~page[t][h].error
        PROVE  rows'[t]["member"] # "pending"
    BY <1>3, <2>3 DEF UnderWay
  <2>4. ~site.late /\ ~refused[t] /\ t \notin site.held => filed'[t]["card"] \subseteq filed'[t]["member"]
    BY <1>3, <1>6 DEF OrderOK
  <2>5. page' = page /\ site' = site /\ refused' = refused
    BY <1>2 DEF ui, history
  <2>6. QED BY <2>1, <2>2, <2>3, <2>4, <2>5 DEF OrderOK
<1>9. \A u \in Locals : TokenOK(u)' /\ OrderOK(u)'
  BY <1>1, <1>2, <1>5, <1>7, <1>8, SameRowsKeeps
<1>10. QED BY <1>2, <1>3, <1>4, <1>9, OnlyRows DEF history

(* A card that is filed has its member there, or with it.                   *)
LEMMA PushedKeeps ==
    ASSUME TypeInv, NEW t \in Locals, Pushed(t), TokenOK(t), OrderOK(t), token[t] # None
    PROVE  /\ t \notin site.held => \A k \in Kinds : filed'[t][k] \subseteq {t}
           /\ rows'[t]["card"] # "none" => rows'[t]["member"] # "none"
           /\ rows'[t]["member"] = "synced" => filed'[t]["member"] # {}
           /\ rows[t]["member"] # "pending" => rows'[t]["member"] # "pending"
           /\ ~site.late /\ ~refused'[t] /\ t \notin site.held
                /\ (filed'[t]["card"] # filed[t]["card"] =>
                      rows[t]["member"] # "pending" \/ filed'[t]["member"] = filed[t]["member"] \cup {token[t]})
              => filed'[t]["card"] \subseteq filed'[t]["member"]
<1>1. /\ refused[t] => refused'[t]
      /\ \A k \in Kinds :
         /\ filed'[t][k] = filed[t][k] \/ (rows[t][k] = "pending" /\ filed'[t][k] = filed[t][k] \cup {token[t]})
         /\ rows'[t][k] = rows[t][k]
              \/ (rows[t][k] = "pending" /\ rows'[t][k] = "synced" /\ filed'[t][k] = filed[t][k] \cup {token[t]})
  BY DEF Pushed
<1>2. "member" \in Kinds /\ "card" \in Kinds
  BY DEF Kinds
<1>3. t \notin site.held => token[t] = t /\ \A k \in Kinds : filed[t][k] \subseteq {t}
  BY DEF TokenOK
<1>4. t \notin site.held => \A k \in Kinds : filed'[t][k] \subseteq {t}
  BY <1>1, <1>3
<1>5. rows'[t]["card"] # "none" => rows'[t]["member"] # "none"
  BY <1>1, <1>2 DEF OrderOK
<1>6. rows'[t]["member"] = "synced" => filed'[t]["member"] # {}
  BY <1>1, <1>2 DEF OrderOK
<1>7. rows[t]["member"] # "pending" => rows'[t]["member"] # "pending"
  BY <1>1, <1>2
<1>8. ASSUME ~site.late, ~refused'[t], t \notin site.held,
             filed'[t]["card"] # filed[t]["card"] =>
               rows[t]["member"] # "pending" \/ filed'[t]["member"] = filed[t]["member"] \cup {token[t]}
      PROVE  filed'[t]["card"] \subseteq filed'[t]["member"]
  <2>1. filed[t]["card"] \subseteq filed[t]["member"] /\ filed[t]["member"] \subseteq filed'[t]["member"]
    BY <1>1, <1>2, <1>8 DEF OrderOK
  <2>2. CASE filed'[t]["card"] = filed[t]["card"]
    BY <2>1, <2>2
  <2>3. CASE filed'[t]["card"] # filed[t]["card"]
    <3>1. rows[t]["card"] = "pending" /\ filed'[t]["card"] \subseteq {t} /\ filed'[t]["member"] \subseteq {t}
      BY <1>1, <1>2, <1>4, <1>8, <2>3
    <3>2. rows[t]["member"] # "none"
      BY <3>1 DEF OrderOK
    <3>3. rows[t]["member"] \in {"none", "pending", "synced"}
      BY <1>2 DEF TypeInv, DataOK
    <3>4. filed'[t]["member"] # {}
      <4>1. CASE rows[t]["member"] = "synced"
        BY <2>1, <4>1 DEF OrderOK
      <4>2. CASE rows[t]["member"] = "pending"
        BY <1>8, <2>3, <4>2
      <4>3. QED BY <3>2, <3>3, <4>1, <4>2
    <3>5. QED BY <3>1, <3>4
  <2>4. QED BY <2>2, <2>3
<1>9. QED BY <1>4, <1>5, <1>6, <1>7, <1>8

(* A cycle of the sync engine.                                             *)
LEMMA CycleKeeps == ASSUME Inv, NEW t \in Locals, Cycle(t) PROVE Inv'
<1>1. TypeInv /\ RowsInv
  BY DEF Inv
<1>2. UNCHANGED <<site, tables, device, ui, super, lost>>
  BY DEF Cycle
<1>3. /\ Pushed(t) /\ token[t] # None
      /\ ~refused'[t] /\ filed'[t]["card"] # filed[t]["card"] /\ rows[t]["member"] = "pending"
           => filed'[t]["member"] = filed[t]["member"] \cup {token[t]}
  BY <1>1, CyclePushes
<1>4. DataOK' /\ HistoryOK' /\ OtherRows(t) /\ (refused[t] => refused'[t])
  BY <1>3 DEF Pushed
<1>5. \A u \in Locals : u # t => SameRows(u)
  BY <1>2, <1>4 DEF SameRows, OtherRows, ui, device
<1>6. TokenOK(t) /\ OrderOK(t)
  BY <1>1 DEF RowsInv
<1>7. /\ t \notin site.held => \A k \in Kinds : filed'[t][k] \subseteq {t}
      /\ rows'[t]["card"] # "none" => rows'[t]["member"] # "none"
      /\ rows'[t]["member"] = "synced" => filed'[t]["member"] # {}
      /\ rows[t]["member"] # "pending" => rows'[t]["member"] # "pending"
      /\ ~site.late /\ ~refused'[t] /\ t \notin site.held => filed'[t]["card"] \subseteq filed'[t]["member"]
  BY <1>1, <1>3, <1>6, PushedKeeps
<1>8. page' = page /\ token' = token /\ site' = site
  BY <1>2 DEF ui, device
<1>9. TokenOK(t)'
  BY <1>6, <1>7, <1>8 DEF TokenOK
<1>10. OrderOK(t)'
  BY <1>4, <1>6, <1>7, <1>8 DEF OrderOK
<1>11. \A u \in Locals : TokenOK(u)' /\ OrderOK(u)'
  BY <1>1, <1>2, <1>5, <1>9, <1>10, SameRowsKeeps
<1>12. QED BY <1>2, <1>4, <1>11, OnlyRows

(* A step of a page's sequence. Past the members none is pending, so a     *)
(* card has its member there.                                              *)
LEMMA StepKeeps == ASSUME Inv, NEW t \in Locals, NEW h \in Pages, PushStep(t, h) PROVE Inv'
<1>1. TypeInv /\ UiInv /\ RegInv /\ RowsInv /\ FreeInv
  BY DEF Inv
<1>2. UNCHANGED <<site, tables, device, hook, req, presses, super, lost>> /\ page[t][h].step \in Kinds
  BY DEF PushStep
<1>3. TokenOK(t) /\ OrderOK(t) /\ token[t] # None
  BY <1>1, <1>2 DEF RowsInv, TokenOK
<1>4. /\ ~page[t][h].error /\ Pushed(t)
      /\ \A k \in Kinds : k # page[t][h].step => filed'[t][k] = filed[t][k] /\ rows'[t][k] = rows[t][k]
      /\ page' \in [Locals -> [Pages -> Page]] /\ OtherPages(t, h)
      /\ \/ page'[t][h].error /\ page'[t][h].step = page[t][h].step /\ page'[t][h].seen = page[t][h].seen
         \/ /\ ~page'[t][h].error /\ page'[t][h].step = NextStep(page[t][h].step)
            /\ page'[t][h].seen \in {page[t][h].seen, config[t]}
            /\ page[t][h].step = "member" /\ ~refused'[t] => rows'[t]["member"] # "pending"
  BY <1>1, <1>3, StepPushes
<1>5. DataOK' /\ HistoryOK' /\ OtherRows(t) /\ (refused[t] => refused'[t])
  BY <1>4 DEF Pushed
<1>6. TablesOK' /\ Grows /\ \A id : Registered(id)' <=> Registered(id)
  BY <1>1, <1>2, SameTables
<1>7. TypeInv'
  <2>1. UiOK' /\ CarriesOK'
    BY <1>1, <1>2, <1>4 DEF TypeInv, UiOK, CarriesOK
  <2>2. QED BY <1>1, <1>2, <1>5, <1>6, <2>1, SameTypes DEF TypeInv
<1>8. UiInv'
  <2>1. \A u \in Locals, g \in Hooks : HookOK(u, g)'
    BY <1>1, <1>2 DEF UiInv, HookOK
  <2>2. PageOK(t, h)'
    BY <1>1, <1>2, <1>4 DEF UiInv, PageOK
  <2>3. \A u \in Locals, g \in Pages : u # t \/ g # h => PageOK(u, g)'
    BY <1>1, <1>2, <1>4 DEF UiInv, PageOK, OtherPages
  <2>4. QED BY <2>1, <2>2, <2>3 DEF UiInv
<1>9. RegInv'
  <2>1. \A u \in Locals : SameReg(u)
    BY <1>2, <1>4, <1>6 DEF SameReg, OtherPages, device
  <2>2. QED BY <1>1, <1>6, <2>1, SameKeeps DEF RegInv
<1>10. \A u \in Locals : u # t => SameRows(u)
  BY <1>2, <1>4, <1>5 DEF SameRows, OtherRows, OtherPages, device
<1>11. /\ t \notin site.held => \A k \in Kinds : filed'[t][k] \subseteq {t}
       /\ rows'[t]["card"] # "none" => rows'[t]["member"] # "none"
       /\ rows'[t]["member"] = "synced" => filed'[t]["member"] # {}
       /\ rows[t]["member"] # "pending" => rows'[t]["member"] # "pending"
       /\ ~site.late /\ ~refused'[t] /\ t \notin site.held => filed'[t]["card"] \subseteq filed'[t]["member"]
  <2>1. ~site.late /\ ~refused'[t] /\ filed'[t]["card"] # filed[t]["card"] => rows[t]["member"] # "pending"
    <3>1. filed'[t]["card"] # filed[t]["card"] => page[t][h].step = "card"
      BY <1>4 DEF Kinds
    <3>2. QED BY <1>3, <1>4, <1>5, <3>1 DEF OrderOK
  <2>2. QED BY <1>1, <1>3, <1>4, <2>1, PushedKeeps
<1>12. TokenOK(t)'
  <2>1. token' = token /\ site' = site
    BY <1>2 DEF device
  <2>2. \A g \in Pages : token'[t] # None
    BY <1>3, <2>1
  <2>3. QED BY <1>3, <1>11, <2>1, <2>2 DEF TokenOK
<1>13. OrderOK(t)'
  <2>1. ASSUME ~site.late, ~refused'[t], NEW g \in Pages, page'[t][g].step \in {"card", "tx"}, ~page'[t][g].error
        PROVE  rows'[t]["member"] # "pending"
    <3>1. CASE g # h
      BY <1>3, <1>4, <1>5, <1>11, <2>1, <3>1 DEF OrderOK, OtherPages
    <3>2. CASE g = h
      <4>1. page'[t][h].step = NextStep(page[t][h].step) /\ page[t][h].step \in {"member", "card", "tx"}
        BY <1>2, <1>4, <2>1, <3>2 DEF Kinds
      <4>2. page[t][h].step \in {"member", "card"}
        BY <2>1, <3>2, <4>1 DEF NextStep
      <4>3. CASE page[t][h].step = "member"
        BY <1>4, <2>1, <3>2, <4>3
      <4>4. CASE page[t][h].step = "card"
        BY <1>3, <1>4, <1>5, <1>11, <2>1, <4>4 DEF OrderOK
      <4>5. QED BY <4>2, <4>3, <4>4
    <3>3. QED BY <3>1, <3>2
  <2>2. site' = site
    BY <1>2
  <2>3. QED BY <1>11, <2>1, <2>2 DEF OrderOK
<1>14. RowsInv'
  BY <1>1, <1>2, <1>10, <1>12, <1>13, SameRowsKeeps DEF RowsInv
<1>15. FreeInv'
  BY <1>1, <1>2, SameFree DEF super
<1>16. QED BY <1>7, <1>8, <1>9, <1>14, <1>15 DEF Inv

(* The steps of the pages leave tables and rows alone.                      *)
LEMMA OnlyUi ==
    ASSUME Inv, UNCHANGED <<site, tables, device, data, super, refused>>, UiOK', CarriesOK', lost' \in [Locals -> BOOLEAN], UiInv',
           \A t \in Locals : /\ SameReg(t) \/ (DeviceInv(t)' /\ \A h \in Hooks : RequestInv(t, h)')
                             /\ SameRows(t)
    PROVE  Inv'
<1>1. TypeInv /\ UiInv /\ RegInv /\ RowsInv /\ FreeInv
  BY DEF Inv
<1>2. TablesOK' /\ Grows
  BY <1>1, SameTables
<1>3. HistoryOK'
  BY <1>1 DEF TypeInv, HistoryOK
<1>4. TypeInv'
  BY <1>1, <1>2, <1>3, SameTypes DEF TypeInv
<1>5. RegInv'
  BY <1>1, <1>2, SameKeeps DEF RegInv
<1>6. RowsInv'
  BY <1>1, SameRowsKeeps DEF RowsInv
<1>7. FreeInv'
  BY <1>1, SameFree DEF super
<1>8. QED BY <1>4, <1>5, <1>6, <1>7 DEF Inv

(* A page is opened: it was not waiting for a request.                     *)
LEMMA OpenKeeps == ASSUME Inv, NEW t \in Locals, NEW h \in Pages, Open(t, h) PROVE Inv'
<1>1. TypeInv /\ UiInv
  BY DEF Inv
<1>2. UNCHANGED <<site, tables, device, data, super, history>> /\ h \in Hooks
  BY DEF Open, Pages, Hooks
<1>3. /\ UiOK' /\ OtherHooks(t, h) /\ OtherPages(t, h) /\ UNCHANGED req /\ config[t] # None
      /\ ~Busy(t, h) \/ page[t][h].error
      /\ hook'[t][h].status = "idle" /\ hook'[t][h].conflict = None
      /\ page'[t][h].seen = config[t] /\ page'[t][h].step = "none" /\ ~page'[t][h].error
  BY <1>1, OpenShape
<1>4. CarriesOK' /\ lost' \in [Locals -> BOOLEAN]
  BY <1>1, <1>2, <1>3 DEF TypeInv, CarriesOK, HistoryOK, history
<1>5. UiInv'
  <2>1. HookOK(t, h) /\ PageOK(t, h)
    BY <1>1, <1>2 DEF UiInv
  <2>2. hook[t][h].status # "syncing"
    BY <1>3, <2>1 DEF Busy, PageOK
  <2>3. HookOK(t, h)'
    BY <1>3, <2>1, <2>2 DEF HookOK
  <2>4. PageOK(t, h)'
    BY <1>3 DEF PageOK, Kinds
  <2>5. \A u \in Locals, g \in Hooks : u # t \/ g # h => HookOK(u, g)'
    BY <1>1, <1>3 DEF UiInv, HookOK, OtherHooks
  <2>6. \A u \in Locals, g \in Pages : u # t \/ g # h => PageOK(u, g)'
    BY <1>1, <1>3 DEF UiInv, PageOK, OtherHooks, OtherPages, Pages, Hooks
  <2>7. QED BY <2>3, <2>4, <2>5, <2>6 DEF UiInv
<1>6. \A u \in Locals : SameReg(u)
  <2>1. \A id : Registered(id)' <=> Registered(id)
    BY <1>1, <1>2, SameTables
  <2>2. QED BY <1>2, <1>3, <2>1 DEF SameReg, OtherHooks, OtherPages, device, history
<1>7. \A u \in Locals : SameRows(u)
  BY <1>2, <1>3 DEF SameRows, OtherPages, device, data, history, Kinds
<1>8. QED BY <1>2, <1>3, <1>4, <1>5, <1>6, <1>7, OnlyUi DEF history

(* A conflict is dismissed.                                                *)
LEMMA DismissKeeps == ASSUME Inv, NEW t \in Locals, Dismiss(t) PROVE Inv'
<1> DEFINE h == "settings"
<1>1. TypeInv /\ UiInv /\ h \in Hooks
  BY DEF Inv, Hooks
<1>2. UNCHANGED <<site, tables, device, data, super, history>>
  BY DEF Dismiss
<1>3. /\ UiOK' /\ OtherHooks(t, h) /\ UNCHANGED <<req, page>> /\ hook[t][h].conflict # None
      /\ hook'[t][h].status = "idle" /\ hook'[t][h].conflict = None
  BY <1>1, DismissShape
<1>4. CarriesOK' /\ lost' \in [Locals -> BOOLEAN]
  BY <1>1, <1>2, <1>3 DEF TypeInv, CarriesOK, HistoryOK, history
<1> HIDE DEF h
<1>5. UiInv'
  <2>1. HookOK(t, h)'
    BY <1>1, <1>3 DEF UiInv, HookOK
  <2>2. \A u \in Locals, g \in Hooks : u # t \/ g # h => HookOK(u, g)'
    BY <1>1, <1>3 DEF UiInv, HookOK, OtherHooks
  <2>3. \A u \in Locals, g \in Pages : hook'[u][g].status = "syncing" => hook[u][g].status = "syncing"
    BY <1>3 DEF OtherHooks, Pages, Hooks
  <2>4. \A u \in Locals, g \in Pages : PageOK(u, g)'
    BY <1>1, <1>3, <2>3 DEF UiInv, PageOK
  <2>5. QED BY <2>1, <2>2, <2>4 DEF UiInv
<1>6. \A u \in Locals : SameReg(u)
  <2>1. \A id : Registered(id)' <=> Registered(id)
    BY <1>1, <1>2, SameTables
  <2>2. QED BY <1>2, <1>3, <2>1 DEF SameReg, OtherHooks, device, history
<1>7. \A u \in Locals : SameRows(u)
  BY <1>2, <1>3 DEF SameRows, device, data, history
<1>8. QED BY <1>2, <1>3, <1>4, <1>5, <1>6, <1>7, OnlyUi DEF history

(* A reload: a 201 under way counts as lost.                               *)
LEMMA ReloadKeeps == ASSUME Inv, NEW t \in Locals, Reload(t) PROVE Inv'
<1>1. TypeInv /\ UiInv /\ RegInv
  BY DEF Inv
<1>2. UNCHANGED <<site, tables, device, data, super, refused>>
  BY DEF Reload
<1>3. /\ UiOK' /\ config[t] # None /\ lost' \in [Locals -> BOOLEAN]
      /\ \A h \in Hooks : hook'[t][h] = NoHook /\ req'[t][h] = NoRequest
      /\ \A h \in Pages : page'[t][h] = FreshPage(None)
      /\ \A u \in Locals : u # t => hook'[u] = hook[u] /\ req'[u] = req[u] /\ page'[u] = page[u]
      /\ \A u \in Locals : lost[u] => lost'[u]
      /\ (\E h \in Hooks : Stands(t, h)) => lost'[t]
  BY <1>1, ReloadShape
<1>4. /\ \A h \in Hooks : hook'[t][h].status = "idle" /\ hook'[t][h].conflict = None /\ req'[t][h].at = "idle"
      /\ \A h \in Pages : page'[t][h].step = "none" /\ ~page'[t][h].error
  BY <1>3, NoHookIsHook, NoRequestIsRequest, FreshIsPage
<1>5. CarriesOK'
  BY <1>1, <1>3, <1>4 DEF TypeInv, CarriesOK
<1>6. UiInv'
  <2>1. \A u \in Locals, g \in Hooks : HookOK(u, g)'
    BY <1>1, <1>3, <1>4 DEF UiInv, HookOK
  <2>2. \A u \in Locals, g \in Pages : PageOK(u, g)'
    BY <1>1, <1>3, <1>4 DEF UiInv, PageOK, Kinds
  <2>3. QED BY <2>1, <2>2 DEF UiInv
<1>7. Grows /\ \A id : Registered(id)' <=> Registered(id)
  BY <1>1, <1>2, SameTables
<1>8. \A u \in Locals : u # t => SameReg(u)
  BY <1>2, <1>3, <1>7 DEF SameReg, device
<1>9. \A h \in Hooks : RequestInv(t, h)'
  BY <1>4 DEF RequestInv, Stands, IsUnknown
<1>10. DeviceInv(t)'
  <2>1. DeviceInv(t) /\ config' = config /\ user' = user
    BY <1>1, <1>2 DEF RegInv, device
  <2>2. (Synced(t)' <=> Synced(t)) /\ (Synced(t)' => HasRows(t, config[t].slug, user[t])')
    BY <1>7, <2>1, SyncedStays DEF DeviceInv
  <2>3. Registered(t)' /\ ~lost'[t] => Synced(t)'
    BY <1>3, <1>7, <2>1, <2>2 DEF DeviceInv
  <2>4. QED BY <1>3, <2>1, <2>2, <2>3 DEF DeviceInv
<1>11. \A u \in Locals : SameRows(u)
  BY <1>2, <1>3, <1>4 DEF SameRows, device, data, Kinds
<1>12. QED BY <1>2, <1>3, <1>5, <1>6, <1>8, <1>9, <1>10, <1>11, OnlyUi

(* A request that has begun.                                               *)
Begun(t, h) ==
    /\ hook[t][h].status # "syncing" /\ OtherHooks(t, h)
    /\ req'[t][h].at = "slug" /\ hook'[t][h].status = "syncing" /\ hook'[t][h].conflict = None

(* performSync begins a request in this sense.                             *)
LEMMA BeginsWell ==
    ASSUME TypeInv, NEW t \in Locals, NEW h \in Hooks, NEW slug \in Slugs, NEW name \in Users, Begin(t, h, slug, name), site' = site
    PROVE  /\ Begun(t, h) /\ CarriesOK'
           /\ page' \in [Locals -> [Pages -> Page]] => UiOK'
<1>1. /\ hook[t][h].status # "syncing"
      /\ hook' \in [Locals -> [Hooks -> Hook]] /\ req' \in [Locals -> [Hooks -> Request]]
      /\ presses' \in [Locals -> 0..site.maxPresses]
      /\ \A u \in Locals, g \in Hooks : u # t \/ g # h => req'[u][g] = req[u][g] /\ hook'[u][g] = hook[u][g]
      /\ req'[t][h].at = "slug" /\ req'[t][h].slug = slug /\ req'[t][h].user = name
      /\ hook'[t][h].status = "syncing" /\ hook'[t][h].conflict = None
  BY BeginShape
<1>2. Begun(t, h)
  BY <1>1 DEF Begun, OtherHooks
<1>3. CarriesOK'
  BY <1>1 DEF TypeInv, CarriesOK
<1>4. page' \in [Locals -> [Pages -> Page]] => UiOK'
  BY <1>1 DEF UiOK
<1>5. QED BY <1>2, <1>3, <1>4

(* A request that has begun says nothing yet ...                           *)
LEMMA BegunRequests ==
    ASSUME TypeInv, RegInv, NEW t \in Locals, NEW h \in Hooks, Begun(t, h), UNCHANGED tables
    PROVE  \A g \in Hooks : RequestInv(t, g)'
<1>1. Grows /\ (Registered(t)' <=> Registered(t))
  BY SameTables
<1>2. \A g \in Hooks : g # h => RequestInv(t, g)'
  BY <1>1, RequestStays DEF RegInv, Begun, OtherHooks
<1>3. RequestInv(t, h)'
  BY DEF RequestInv, Stands, IsUnknown, Begun
<1>4. QED BY <1>2, <1>3

(* ... takes no other one away ...                                         *)
LEMMA BegunDevice ==
    ASSUME TypeInv, UiInv, RegInv, NEW t \in Locals, NEW h \in Hooks, Begun(t, h), UNCHANGED <<tables, device, lost>>, config[t] # None
    PROVE  DeviceInv(t)'
<1>1. Grows /\ (Registered(t)' <=> Registered(t)) /\ config' = config /\ user' = user /\ lost' = lost
  BY SameTables DEF device
<1>2. DeviceInv(t) /\ HookOK(t, h)
  BY DEF RegInv, UiInv
<1>3. (Synced(t)' <=> Synced(t)) /\ (Synced(t)' => HasRows(t, config[t].slug, user[t])')
  BY <1>1, <1>2, SyncedStays DEF DeviceInv
<1>4. ~Stands(t, h) /\ \A g \in Hooks : g # h => (Stands(t, g)' <=> Stands(t, g))
  BY <1>2 DEF Begun, HookOK, Stands, OtherHooks
<1>5. Registered(t)' /\ ~lost'[t] => Synced(t)' \/ \E g \in Hooks : Stands(t, g)'
  BY <1>1, <1>2, <1>3, <1>4 DEF DeviceInv
<1>6. QED BY <1>1, <1>3, <1>5 DEF DeviceInv

(* ... and its part was neither waiting nor pushing.                       *)
LEMMA BegunUi ==
    ASSUME UiInv, NEW t \in Locals, NEW h \in Hooks, Begun(t, h), h \in Pages => page'[t][h].step \notin Kinds /\ ~page'[t][h].error,
           \A u \in Locals, g \in Pages : u # t \/ g # h => page'[u][g] = page[u][g]
    PROVE  UiInv'
<1>1. HookOK(t, h)'
  BY DEF HookOK, Begun
<1>2. \A u \in Locals, g \in Hooks : u # t \/ g # h => HookOK(u, g)'
  BY DEF UiInv, HookOK, Begun, OtherHooks
<1>3. \A u \in Locals, g \in Pages : u # t \/ g # h => PageOK(u, g)'
  BY DEF UiInv, PageOK, Begun, OtherHooks, Pages, Hooks
<1>4. h \in Pages => PageOK(t, h)'
  BY DEF PageOK
<1>5. QED BY <1>1, <1>2, <1>3, <1>4 DEF UiInv

(* Registering from a page.                                                *)
LEMMA PressKeeps == ASSUME Inv, NEW t \in Locals, NEW h \in Pages, Press(t, h) PROVE Inv'
<1>1. TypeInv /\ UiInv /\ RegInv /\ h \in Hooks
  BY DEF Inv, Pages, Hooks
<1>2. UNCHANGED <<site, tables, device, data, super, history>>
  BY DEF Press
<1>3. /\ page[t][h].seen \in Config /\ page[t][h].seen # None /\ Begin(t, h, page[t][h].seen.slug, user[t])
      /\ page' \in [Locals -> [Pages -> Page]] /\ OtherPages(t, h)
      /\ page'[t][h].seen = page[t][h].seen /\ page'[t][h].step = "syncing-tenant" /\ ~page'[t][h].error
  BY <1>1, PressShape
<1>4. page[t][h].seen.slug \in Slugs /\ user[t] \in Users /\ lost' \in [Locals -> BOOLEAN]
  BY <1>1, <1>2, <1>3 DEF Config, TypeInv, DeviceOK, HistoryOK, history
<1>5. Begun(t, h) /\ CarriesOK' /\ UiOK'
  BY <1>1, <1>2, <1>3, <1>4, BeginsWell
<1>6. config[t] # None
  BY <1>1, <1>3 DEF RegInv, DeviceInv, NothingYet
<1>7. UiInv'
  BY <1>1, <1>3, <1>5, BegunUi DEF OtherPages, Kinds
<1>8. DeviceInv(t)' /\ \A g \in Hooks : RequestInv(t, g)'
  BY <1>1, <1>2, <1>5, <1>6, BegunDevice, BegunRequests DEF history
<1>9. \A u \in Locals : u # t => SameReg(u)
  <2>1. \A id : Registered(id)' <=> Registered(id)
    BY <1>1, <1>2, SameTables
  <2>2. QED BY <1>2, <1>3, <1>5, <2>1 DEF SameReg, Begun, OtherHooks, OtherPages, device, history
<1>10. \A u \in Locals : SameRows(u)
  BY <1>2, <1>3 DEF SameRows, OtherPages, device, data, history, Kinds
<1>11. QED BY <1>2, <1>4, <1>5, <1>7, <1>8, <1>9, <1>10, OnlyUi DEF history

(* Registering again, with changes.                                        *)
LEMMA RetryKeeps == ASSUME Inv, NEW t \in Locals, NEW slug \in Slugs, NEW name \in Users, Retry(t, slug, name) PROVE Inv'
<1> DEFINE h == "settings"
<1>1. TypeInv /\ UiInv /\ RegInv /\ h \in Hooks /\ h \in Pages
  BY DEF Inv, Pages, Hooks
<1>2. UNCHANGED <<site, tables, device, page, data, super, history>> /\ Begin(t, h, slug, name)
      /\ ~Busy(t, h) /\ hook[t][h].conflict # None
  BY DEF Retry, RetryWithChanges
<1> HIDE DEF h
<1>3. Begun(t, h) /\ CarriesOK' /\ UiOK' /\ lost' \in [Locals -> BOOLEAN]
  BY <1>1, <1>2, BeginsWell DEF TypeInv, UiOK, HistoryOK, history
<1>4. config[t] # None
  BY <1>1, <1>2 DEF RegInv, DeviceInv, NothingYet
<1>5. UiInv'
  <2>1. page[t][h].step \notin Kinds /\ ~page[t][h].error
    BY <1>1, <1>2 DEF Busy, UiInv, PageOK, Kinds
  <2>2. QED BY <1>1, <1>2, <1>3, <2>1, BegunUi
<1>6. DeviceInv(t)' /\ \A g \in Hooks : RequestInv(t, g)'
  BY <1>1, <1>2, <1>3, <1>4, BegunDevice, BegunRequests DEF history
<1>7. \A u \in Locals : u # t => SameReg(u)
  <2>1. \A id : Registered(id)' <=> Registered(id)
    BY <1>1, <1>2, SameTables
  <2>2. QED BY <1>2, <1>3, <2>1 DEF SameReg, Begun, OtherHooks, device, history
<1>8. \A u \in Locals : SameRows(u)
  BY <1>2 DEF SameRows, device, data, history
<1>9. QED BY <1>2, <1>3, <1>5, <1>6, <1>7, <1>8, OnlyUi DEF history

(* Setting a tenant up: the server does not know it yet.                   *)
LEMMA SetUpKeeps == ASSUME Inv, NEW t \in Locals, SetUp(t) PROVE Inv'
<1> DEFINE h == "setup"
<1>1. TypeInv /\ UiInv /\ RegInv /\ RowsInv /\ FreeInv /\ h \in Hooks /\ h \notin Pages
  BY DEF Inv, Pages, Hooks
<1>2. /\ config[t] = None /\ config' \in [Locals -> Config \cup {None}]
      /\ config'[t] # None /\ config'[t].mode = "local" /\ \A u \in Locals : u # t => config'[u] = config[u]
      /\ \/ site.slug[t] \in Slugs /\ user[t] \in Users /\ Begin(t, h, site.slug[t], user[t])
         \/ UNCHANGED <<hook, req, presses>>
      /\ UNCHANGED <<site, tables, user, token, page, data, super, history>>
  BY <1>1, SetUpShape
<1> HIDE DEF h
<1>3. \/ Begun(t, h) /\ CarriesOK' /\ UiOK'
      \/ UNCHANGED <<hook, req, presses>>
  BY <1>1, <1>2, BeginsWell DEF TypeInv, UiOK
<1>4. CarriesOK' /\ UiOK'
  BY <1>1, <1>2, <1>3 DEF TypeInv, CarriesOK, UiOK
<1>5. TablesOK' /\ Grows /\ \A id : Registered(id)' <=> Registered(id)
  BY <1>1, <1>2, SameTables
<1>6. TypeInv'
  <2>1. DeviceOK'
    BY <1>1, <1>2 DEF TypeInv, DeviceOK
  <2>2. QED BY <1>1, <1>2, <1>4, <1>5, <2>1, SameTypes DEF TypeInv
<1>7. UiInv'
  BY <1>1, <1>2, <1>3, BegunUi, SameUi
<1>8. NothingYet(t)
  BY <1>1, <1>2 DEF RegInv, DeviceInv
<1>9. DeviceInv(t)'
  <2>1. ~Synced(t)' /\ ~Registered(t)'
    BY <1>2, <1>5, <1>8 DEF Synced, NothingYet
  <2>2. QED BY <1>2, <2>1 DEF DeviceInv
<1>10. \A g \in Hooks : RequestInv(t, g)'
  <2>1. CASE Begun(t, h)
    BY <1>1, <1>2, <2>1, BegunRequests
  <2>2. CASE UNCHANGED <<hook, req, presses>>
    BY <1>1, <1>5, <2>2, RequestStays DEF RegInv
  <2>3. QED BY <1>3, <2>1, <2>2
<1>11. \A u \in Locals : u # t => SameReg(u)
  <2>1. \A u \in Locals, g \in Hooks : u # t => req'[u][g] = req[u][g] /\ hook'[u][g] = hook[u][g]
    BY <1>3 DEF Begun, OtherHooks
  <2>2. QED BY <1>2, <1>5, <2>1 DEF SameReg, history
<1>12. RegInv'
  BY <1>1, <1>5, <1>9, <1>10, <1>11, SameKeeps DEF RegInv
<1>13. \A u \in Locals : SameRows(u)
  BY <1>2 DEF SameRows, data, history
<1>14. RowsInv'
  BY <1>1, <1>2, <1>13, SameRowsKeeps DEF RowsInv
<1>15. FreeInv'
  BY <1>1, <1>2, SameFree DEF super
<1>16. QED BY <1>6, <1>7, <1>12, <1>14, <1>15 DEF Inv

(* A part whose request has ended, with or without an answer.               *)
LEMMA EndedUi ==
    ASSUME UiInv, NEW t \in Locals, NEW h \in Hooks, NEW granted, OtherHooks(t, h), Moves(t, h, granted), hook[t][h].status = "syncing",
           req'[t][h].at = "idle", hook'[t][h].status # "syncing"
    PROVE  UiInv'
<1>1. HookOK(t, h)'
  BY DEF HookOK
<1>2. \A u \in Locals, g \in Hooks : u # t \/ g # h => HookOK(u, g)'
  BY DEF UiInv, HookOK, OtherHooks
<1>3. ASSUME NEW u \in Locals, NEW g \in Pages
      PROVE  PageOK(u, g)'
  <2>1. PageOK(u, g) /\ page'[u][g].error = page[u][g].error
        /\ \/ page'[u][g].step = page[u][g].step
           \/ u = t /\ g = h /\ page[u][g].step = "syncing-tenant"
    BY DEF UiInv, Moves
  <2>2. CASE u = t /\ g = h
    BY <2>1, <2>2 DEF PageOK, Kinds
  <2>3. CASE u # t \/ g # h
    <3>1. hook'[u][g] = hook[u][g] /\ page'[u][g].step = page[u][g].step
      BY <2>1, <2>3 DEF OtherHooks, Pages, Hooks
    <3>2. QED BY <2>1, <3>1 DEF PageOK
  <2>4. QED BY <2>2, <2>3
<1>4. QED BY <1>1, <1>2, <1>3 DEF UiInv

(* A request or an answer is lost.                                         *)
LEMMA LostKeeps == ASSUME Inv, NEW t \in Locals, NEW h \in Hooks, Lost(t, h) PROVE Inv'
<1>1. TypeInv /\ UiInv /\ RegInv /\ HookOK(t, h) /\ DeviceInv(t) /\ RequestInv(t, h)
  BY DEF Inv, UiInv, RegInv
<1>2. UNCHANGED <<site, tables, device, data, super, refused>>
  BY DEF Lost
<1>3. /\ req[t][h].at \in {"slug", "done"} /\ UiOK' /\ OtherHooks(t, h)
      /\ req'[t][h].at = "idle" /\ req'[t][h].slug = req[t][h].slug /\ req'[t][h].user = req[t][h].user
      /\ hook'[t][h].status # "syncing" /\ hook'[t][h].conflict = hook[t][h].conflict
      /\ Moves(t, h, FALSE)
      /\ lost' \in [Locals -> BOOLEAN] /\ \A u \in Locals : lost[u] => lost'[u]
      /\ Stands(t, h) => lost'[t]
  BY <1>1, LostShape
<1>4. CarriesOK'
  BY <1>1, <1>3 DEF TypeInv, CarriesOK, OtherHooks
<1>5. UiInv'
  BY <1>1, <1>3, EndedUi DEF HookOK
<1>6. Grows /\ \A id : Registered(id)' <=> Registered(id)
  BY <1>1, <1>2, SameTables
<1>7. config' = config /\ user' = user
  BY <1>2 DEF device
<1>8. \A u \in Locals : u # t => SameReg(u)
  BY <1>3, <1>6, <1>7 DEF SameReg, OtherHooks, Moves
<1>9. \A g \in Hooks : g # h => RequestInv(t, g)'
  BY <1>1, <1>3, <1>6, RequestStays DEF RegInv, OtherHooks
<1>10. RequestInv(t, h)'
  <2>1. hook[t][h].conflict = None
    BY <1>1, <1>3 DEF HookOK
  <2>2. QED BY <1>3, <2>1 DEF RequestInv, Stands, IsUnknown
<1>11. DeviceInv(t)'
  <2>1. config[t] # None
    BY <1>1, <1>3 DEF DeviceInv, NothingYet
  <2>2. (Synced(t)' <=> Synced(t)) /\ (Synced(t)' => HasRows(t, config[t].slug, user[t])')
    BY <1>1, <1>6, <1>7, SyncedStays DEF DeviceInv
  <2>3. \A g \in Hooks : Stands(t, g) => Stands(t, g)' \/ lost'[t]
    BY <1>3 DEF OtherHooks, Stands
  <2>4. Registered(t)' /\ ~lost'[t] => Synced(t)' \/ \E g \in Hooks : Stands(t, g)'
    BY <1>1, <1>3, <1>6, <2>2, <2>3 DEF DeviceInv
  <2>5. QED BY <1>7, <2>1, <2>2, <2>4 DEF DeviceInv
<1>12. \A u \in Locals : SameRows(u)
  BY <1>2, <1>3 DEF SameRows, Moves, device, data, Kinds
<1>13. QED BY <1>2, <1>3, <1>4, <1>5, <1>8, <1>9, <1>10, <1>11, <1>12, OnlyUi

(* An answer arrives. The 201 stood for the rows that are now believed.    *)
LEMMA AnsweredKeeps == ASSUME Inv, NEW t \in Locals, NEW h \in Hooks, Answered(t, h) PROVE Inv'
<1>1. TypeInv /\ UiInv /\ RegInv /\ RowsInv /\ FreeInv /\ HookOK(t, h) /\ DeviceInv(t) /\ RequestInv(t, h)
  BY DEF Inv, UiInv, RegInv
<1>2. UNCHANGED <<site, tables, presses, data, super, history>>
  BY DEF Answered
<1>3. /\ req[t][h].at = "done" /\ UiOK' /\ OtherHooks(t, h)
      /\ req'[t][h].at = "idle" /\ req'[t][h].slug = req[t][h].slug /\ req'[t][h].user = req[t][h].user
      /\ hook'[t][h].status # "syncing" /\ hook'[t][h].conflict = req[t][h].answer
      /\ Moves(t, h, req[t][h].answer = None)
  BY <1>1, AnsweredShape
<1>4. /\ DeviceOK'
      /\ \A u \in Locals : u # t => config'[u] = config[u] /\ user'[u] = user[u] /\ token'[u] = token[u]
      /\ req[t][h].answer = None => /\ config'[t] # None /\ config'[t].mode = "synced"
                                    /\ config'[t].slug = req[t][h].slug /\ user'[t] = req[t][h].user /\ token'[t] = t
      /\ req[t][h].answer # None => UNCHANGED device
  BY <1>1, AnsweredDevice
<1>5. TablesOK' /\ Grows /\ \A id : Registered(id)' <=> Registered(id)
  BY <1>1, <1>2, SameTables
<1>6. TypeInv'
  <2>1. CarriesOK'
    BY <1>1, <1>3 DEF TypeInv, CarriesOK, OtherHooks
  <2>2. QED BY <1>1, <1>2, <1>3, <1>4, <1>5, <2>1, SameTypes DEF TypeInv
<1>7. UiInv'
  BY <1>1, <1>3, EndedUi DEF HookOK
<1>8. lost' = lost /\ rows' = rows /\ filed' = filed /\ refused' = refused /\ site' = site
  BY <1>2 DEF data, history
<1>9. \A u \in Locals : u # t => SameReg(u) /\ SameRows(u)
  <2>1. \A u \in Locals, g \in Pages : u # t => page'[u][g].seen = page[u][g].seen /\ page'[u][g].step = page[u][g].step
                                                 /\ page'[u][g].error = page[u][g].error
    BY <1>3 DEF Moves
  <2>2. QED BY <1>3, <1>4, <1>5, <1>8, <2>1 DEF SameReg, SameRows, OtherHooks
<1>10. \A g \in Hooks : g # h => RequestInv(t, g)'
  BY <1>1, <1>3, <1>5, RequestStays DEF RegInv, OtherHooks
<1>11. RequestInv(t, h)'
  <2>1. PICK r : r = req[t][h]
    OBVIOUS
  <2>2. req'[t][h].at = "idle" /\ req'[t][h].user = r.user /\ hook'[t][h].conflict = r.answer
    BY <1>3, <2>1
  <2>3. IsUnknown(r.answer) => Registered(t) \/ HasStaff(r.user)
    BY <1>1, <1>3, <2>1 DEF RequestInv
  <2>4. HasStaff(r.user) => HasStaff(r.user)'
    BY <1>5 DEF HasStaff, Named, Grows
  <2>5. QED BY <1>5, <2>2, <2>3, <2>4 DEF RequestInv, Stands, HasStaff, Named, IsUnknown
<1>12. DeviceInv(t)'
  <2>1. CASE req[t][h].answer = None
    <3>1. PICK r : r = req[t][h]
      OBVIOUS
    <3>2. HasRows(t, r.slug, r.user)
      BY <1>1, <1>3, <2>1, <3>1 DEF RequestInv, Stands
    <3>3. HasRows(t, r.slug, r.user)'
      BY <1>5, <3>2, HasStays
    <3>4. config'[t] # None /\ config'[t].mode = "synced" /\ config'[t].slug = r.slug /\ user'[t] = r.user
      BY <1>4, <2>1, <3>1
    <3>5. QED BY <3>3, <3>4 DEF DeviceInv, Synced, HasRows
  <2>2. CASE req[t][h].answer # None
    <3>1. config' = config /\ user' = user
      BY <1>4, <2>2 DEF device
    <3>2. config[t] # None
      BY <1>1, <1>3 DEF DeviceInv, NothingYet
    <3>3. (Synced(t)' <=> Synced(t)) /\ (Synced(t)' => HasRows(t, config[t].slug, user[t])')
      BY <1>1, <1>5, <3>1, SyncedStays DEF DeviceInv
    <3>4. \A g \in Hooks : Stands(t, g) => Stands(t, g)'
      BY <1>3, <2>2 DEF OtherHooks, Stands
    <3>5. Registered(t)' /\ ~lost'[t] => Synced(t)' \/ \E g \in Hooks : Stands(t, g)'
      BY <1>1, <1>5, <1>8, <3>3, <3>4 DEF DeviceInv
    <3>6. QED BY <3>1, <3>2, <3>3, <3>5 DEF DeviceInv
  <2>3. QED BY <2>1, <2>2
<1>13. RegInv'
  BY <1>1, <1>5, <1>9, <1>10, <1>11, <1>12, SameKeeps DEF RegInv
<1>14. TokenOK(t) /\ OrderOK(t) /\ token'[t] \in {t, token[t]} /\ t # None
  BY <1>1, <1>4, Names DEF RowsInv, Ids, device
<1>15. TokenOK(t)'
  <2>1. ASSUME NEW g \in Pages, page'[t][g].step \in Kinds
        PROVE  token'[t] # None
    <3>1. CASE page'[t][g].step = page[t][g].step
      BY <1>14, <2>1, <3>1 DEF TokenOK
    <3>2. CASE page'[t][g].step # page[t][g].step
      <4>1. page'[t][g].step = IF req[t][h].answer = None THEN "member" ELSE "none"
        BY <1>3, <3>2 DEF Moves
      <4>2. req[t][h].answer = None
        BY <2>1, <4>1 DEF Kinds
      <4>3. QED BY <1>4, <1>14, <4>2
    <3>3. QED BY <3>1, <3>2
  <2>2. t \notin site'.held => token'[t] \in {None, t} /\ \A k \in Kinds : filed'[t][k] \subseteq {t}
    BY <1>8, <1>14 DEF TokenOK
  <2>3. QED BY <2>1, <2>2 DEF TokenOK
<1>16. OrderOK(t)'
  <2>1. \A g \in Pages : page'[t][g].step \in {"card", "tx"} => page[t][g].step = page'[t][g].step
    BY <1>3 DEF Moves
  <2>2. \A g \in Pages : page'[t][g].error = page[t][g].error
    BY <1>3 DEF Moves
  <2>3. QED BY <1>8, <1>14, <2>1, <2>2 DEF OrderOK
<1>17. RowsInv'
  BY <1>1, <1>8, <1>9, <1>15, <1>16, SameRowsKeeps DEF RowsInv
<1>18. FreeInv'
  BY <1>1, <1>2, SameFree DEF super
<1>19. QED BY <1>6, <1>7, <1>13, <1>17, <1>18 DEF Inv

(* The handler changes the request it is at work on, and rows only of its   *)
(* tenant.                                                                 *)
LEMMA HandlerKeeps ==
    ASSUME Inv, NEW t \in Locals, NEW h \in Hooks, NEW at \in Ats \ {"idle"}, Goes(t, h, at), Handler, TablesOK', Grows,
           \A u \in Locals : u # t => (Registered(u)' <=> Registered(u)), FreeInv', req[t][h].at # "idle",
           RequestInv(t, h)', ~Stands(t, h), (Registered(t)' <=> Registered(t)) \/ Stands(t, h)'
    PROVE  Inv'
<1>1. TypeInv /\ UiInv /\ RegInv /\ RowsInv /\ FreeInv /\ DeviceInv(t)
  BY DEF Inv, RegInv
<1>2. UNCHANGED <<site, device, hook, page, presses, data, super, history>>
  BY DEF Handler
<1>3. /\ req' \in [Locals -> [Hooks -> Request]] /\ hook' = hook /\ page' = page
      /\ \A u \in Locals, g \in Hooks : u # t \/ g # h => req'[u][g] = req[u][g]
      /\ req'[t][h].at = at /\ req'[t][h].slug = req[t][h].slug /\ req'[t][h].user = req[t][h].user
  BY DEF Goes
<1>4. UiOK'
  BY <1>1, <1>2, <1>3 DEF TypeInv, UiOK
<1>5. CarriesOK'
  BY <1>1, <1>3 DEF TypeInv, CarriesOK
<1>6. TypeInv'
  BY <1>1, <1>2, <1>4, <1>5, SameTypes DEF TypeInv
<1>7. UiInv'
  <2>1. \A u \in Locals, g \in Hooks : HookOK(u, g)'
    BY <1>1, <1>3 DEF UiInv, HookOK
  <2>2. \A u \in Locals, g \in Pages : PageOK(u, g)'
    BY <1>1, <1>3 DEF UiInv, PageOK
  <2>3. QED BY <2>1, <2>2 DEF UiInv
<1>8. config' = config /\ user' = user /\ lost' = lost
  BY <1>2 DEF device, history
<1>9. \A u \in Locals : u # t => SameReg(u)
  BY <1>3, <1>8 DEF SameReg
<1>10. Registered(t) => Registered(t)'
  BY DEF Grows, Registered
<1>11. \A g \in Hooks : g # h => RequestInv(t, g)'
  BY <1>1, <1>3, <1>10, RequestStays DEF RegInv
<1>12. DeviceInv(t)'
  <2>1. config[t] # None
    BY <1>1 DEF DeviceInv, NothingYet
  <2>2. (Synced(t)' <=> Synced(t)) /\ (Synced(t)' => HasRows(t, config[t].slug, user[t])')
    BY <1>1, <1>8, SyncedStays DEF DeviceInv
  <2>3. \A g \in Hooks : Stands(t, g) => Stands(t, g)'
    BY <1>3 DEF Stands
  <2>4. Registered(t)' /\ ~lost'[t] => Synced(t)' \/ \E g \in Hooks : Stands(t, g)'
    BY <1>1, <1>8, <2>2, <2>3 DEF DeviceInv
  <2>5. QED BY <1>8, <2>1, <2>2, <2>4 DEF DeviceInv
<1>13. RegInv'
  BY <1>1, <1>9, <1>11, <1>12, SameKeeps DEF RegInv
<1>14. RowsInv'
  <2>1. \A u \in Locals : SameRows(u)
    BY <1>2 DEF SameRows, device, data, history
  <2>2. QED BY <1>1, <1>2, <2>1, SameRowsKeeps DEF RowsInv
<1>15. QED BY <1>6, <1>7, <1>13, <1>14 DEF Inv

(* The steps of the handler: its first query,                              *)
LEMMA ReadSlugKeeps == ASSUME Inv, NEW t \in Locals, NEW h \in Hooks, ReadSlug(t, h) PROVE Inv'
<1>1. TypeInv /\ UiInv /\ RegInv /\ FreeInv /\ HookOK(t, h) /\ RequestInv(t, h)
  BY DEF Inv, UiInv, RegInv
<1>2. req[t][h].at = "slug" /\ Goes(t, h, "user") /\ Handler /\ UNCHANGED tables
  BY <1>1, ReadSlugShape DEF ReadSlug
<1>3. TablesOK' /\ Grows /\ \A id : Registered(id)' <=> Registered(id)
  BY <1>1, <1>2, SameTables
<1>4. FreeInv'
  BY <1>1, <1>2, SameFree DEF Handler, super
<1>5. ~Stands(t, h)
  BY <1>2 DEF Stands
<1>6. RequestInv(t, h)'
  <2>1. hook'[t][h].conflict = None /\ req'[t][h].at = "user"
    BY <1>1, <1>2 DEF HookOK, Goes
  <2>2. QED BY <2>1 DEF RequestInv, Stands, IsUnknown
<1>7. "user" \in Ats \ {"idle"}
  BY DEF Ats
<1>8. QED BY <1>2, <1>3, <1>4, <1>5, <1>6, <1>7, HandlerKeeps

(* its second query, whose conflicts name a tenant,                        *)
LEMMA ReadUserKeeps == ASSUME Inv, NEW t \in Locals, NEW h \in Hooks, ReadUser(t, h) PROVE Inv'
<1>1. TypeInv /\ UiInv /\ RegInv /\ FreeInv /\ HookOK(t, h)
  BY DEF Inv, UiInv
<1>2. /\ req[t][h].at = "user" /\ Handler /\ UNCHANGED tables
      /\ \/ Goes(t, h, "insert")
         \/ Goes(t, h, "done") /\ req'[t][h].answer \in Conflict /\ req'[t][h].answer.with # Unknown
  BY <1>1, ReadUserShape DEF ReadUser
<1>3. TablesOK' /\ Grows /\ \A id : Registered(id)' <=> Registered(id)
  BY <1>1, <1>2, SameTables
<1>4. FreeInv'
  BY <1>1, <1>2, SameFree DEF Handler, super
<1>5. ~Stands(t, h)
  BY <1>2 DEF Stands
<1>6. RequestInv(t, h)'
  <2>1. hook'[t][h].conflict = None
    BY <1>1, <1>2 DEF HookOK, Goes
  <2>2. CASE Goes(t, h, "insert")
    BY <2>1, <2>2 DEF RequestInv, Stands, IsUnknown, Goes
  <2>3. CASE Goes(t, h, "done") /\ req'[t][h].answer \in Conflict /\ req'[t][h].answer.with # Unknown
    <3>1. req'[t][h].at = "done" /\ req'[t][h].answer # None
      BY <2>3, Names DEF Goes
    <3>2. QED BY <2>1, <2>3, <3>1 DEF RequestInv, Stands, IsUnknown
  <2>4. QED BY <1>2, <2>2, <2>3
<1>7. "insert" \in Ats \ {"idle"} /\ "done" \in Ats \ {"idle"}
  BY DEF Ats
<1>8. PICK at \in Ats \ {"idle"} : Goes(t, h, at)
  BY <1>2, <1>7
<1>9. req[t][h].at # "idle"
  BY <1>2
<1>10. QED BY <1>2, <1>3, <1>4, <1>5, <1>6, <1>8, <1>9, HandlerKeeps

(* the INSERT, which stores what its 201 will stand for, or met a row,     *)
LEMMA InsertKeeps == ASSUME Inv, NEW t \in Locals, NEW h \in Hooks, Insert(t, h) PROVE Inv'
<1>1. TypeInv /\ UiInv /\ RegInv /\ FreeInv /\ HookOK(t, h)
  BY DEF Inv, UiInv, RegInv
<1>2. /\ req[t][h].at = "insert" /\ Handler
      /\ \/ /\ Goes(t, h, "done") /\ req'[t][h].answer = None
            /\ ~Registered(t) /\ Stored(t, req[t][h].slug, req[t][h].user)
         \/ /\ Goes(t, h, "recheck") /\ UNCHANGED tables /\ ~Fits(t, req[t][h].slug, req[t][h].user)
  BY <1>1, InsertShape DEF Insert
<1>3. PICK r : r = req[t][h]
  OBVIOUS
<1>4. ~Stands(t, h) /\ req[t][h].at # "idle" /\ r.slug \in Slugs /\ r.user \in Users /\ t \in Ids /\ create' = create
  BY <1>1, <1>2, <1>3 DEF Stands, TypeInv, CarriesOK, Ids, Handler, super
<1>5. "recheck" \in Ats \ {"idle"} /\ "done" \in Ats \ {"idle"}
  BY DEF Ats
<1>6. hook'[t][h].conflict = None
  BY <1>1, <1>2 DEF HookOK, Goes
<1>7. CASE Goes(t, h, "done") /\ req'[t][h].answer = None /\ Stored(t, req[t][h].slug, req[t][h].user)
  <2>1. Stored(t, r.slug, r.user)
    BY <1>3, <1>7
  <2>2. TablesOK' /\ Grows /\ HasRows(t, r.slug, r.user)' /\ \A u : u # t => (Registered(u)' <=> Registered(u))
    BY <1>1, <1>4, <2>1, StoredShape
  <2>3. req'[t][h].at = "done" /\ req'[t][h].answer = None /\ req'[t][h].slug = r.slug /\ req'[t][h].user = r.user
    BY <1>3, <1>7 DEF Goes
  <2>4. Stands(t, h)'
    BY <2>3 DEF Stands
  <2>5. RequestInv(t, h)'
    BY <1>6, <2>2, <2>3 DEF RequestInv, IsUnknown, HasRows
  <2>6. FreeInv'
    <3>1. \A id \in Olds : Registered(id)' <=> Registered(id)
      BY <2>2, Names
    <3>2. QED BY <1>1, <1>4, <3>1 DEF FreeInv, Free
  <2>7. QED BY <1>2, <1>4, <1>5, <1>7, <2>2, <2>4, <2>5, <2>6, HandlerKeeps
<1>8. CASE Goes(t, h, "recheck") /\ UNCHANGED tables /\ ~Fits(t, req[t][h].slug, req[t][h].user)
  <2>1. TablesOK' /\ Grows /\ \A id : Registered(id)' <=> Registered(id)
    BY <1>1, <1>8, SameTables
  <2>2. FreeInv'
    BY <1>1, <1>4, <1>8, SameFree
  <2>3. req'[t][h].at = "recheck" /\ req'[t][h].slug = r.slug /\ req'[t][h].user = r.user
    BY <1>3, <1>8 DEF Goes
  <2>4. Registered(t)' \/ WithSlug(r.slug)' # {} \/ Named(r.user)' # {}
    <3>1. Registered(t) \/ WithSlug(r.slug) # {} \/ Named(r.user) # {}
      BY <1>3, <1>8 DEF Fits
    <3>2. WithSlug(r.slug)' = WithSlug(r.slug) /\ Named(r.user)' = Named(r.user)
      BY <1>8 DEF WithSlug, Named, tables
    <3>3. QED BY <2>1, <3>1, <3>2
  <2>5. RequestInv(t, h)'
    BY <1>6, <2>3, <2>4 DEF RequestInv, Stands, IsUnknown, WithSlug, Named
  <2>6. QED BY <1>2, <1>4, <1>5, <1>8, <2>1, <2>2, <2>5, HandlerKeeps
<1>9. QED BY <1>2, <1>7, <1>8

(* and the second look. What the INSERT met is still there: this very      *)
(* tenant, its slug, or an account of that name, an admin's or not.        *)
LEMMA RecheckKeeps == ASSUME Inv, NEW t \in Locals, NEW h \in Hooks, Recheck(t, h) PROVE Inv'
<1>1. TypeInv /\ UiInv /\ RegInv /\ FreeInv /\ HookOK(t, h) /\ RequestInv(t, h)
  BY DEF Inv, UiInv, RegInv
<1>2. /\ req[t][h].at = "recheck" /\ Goes(t, h, "done") /\ req'[t][h].answer \in Conflict
      /\ req'[t][h].answer.with = Unknown => WithSlug(req[t][h].slug) = {} /\ Admins(req[t][h].user) = {}
      /\ Handler /\ UNCHANGED tables
  BY <1>1, RecheckShape DEF Recheck
<1>3. TablesOK' /\ Grows /\ \A id : Registered(id)' <=> Registered(id)
  BY <1>1, <1>2, SameTables
<1>4. FreeInv'
  BY <1>1, <1>2, SameFree DEF Handler, super
<1>5. ~Stands(t, h) /\ req[t][h].at # "idle"
  BY <1>2 DEF Stands
<1>6. PICK r : r = req[t][h]
  OBVIOUS
<1>7. RequestInv(t, h)'
  <2>1. hook'[t][h].conflict = None /\ req'[t][h].at = "done" /\ req'[t][h].user = r.user /\ req'[t][h].answer # None
    BY <1>1, <1>2, <1>6, Names DEF HookOK, Goes
  <2>2. ASSUME req'[t][h].answer.with = Unknown
        PROVE  Registered(t) \/ HasStaff(r.user)
    <3>1. WithSlug(r.slug) = {} /\ Admins(r.user) = {}
      BY <1>2, <1>6, <2>2
    <3>2. Registered(t) \/ Named(r.user) # {}
      BY <1>1, <1>2, <1>6, <3>1 DEF RequestInv
    <3>3. \A a \in Named(r.user) : a.role = "staff"
      BY <1>1, <3>1 DEF TypeInv, TablesOK, Account, Roles, Named, Admins
    <3>4. QED BY <3>2, <3>3 DEF HasStaff
  <2>3. HasStaff(r.user) => HasStaff(r.user)'
    BY <1>3 DEF HasStaff, Named, Grows
  <2>4. QED BY <1>3, <2>1, <2>2, <2>3 DEF RequestInv, Stands, IsUnknown, HasStaff, Named
<1>8. "done" \in Ats \ {"idle"}
  BY DEF Ats
<1>9. QED BY <1>2, <1>3, <1>4, <1>5, <1>7, <1>8, HandlerKeeps

-----------------------------------------------------------------------------
(* The first state: nothing is set up, and the server has tenants of its    *)
(* own.                                                                    *)
LEMMA InitInv == Init => Inv
<1> SUFFICES ASSUME Init PROVE Inv
  OBVIOUS
<1>1. /\ site \in Sites /\ site \in Site /\ (site.held # {} => site.old # {})
      /\ site.old \subseteq [id: Olds, slug: Slugs, user: Users] /\ site.user \in [Locals -> Users] /\ site.maxPresses \in Nat
  BY TenantAssumption DEF TenantAssumption, Init, Site
<1>2. tenants \subseteq [id: Olds, slug: Slugs, status: {"active"}] /\ accounts \subseteq [tenant: Olds, user: Users, role: {"admin"}]
  BY <1>1 DEF Init
<1>3. TablesOK
  BY <1>2 DEF TablesOK, Tenant, Account, Ids, Status, Roles
<1>4. \A t \in Locals : t \in site.held => FirstOf(site.old).id \in Olds
  BY <1>1, First
<1>5. DeviceOK
  <2>1. token \in [Locals -> Ids \cup {None}]
    BY <1>4 DEF Init, Ids
  <2>2. QED BY <1>1, <2>1 DEF DeviceOK, Init
<1>6. /\ hook \in [Locals -> [Hooks -> Hook]] /\ req \in [Locals -> [Hooks -> Request]] /\ page \in [Locals -> [Pages -> Page]]
      /\ \A t \in Locals, h \in Hooks : hook[t][h] = NoHook /\ req[t][h] = NoRequest
      /\ \A t \in Locals, h \in Pages : page[t][h] = FreshPage(None)
  BY NoHookIsHook, NoRequestIsRequest, FreshIsPage DEF Init
<1>7. UiOK
  BY <1>1, <1>6 DEF UiOK, Init
<1>8. /\ \A t \in Locals, h \in Hooks : hook[t][h].status = "idle" /\ hook[t][h].conflict = None /\ req[t][h].at = "idle"
      /\ \A t \in Locals, h \in Pages : page[t][h].seen = None /\ page[t][h].step = "none" /\ ~page[t][h].error
  BY <1>6, NoHookIsHook, NoRequestIsRequest, FreshIsPage
<1>9. CarriesOK
  BY <1>8 DEF CarriesOK
<1>10. DataOK /\ HistoryOK
  BY DEF DataOK, HistoryOK, Init
<1>11. SuperOK
  <2>1. [at |-> "idle", bySlug |-> None] \in [at: {"idle"}, bySlug: {None}]
    OBVIOUS
  <2>2. create = [at |-> "idle", bySlug |-> None] /\ patch = [p \in 1..2 |-> None]
    BY DEF Init
  <2>3. QED BY <2>1, <2>2 DEF SuperOK
<1>12. TypeInv
  BY <1>1, <1>3, <1>5, <1>7, <1>9, <1>10, <1>11 DEF TypeInv
<1>13. UiInv
  BY <1>8 DEF UiInv, HookOK, PageOK, Kinds
<1>14. RegInv
  <2>1. \A t \in Locals : ~Registered(t)
    BY <1>2, Names DEF Registered
  <2>2. \A t \in Locals : config[t] = None
    BY DEF Init
  <2>3. \A t \in Locals : DeviceInv(t)
    BY <1>8, <2>1, <2>2 DEF DeviceInv, NothingYet, Synced
  <2>4. \A t \in Locals, h \in Hooks : RequestInv(t, h)
    BY <1>8 DEF RequestInv, Stands, IsUnknown
  <2>5. QED BY <2>3, <2>4 DEF RegInv
<1>15. RowsInv
  <2>1. \A t \in Locals, k \in Kinds : rows[t][k] = "none" /\ filed[t][k] = {}
    BY DEF Init
  <2>2. \A t \in Locals : t \notin site.held => token[t] = None
    BY DEF Init
  <2>3. QED BY <1>8, <2>1, <2>2 DEF RowsInv, TokenOK, OrderOK, Kinds
<1>16. FreeInv
  <2>1. create = [at |-> "idle", bySlug |-> None]
    BY DEF Init
  <2>2. QED BY <2>1 DEF FreeInv
<1>17. QED BY <1>12, <1>13, <1>14, <1>15, <1>16 DEF Inv

(* Every step keeps the invariant.                                         *)
LEMMA StepInv == Inv /\ [Next]_vars => Inv'
<1> SUFFICES ASSUME Inv, [Next]_vars PROVE Inv'
  OBVIOUS
<1>1. ASSUME NEW t \in Locals,
             SetUp(t) \/ Dismiss(t) \/ Reload(t) \/ Cycle(t)
      PROVE  Inv'
  BY <1>1, SetUpKeeps, DismissKeeps, ReloadKeeps, CycleKeeps
<1>2. ASSUME NEW t \in Locals, NEW slug \in Slugs, NEW name \in Users, Retry(t, slug, name)
      PROVE  Inv'
  BY <1>2, RetryKeeps
<1>3. ASSUME NEW t \in Locals, NEW k \in Kinds, NewRow(t, k)
      PROVE  Inv'
  BY <1>3, NewRowKeeps
<1>4. ASSUME NEW t \in Locals, NEW h \in Hooks, Answered(t, h) \/ Lost(t, h) \/ Handle(t, h)
      PROVE  Inv'
  BY <1>4, AnsweredKeeps, LostKeeps, ReadSlugKeeps, ReadUserKeeps, InsertKeeps, RecheckKeeps DEF Handle
<1>5. ASSUME NEW t \in Locals, NEW h \in Pages, Open(t, h) \/ Press(t, h) \/ PushStep(t, h)
      PROVE  Inv'
  BY <1>5, OpenKeeps, PressKeeps, StepKeeps
<1>6. CASE Superadmin
  BY <1>6, SuperKeeps
<1>7. CASE UNCHANGED vars
  <2>1. TypeInv /\ RowsInv
    BY DEF Inv
  <2>2. DataOK' /\ HistoryOK' /\ UNCHANGED <<site, tables, device, ui, super, lost>>
    BY <1>7, <2>1, SameTypes DEF vars, history
  <2>3. \A t \in Locals : SameRows(t)
    BY <1>7 DEF SameRows, vars, device, ui, data, history
  <2>4. \A t \in Locals : TokenOK(t)' /\ OrderOK(t)'
    BY <2>1, <2>2, <2>3, SameRowsKeeps
  <2>5. QED BY <2>2, <2>4, OnlyRows
<1>8. QED BY <1>1, <1>2, <1>3, <1>4, <1>5, <1>6, <1>7 DEF Next

(* RegistrationAgrees holds of every tenant that is registered from a       *)
(* device, whatever the number of devices, names, attempts, lost answers    *)
(* and steps of the superadmin.                                            *)
THEOREM Registration == Spec => []RegistrationAgrees
<1>1. Spec => []Inv
  BY InitInv, StepInv, PTL DEF Spec
<1>2. QED BY <1>1, InvAgrees, PTL
=============================================================================

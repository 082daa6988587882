------------------------ MODULE Administration_proofs ------------------------
(***************************************************************************)
(* Proofs about Administration, for any number of tenants, accounts, calls, *)
(* browsers, requests and sessions.                                        *)
(*                                                                         *)
(* Of the superadmin's page: an archived tenant stays archived             *)
(* (ArchivedStays), a success closes its own dialog (OwnSuccess), and what  *)
(* the page holds for fresh is what the server has (FreshStays).  A step of *)
(* a log-in leaves the page's variables as they are.  Each property has an  *)
(* inductive invariant of its own, on top of TypeInv:                      *)
(*   StatusInv  what a handler has looked at, it may still write, and no    *)
(*              two have looked at one tenant that is not in met;           *)
(*   DialogInv  an operation has one call at a time that is heard, and its  *)
(*              dialog is open for that call's row unless it was dismissed; *)
(*   FreshInv   what is cached for fresh or on its way is what the server   *)
(*              has, or the page will be told, or it is excused; a call that *)
(*              nobody hears is excused; the page looks at tenants there    *)
(*              are.                                                        *)
(*                                                                         *)
(* Of log-ins and sessions: the rules of blocks, sessions and the limiter   *)
(* (SessionRulesHold), and that no browser is taken for a thief             *)
(* (NobodyAccused).  A step of the page is one that sets a status, or       *)
(* leaves their variables as they are.  One inductive invariant,            *)
(* SessionsInv, for both:                                                   *)
(*   ServerInv   types; a request, the row and the session it has found and *)
(*               what a browser holds are of one browser; there is room in  *)
(*               the tables for every request under way;                    *)
(*   OneRow      a browser whose requests never met has one row at most;    *)
(*   Counted     while attempts do not meet, one request has a record, the  *)
(*               one that counts;                                           *)
(*   CreatorsOK  whoever creates a session has counted the others that do,  *)
(*               or is counted by them;                                     *)
(*   Trusted     a browser that hears its answers has the token that        *)
(*               counts, or is about to be given it.                        *)
(***************************************************************************)
EXTENDS Administration, FiniteSetTheorems, SequenceTheorems, WellFoundedInduction, TLAPS

(* Rows, answers and calls.                                                *)
Statuses == {"active", "suspended", "archived"}
OnOff    == {"active", "suspended"}
RowLists == [Tenants -> Statuses \cup {"none"}] \cup [Accounts -> OnOff \cup {"none"}]
Data     == Statuses \cup {"none", None} \cup RowLists

TenantOps == {"tenantStatus", "createTenant"}
AnyCall == [op: Ops, on: Tenants \cup Accounts, to: Statuses, token: Tokens, at: {"sent", "checked", "answer"},
            says: {"", "refused", "no", "ok"}, heard: {"page", "cache", "none"}]
Call == {c \in AnyCall : IF c.op \in TenantOps THEN c.on \in Tenants ELSE c.on \in Accounts /\ c.to \in OnOff}

(* What a dialog names.                                                    *)
Named(op) == IF op \in {"createTenant", "createAccount"} THEN {[on |-> None, to |-> "active"]}
             ELSE IF op = "tenantStatus" THEN {} ELSE [on: Accounts, to: OnOff]

RowsOK ==
    /\ visit \in Visits /\ tenants \in [Tenants -> Statuses \cup {"none"}]
    /\ accounts \in [Accounts -> OnOff \cup {"none"}]
AuthOK == token \in Tokens /\ expired \subseteq Tokens /\ signedIn \in BOOLEAN
ViewOK ==
    /\ section \in {"tenants", "accounts"} /\ selected \in Tenants \cup {None} /\ seen \in Tenants \cup {None}
    /\ confirm \in Statuses \cup {None}
DialogOK == DOMAIN dialog = Ops /\ \A op \in Ops : dialog[op] \in Named(op) \cup {None}
QueryOK ==
    /\ cache \in [Keys -> [data: Data, stale: BOOLEAN, failed: BOOLEAN]]
    /\ fetch \in [Keys -> [at: {"idle", "sent", "answer"}, data: Data, token: Tokens]]
    /\ old \subseteq Tokens
CallsOK == calls \in [Slots -> Call \cup {NoCall}]
GhostOK == excused \subseteq Keys /\ met \subseteq Tenants /\ dismissed \subseteq Ops

TypeInv == RowsOK /\ AuthOK /\ ViewOK /\ DialogOK /\ QueryOK /\ CallsOK /\ GhostOK

(* What the assumption says, and the table of transitions.                  *)
LEMMA Constants ==
    /\ Self \in Accounts /\ Slots \subseteq Nat /\ IsFiniteSet(Slots) /\ MaxLogins \in Nat \ {0}
    /\ Visits \subseteq Visit /\ Tenants \cap Accounts = {} /\ Tenants \cap Lists = {} /\ None \notin Tenants
    /\ \A v \in Visits : "createTenant" \in v.ops /\ v.keys \cap Tenants # {} => "tenants" \in v.keys
    /\ DOMAIN Transitions = Statuses
    /\ \A st \in Statuses : Transitions[st] \subseteq Statuses
    /\ 0 \in Tokens
BY PagesAssumption DEF PagesAssumption, Transitions, Statuses, Tokens

(* The run's type invariant says no more.                                  *)
LEMMA WellTyped == TypeInv => PagesTypeOK
<1> SUFFICES ASSUME TypeInv PROVE PagesTypeOK
  OBVIOUS
<1>1. /\ visit \in Visits /\ tenants \in [Tenants -> DOMAIN Transitions \cup {"none"}]
      /\ accounts \in [Accounts -> {"none", "active", "suspended"}]
  BY Constants DEF TypeInv, RowsOK, OnOff
<1>2. /\ token \in Tokens /\ expired \subseteq Tokens /\ signedIn \in BOOLEAN
      /\ section \in {"tenants", "accounts"} /\ selected \in Tenants \cup {None} /\ seen \in Tenants \cup {None}
      /\ confirm \in DOMAIN Transitions \cup {None}
  BY Constants DEF TypeInv, AuthOK, ViewOK
<1>3. \A k \in Keys : /\ cache[k].stale \in BOOLEAN /\ cache[k].failed \in BOOLEAN
                      /\ fetch[k].at \in {"idle", "sent", "answer"} /\ fetch[k].token \in Tokens
  BY DEF TypeInv, QueryOK
<1>4. \A s \in Slots : /\ calls[s].op \in Ops \cup {"none"} /\ calls[s].at \in {"idle", "sent", "checked", "answer"}
                       /\ calls[s].heard \in {"page", "cache", "none"}
  <2> SUFFICES ASSUME NEW s \in Slots
               PROVE  /\ calls[s].op \in Ops \cup {"none"} /\ calls[s].at \in {"idle", "sent", "checked", "answer"}
                      /\ calls[s].heard \in {"page", "cache", "none"}
    OBVIOUS
  <2>1. calls[s] \in Call \cup {NoCall}
    BY DEF TypeInv, CallsOK
  <2>2. CASE calls[s] = NoCall
    <3>1. NoCall.op = "none"
      BY DEF NoCall
    <3>2. NoCall.at = "idle" /\ NoCall.heard = "none"
      BY DEF NoCall
    <3>3. QED BY <2>2, <3>1, <3>2
  <2>3. CASE calls[s] \in Call
    BY <2>3 DEF Call, AnyCall
  <2>4. QED BY <2>1, <2>2, <2>3
<1>5. old \subseteq Tokens /\ DOMAIN dialog = Ops
      /\ excused \subseteq Keys /\ met \subseteq Tenants /\ dismissed \subseteq Ops
  BY DEF TypeInv, QueryOK, DialogOK, GhostOK
<1>6. QED BY <1>1, <1>2, <1>3, <1>4, <1>5 DEF PagesTypeOK
-----------------------------------------------------------------------------
(* What the steps do to the types.                                         *)
LEMMA Kept ==
    ASSUME TypeInv
    PROVE  /\ UNCHANGED <<visit, server>> => RowsOK'
           /\ UNCHANGED auth => AuthOK'
           /\ UNCHANGED <<section, selected, seen, confirm>> => ViewOK'
           /\ UNCHANGED dialog => DialogOK'
           /\ UNCHANGED query => QueryOK'
           /\ UNCHANGED calls => CallsOK'
           /\ UNCHANGED ghost => GhostOK'
<1>1. UNCHANGED <<visit, server>> => RowsOK'
  BY DEF TypeInv, RowsOK, server
<1>2. UNCHANGED auth => AuthOK'
  BY DEF TypeInv, AuthOK, auth
<1>3. UNCHANGED <<section, selected, seen, confirm>> => ViewOK'
  BY DEF TypeInv, ViewOK
<1>4. UNCHANGED dialog => DialogOK'
  BY DEF TypeInv, DialogOK
<1>5. UNCHANGED query => QueryOK'
  BY DEF TypeInv, QueryOK, query
<1>6. UNCHANGED calls => CallsOK'
  BY DEF TypeInv, CallsOK
<1>7. UNCHANGED ghost => GhostOK'
  BY DEF TypeInv, GhostOK, ghost
<1>8. QED BY <1>1, <1>2, <1>3, <1>4, <1>5, <1>6, <1>7

LEMMA StartType == ASSUME NEW k, NEW tok \in Tokens PROVE StartOf(k, tok) \in [at: {"idle", "sent", "answer"}, data: Data, token: Tokens]
BY DEF StartOf, Data

(* What the steps do to the types, one lemma for each kind of step.         *)
LEMMA InvalidateType ==
    ASSUME TypeInv, NEW K \in SUBSET Keys, NEW tok \in Tokens, Invalidate(K, tok)
    PROVE  QueryOK' /\ excused' \subseteq Keys
<1>1. /\ cache \in [Keys -> [data: Data, stale: BOOLEAN, failed: BOOLEAN]]
      /\ fetch \in [Keys -> [at: {"idle", "sent", "answer"}, data: Data, token: Tokens]]
      /\ old \subseteq Tokens /\ excused \subseteq Keys
  BY DEF TypeInv, QueryOK, GhostOK
<1>2. PICK R : /\ R \subseteq K
               /\ fetch' = [k \in Keys |-> IF k \in R THEN StartOf(k, tok) ELSE fetch[k]]
               /\ old' = old \cup {fetch[k].token : k \in {j \in R : fetch[j].at # "idle"}}
  BY DEF Invalidate
<1>3. fetch' \in [Keys -> [at: {"idle", "sent", "answer"}, data: Data, token: Tokens]]
  BY <1>1, <1>2, StartType
<1>4. old' \subseteq Tokens
  BY <1>1, <1>2
<1>5. cache' \in [Keys -> [data: Data, stale: BOOLEAN, failed: BOOLEAN]]
  <2>1. \A k \in Keys : [cache[k] EXCEPT !.stale = TRUE] \in [data: Data, stale: BOOLEAN, failed: BOOLEAN]
    BY <1>1
  <2>2. cache' = [k \in Keys |-> IF k \in K /\ cache[k].data # None THEN [cache[k] EXCEPT !.stale = TRUE] ELSE cache[k]]
    BY DEF Invalidate
  <2>3. QED BY <1>1, <2>1, <2>2
<1>6. excused' \subseteq Keys
  BY <1>1 DEF Invalidate
<1>7. QED BY <1>3, <1>4, <1>5, <1>6 DEF QueryOK

LEMMA ShutOutType == ASSUME TypeInv, ShutOut PROVE AuthOK' /\ ViewOK' /\ DialogOK'
BY Constants, Kept DEF TypeInv, AuthOK, ViewOK, ShutOut

(* What the handlers of the GETs answer is data.                           *)
LEMMA AnswerType == ASSUME TypeInv, NEW k \in Keys PROVE AnswerTo(k) \in Data
BY DEF TypeInv, RowsOK, AnswerTo, TenantList, AccountList, Detail, Data, RowLists

LEMMA QueryStepsType ==
    ASSUME TypeInv, NEW k \in Keys, Fetch(k) \/ ServeFetch(k) \/ EndFetch(k) \/ LoseFetch(k) \/ Age(k)
    PROVE  TypeInv'
<1> DEFINE Entry == [data: Data, stale: BOOLEAN, failed: BOOLEAN]
<1> DEFINE Asked == [at: {"idle", "sent", "answer"}, data: Data, token: Tokens]
<1>0. /\ cache \in [Keys -> Entry] /\ fetch \in [Keys -> Asked] /\ old \subseteq Tokens
      /\ token \in Tokens /\ 0 \in Tokens /\ AnswerTo(k) \in Data /\ None \in Data
  BY Constants, AnswerType DEF TypeInv, QueryOK, AuthOK, Data
<1>1. CASE Fetch(k)
  <2>1. fetch' \in [Keys -> Asked]
    BY <1>0, <1>1, StartType DEF Fetch
  <2>2. cache' \in [Keys -> Entry]
    BY ZenonT(30), <1>0, <1>1 DEF Fetch
  <2>3. QED BY <1>0, <1>1, <2>1, <2>2, Kept DEF Fetch, TypeInv, QueryOK, view
<1>2. CASE ServeFetch(k)
  <2>1. fetch' \in [Keys -> Asked]
    BY ZenonT(30), <1>0, <1>2 DEF ServeFetch
  <2>2. QED BY <1>0, <1>2, <2>1, Kept DEF ServeFetch, TypeInv, QueryOK, view
<1>3. CASE EndFetch(k)
  <2>1. fetch' \in [Keys -> Asked]
    BY <1>0, <1>3 DEF EndFetch, NoFetch
  <2>2. cache' \in [Keys -> Entry]
    <3>1. CASE fetch[k].data # None
      <4>1. cache' = [cache EXCEPT ![k] = [data |-> fetch[k].data, stale |-> FALSE, failed |-> FALSE]]
        BY <1>3, <3>1 DEF EndFetch
      <4>2. [data |-> fetch[k].data, stale |-> FALSE, failed |-> FALSE] \in Entry
        BY <1>0
      <4>3. QED BY <1>0, <4>1, <4>2
    <3>2. CASE fetch[k].data = None
      <4>1. cache' = [cache EXCEPT ![k].failed = TRUE, ![k].stale = TRUE]
        BY <1>3, <3>2 DEF EndFetch
      <4>2. QED BY ZenonT(30), <1>0, <4>1
    <3>3. QED BY <3>1, <3>2
  <2>3. AuthOK' /\ ViewOK' /\ DialogOK'
    <3>1. CASE fetch[k].data # None
      BY <1>3, <3>1, Kept DEF EndFetch, TypeInv, ViewOK, auth
    <3>2. CASE fetch[k].data = None
      BY <1>3, <3>2, ShutOutType DEF EndFetch
    <3>3. QED BY <3>1, <3>2
  <2>4. RowsOK' /\ CallsOK' /\ GhostOK' /\ old' = old
    BY <1>3, Kept DEF EndFetch
  <2>5. QED BY <1>0, <2>1, <2>2, <2>3, <2>4 DEF TypeInv, QueryOK
<1>4. CASE LoseFetch(k)
  <2>1. fetch' \in [Keys -> Asked]
    BY <1>0, <1>4 DEF LoseFetch, NoFetch
  <2>2. cache' \in [Keys -> Entry]
    BY ZenonT(30), <1>0, <1>4 DEF LoseFetch
  <2>3. QED BY <1>0, <1>4, <2>1, <2>2, Kept DEF LoseFetch, TypeInv, QueryOK, view
<1>5. CASE Age(k)
  <2>1. cache' \in [Keys -> Entry]
    BY ZenonT(30), <1>0, <1>5 DEF Age
  <2>2. QED BY <1>0, <1>5, <2>1, Kept DEF Age, TypeInv, QueryOK, view
<1>6. QED BY <1>1, <1>2, <1>3, <1>4, <1>5

LEMMA ViewStepsType ==
    ASSUME TypeInv, \/ \E tok \in old : EndOld(tok)
                    \/ BackToList \/ CancelStatus \/ Expire
                    \/ \E s \in {"tenants", "accounts"} : GoTo(s)
                    \/ \E t \in Tenants : SelectTenant(t)
                    \/ \E to \in DOMAIN Transitions : AskStatus(to)
    PROVE  TypeInv'
<1>1. CASE \E tok \in old : EndOld(tok)
  <2>1. PICK tok \in old : EndOld(tok)
    BY <1>1
  <2>2. QueryOK'
    BY <2>1 DEF EndOld, TypeInv, QueryOK
  <2>3. AuthOK' /\ ViewOK' /\ DialogOK'
    BY <2>1, ShutOutType, Kept DEF EndOld, view
  <2>4. QED BY <2>1, <2>2, <2>3, Kept DEF EndOld, TypeInv
<1>2. CASE BackToList \/ CancelStatus
  <2>1. ViewOK'
    BY <1>2 DEF TypeInv, ViewOK, BackToList, CancelStatus
  <2>2. QED BY <1>2, <2>1, Kept DEF BackToList, CancelStatus, TypeInv
<1>3. CASE Expire
  <2>1. AuthOK'
    BY <1>3 DEF TypeInv, AuthOK, Expire
  <2>2. QED BY <1>3, <2>1, Kept DEF Expire, TypeInv, view
<1>4. CASE \E s \in {"tenants", "accounts"} : GoTo(s)
  <2>1. ViewOK'
    BY <1>4 DEF TypeInv, ViewOK, GoTo
  <2>2. QED BY <1>4, <2>1, Kept DEF GoTo, TypeInv
<1>5. CASE \E t \in Tenants : SelectTenant(t)
  <2>1. ViewOK'
    BY <1>5 DEF TypeInv, ViewOK, SelectTenant
  <2>2. QED BY <1>5, <2>1, Kept DEF SelectTenant, TypeInv
<1>6. CASE \E to \in DOMAIN Transitions : AskStatus(to)
  <2>1. ViewOK'
    BY <1>6, Constants DEF TypeInv, ViewOK, AskStatus
  <2>2. QED BY <1>6, <2>1, Kept DEF AskStatus, TypeInv
<1>7. QED BY <1>1, <1>2, <1>3, <1>4, <1>5, <1>6

(* A slot is empty or has a call.                                          *)
LEMMA CallFacts ==
    ASSUME TypeInv, NEW s \in Slots
    PROVE  /\ calls[s] = NoCall => calls[s].at = "idle" /\ calls[s].op = "none" /\ calls[s].heard = "none"
           /\ calls[s] # NoCall => calls[s] \in Call
           /\ calls[s] \in Call => calls[s] # NoCall
<1>1. calls[s] = NoCall => calls[s].at = "idle" /\ calls[s].op = "none" /\ calls[s].heard = "none"
  <2>1. NoCall.at = "idle"
    BY DEF NoCall
  <2>2. NoCall.op = "none" /\ NoCall.heard = "none"
    BY DEF NoCall
  <2>3. QED BY <2>1, <2>2
<1>2. calls[s] \in Call \cup {NoCall}
  BY DEF TypeInv, CallsOK
<1>3. calls[s] \in Call => calls[s].at # "idle"
  BY DEF Call, AnyCall
<1>4. QED BY <1>1, <1>2, <1>3

(* A call goes on: the row it is about stays.                              *)
LEMMA CallGoesOn ==
    ASSUME NEW c \in Call, NEW at \in {"sent", "checked", "answer"}, NEW says \in {"", "refused", "no", "ok"},
           NEW heardBy \in {"page", "cache", "none"}
    PROVE  /\ [c EXCEPT !.at = at, !.says = says] \in Call
           /\ [c EXCEPT !.heard = heardBy] \in Call
<1>1. c \in AnyCall
  BY DEF Call
<1>2. [c EXCEPT !.at = at, !.says = says] \in AnyCall /\ [c EXCEPT !.heard = heardBy] \in AnyCall
  BY <1>1 DEF AnyCall
<1>3. /\ [c EXCEPT !.at = at, !.says = says].op = c.op /\ [c EXCEPT !.at = at, !.says = says].on = c.on
      /\ [c EXCEPT !.at = at, !.says = says].to = c.to
  BY <1>1 DEF AnyCall
<1>4. [c EXCEPT !.heard = heardBy].op = c.op /\ [c EXCEPT !.heard = heardBy].on = c.on /\ [c EXCEPT !.heard = heardBy].to = c.to
  BY <1>1 DEF AnyCall
<1>5. QED BY <1>2, <1>3, <1>4 DEF Call

LEMMA SendType ==
    ASSUME TypeInv, NEW s \in Slots, NEW op \in Ops, NEW on, NEW to, Send(s, op, on, to),
           to \in Statuses,
           op \in TenantOps => on \in Tenants,
           op \notin TenantOps => on \in Accounts /\ to \in OnOff
    PROVE  CallsOK'
<1> DEFINE c == [op |-> op, on |-> on, to |-> to, token |-> token, at |-> "sent", says |-> "", heard |-> "page"]
<1>1. c \in AnyCall
  BY DEF AnyCall, TypeInv, AuthOK
<1>2. c \in Call
  BY <1>1 DEF Call
<1>3. calls' = [calls EXCEPT ![s] = c]
  BY DEF Send
<1> HIDE DEF c
<1>4. QED BY <1>2, <1>3 DEF TypeInv, CallsOK

LEMMA DialogStepsType ==
    ASSUME TypeInv, \/ \E op \in Ops : Dismiss(op)
                    \/ CreateTenant \/ CreateAccount \/ \E a \in Accounts : ChangePassword(a) \/ ToggleStatus(a)
    PROVE  TypeInv'
<1>1. CASE \E op \in Ops : Dismiss(op)
  <2>1. PICK op \in Ops : Dismiss(op)
    BY <1>1
  <2>2. DialogOK' /\ GhostOK'
    BY <2>1 DEF Dismiss, TypeInv, DialogOK, GhostOK
  <2>3. QED BY <2>1, <2>2, Kept DEF Dismiss, TypeInv
<1>2. ASSUME NEW op \in Ops, NEW on, NEW to, Opens(op, on, to), [on |-> on, to |-> to] \in Named(op)
      PROVE  TypeInv'
  <2>1. DialogOK'
    <3>1. dialog' = [dialog EXCEPT ![op] = [on |-> on, to |-> to]]
      BY <1>2 DEF Opens
    <3>2. QED BY <1>2, <3>1 DEF TypeInv, DialogOK
  <2>2. QED BY <1>2, <2>1, Kept DEF Opens, TypeInv
<1>3. CASE CreateTenant
  <2>1. [on |-> None, to |-> "active"] \in Named("createTenant") /\ "createTenant" \in Ops
    BY DEF Named, Ops
  <2>2. QED BY <1>2, <1>3, <2>1 DEF CreateTenant
<1>4. CASE CreateAccount
  <2>1. [on |-> None, to |-> "active"] \in Named("createAccount") /\ "createAccount" \in Ops
    BY DEF Named, Ops
  <2>2. QED BY <1>2, <1>4, <2>1 DEF CreateAccount
<1>5. ASSUME NEW a \in Accounts, ChangePassword(a)
      PROVE  TypeInv'
  <2>1. [on |-> a, to |-> "active"] \in Named("changePassword") /\ "changePassword" \in Ops
    BY DEF Named, Ops, OnOff
  <2>2. QED BY <1>2, <1>5, <2>1 DEF ChangePassword
<1>6. ASSUME NEW a \in Accounts, ToggleStatus(a)
      PROVE  TypeInv'
  <2>1. [on |-> a, to |-> Toggled(a)] \in Named("accountStatus") /\ "accountStatus" \in Ops
    BY DEF Named, Ops, OnOff, Toggled
  <2>2. QED BY <1>2, <1>6, <2>1 DEF ToggleStatus
<1>7. QED BY <1>1, <1>3, <1>4, <1>5, <1>6

(* What is submitted is about a row, and turns it to a status.             *)
LEMMA SubmitType ==
    ASSUME TypeInv, NEW s \in Slots, NEW op \in Ops, NEW on, Submit(s, op, on),
           \/ op = "createTenant" /\ on \in Tenants
           \/ op = "createAccount" /\ on \in Accounts
           \/ op \in {"changePassword", "accountStatus"} /\ on = dialog[op].on
    PROVE  TypeInv'
<1>1. dialog[op] \in Named(op)
  BY DEF Submit, OnScreen, TypeInv, DialogOK
<1>2. /\ op \in TenantOps => on \in Tenants /\ dialog[op].to = "active"
      /\ op \notin TenantOps => on \in Accounts /\ dialog[op].to \in OnOff
  <2>1. CASE op \in {"createTenant", "createAccount"}
    <3>1. dialog[op] = [on |-> None, to |-> "active"]
      BY <1>1, <2>1 DEF Named
    <3>2. dialog[op].to = "active"
      BY <3>1
    <3>3. QED BY <2>1, <3>2 DEF TenantOps, OnOff
  <2>2. CASE op \in {"changePassword", "accountStatus"}
    <3>1. dialog[op] \in [on: Accounts, to: OnOff]
      BY <1>1, <2>2 DEF Named
    <3>2. QED BY <2>2, <3>1 DEF TenantOps
  <2>3. QED BY <2>1, <2>2
<1>3. dialog[op].to \in Statuses
  BY <1>2 DEF OnOff, Statuses
<1>4. CallsOK'
  <2>1. Send(s, op, on, dialog[op].to)
    BY DEF Submit
  <2>2. QED BY <1>2, <1>3, <2>1, SendType
<1>5. GhostOK'
  BY DEF Submit, TypeInv, GhostOK
<1>6. QED BY <1>4, <1>5, Kept DEF Submit, TypeInv, view

(* What a call invalidates are keys.                                        *)
LEMMA ToldKeys ==
    ASSUME TypeInv, NEW c \in Call
    PROVE  Invalidates(c.op, c.on) \subseteq Keys
<1>1. c.op \in Ops /\ (c.op \in TenantOps => c.on \in Tenants)
  BY DEF Call, AnyCall
<1>2. {"tenants", "accounts"} \subseteq Keys
  BY DEF Keys, Lists
<1>3. QED BY <1>1, <1>2 DEF Invalidates, AfterStatus, AfterTenant, AfterAccount, AfterAccountStatus, AfterPassword, TenantOps, Keys, Ops

LEMMA PageType == ASSUME TypeInv, SignIn \/ Reopen PROVE TypeInv'
<1>1. CASE SignIn
  <2>1. PICK tok \in Tokens : token' = tok /\ Invalidate({"tenants", "accounts"}, tok)
    BY <1>1 DEF SignIn
  <2>2. {"tenants", "accounts"} \in SUBSET Keys
    BY DEF Keys, Lists
  <2>3. QueryOK' /\ excused' \subseteq Keys
    BY <2>1, <2>2, InvalidateType
  <2>4. AuthOK'
    BY <1>1, <2>1 DEF SignIn, TypeInv, AuthOK
  <2>5. GhostOK'
    BY <1>1, <2>3 DEF SignIn, TypeInv, GhostOK
  <2>6. QED BY <1>1, <2>3, <2>4, <2>5, Kept DEF SignIn, TypeInv, view
<1>2. CASE Reopen
  <2>1. CallsOK'
    <3>1. ASSUME NEW s \in Slots PROVE calls'[s] \in Call \cup {NoCall}
      <4>1. calls'[s] = IF calls[s].heard = "page" THEN [calls[s] EXCEPT !.heard = "cache"] ELSE calls[s]
        BY <1>2 DEF Reopen
      <4>2. calls[s] \in Call \cup {NoCall}
        BY DEF TypeInv, CallsOK
      <4>3. CASE calls[s].heard = "page"
        <5>1. calls[s] \in Call
          BY <4>3, CallFacts
        <5>2. [calls[s] EXCEPT !.heard = "cache"] \in Call
          BY <5>1, CallGoesOn
        <5>3. QED BY <4>1, <4>3, <5>2
      <4>4. CASE calls[s].heard # "page"
        BY <4>1, <4>2, <4>4
      <4>5. QED BY <4>3, <4>4
    <3>2. calls' = [s \in Slots |-> calls'[s]]
      BY <1>2 DEF Reopen
    <3>3. QED BY <3>1, <3>2 DEF CallsOK
  <2>2. AuthOK' /\ ViewOK' /\ DialogOK'
    BY <1>2 DEF Reopen, TypeInv, AuthOK, ViewOK, DialogOK
  <2>3. GhostOK'
    BY <1>2 DEF Reopen, TypeInv, GhostOK
  <2>4. QED BY <1>2, <2>1, <2>2, <2>3, Kept DEF Reopen, TypeInv
<1>3. QED BY <1>1, <1>2

LEMMA SentType ==
    ASSUME TypeInv, NEW s \in Slots,
           ConfirmStatus(s) \/ \E t \in Tenants, to \in visit.aims : Other(s, "tenantStatus", t, to)
    PROVE  TypeInv'
<1>1. CASE ConfirmStatus(s)
  <2>1. selected \in Tenants /\ confirm \in Statuses
    <3>1. Shown # None /\ confirm # None
      BY <1>1 DEF ConfirmStatus
    <3>2. selected # None
      BY <3>1 DEF Shown
    <3>3. QED BY <3>1, <3>2 DEF TypeInv, ViewOK
  <2>2. Send(s, "tenantStatus", selected, confirm) /\ confirm' = None
    BY <1>1 DEF ConfirmStatus
  <2>3. CallsOK'
    BY <2>1, <2>2, SendType DEF Ops, TenantOps
  <2>4. ViewOK'
    BY <1>1 DEF ConfirmStatus, TypeInv, ViewOK
  <2>5. QED BY <1>1, <2>3, <2>4, Kept DEF ConfirmStatus, TypeInv
<1>2. CASE \E t \in Tenants, to \in visit.aims : Other(s, "tenantStatus", t, to)
  <2>1. PICK t \in Tenants, to \in visit.aims : Other(s, "tenantStatus", t, to)
    BY <1>2
  <2>2. to \in Statuses
    BY Constants DEF TypeInv, RowsOK, Visit, Statuses
  <2> DEFINE c == [NoCall EXCEPT !.op = "tenantStatus", !.on = t, !.to = to, !.at = "sent"]
  <2>3. NoCall \in [op: {"none"}, on: {None}, to: {"none"}, token: {0}, at: {"idle"}, says: {""}, heard: {"none"}]
    BY DEF NoCall
  <2>4. c \in AnyCall /\ c.op \in TenantOps /\ c.on \in Tenants
    <3>1. c \in [op: {"tenantStatus"}, on: Tenants, to: Statuses, token: {0}, at: {"sent"}, says: {""}, heard: {"none"}]
      BY <2>2, <2>3
    <3> HIDE DEF c
    <3>2. QED BY <3>1, Constants DEF AnyCall, Ops, TenantOps
  <2>5. c \in Call
    BY <2>4 DEF Call
  <2>6. calls' = [calls EXCEPT ![s] = c]
    BY <2>1 DEF Other
  <2> HIDE DEF c
  <2>7. CallsOK'
    BY <2>5, <2>6 DEF TypeInv, CallsOK
  <2>8. QED BY <2>1, <2>7, Kept DEF Other, TypeInv, view
<1>3. QED BY <1>1, <1>2

LEMMA CheckType == ASSUME TypeInv, NEW s \in Slots, Check(s) PROVE TypeInv'
<1>1. calls[s] \in Call /\ calls[s].at = "sent"
  BY CallFacts DEF Check
<1>2. PICK at \in {"checked", "answer"}, says \in {"", "refused", "no"} : calls' = [calls EXCEPT ![s].at = at, ![s].says = says]
  BY DEF Check
<1>3. calls' = [calls EXCEPT ![s] = [calls[s] EXCEPT !.at = at, !.says = says]]
  BY <1>2 DEF TypeInv, CallsOK
<1>4. [calls[s] EXCEPT !.at = at, !.says = says] \in Call
  BY <1>1, CallGoesOn
<1>5. CallsOK'
  BY <1>3, <1>4 DEF TypeInv, CallsOK
<1>6. GhostOK'
  BY DEF Check, TypeInv, GhostOK
<1>7. QED BY <1>5, <1>6, Kept DEF Check, TypeInv, view

LEMMA WriteType == ASSUME TypeInv, NEW s \in Slots, Write(s) PROVE TypeInv'
<1>1. calls[s] \in Call /\ calls[s].at = "checked"
  BY CallFacts DEF Write
<1>2. PICK says \in {"no", "ok"} : calls' = [calls EXCEPT ![s].at = "answer", ![s].says = says]
  BY DEF Write
<1>3. calls' = [calls EXCEPT ![s] = [calls[s] EXCEPT !.at = "answer", !.says = says]]
  BY <1>2 DEF TypeInv, CallsOK
<1>4. [calls[s] EXCEPT !.at = "answer", !.says = says] \in Call
  BY <1>1, CallGoesOn
<1>5. CallsOK'
  BY <1>3, <1>4 DEF TypeInv, CallsOK
<1>6. calls[s].op \in Ops /\ calls[s].to \in Statuses
  BY <1>1 DEF Call, AnyCall
<1>7. /\ calls[s].op \in TenantOps => calls[s].on \in Tenants
      /\ calls[s].op \notin TenantOps => calls[s].on \in Accounts /\ calls[s].to \in OnOff
  BY <1>1 DEF Call
<1>8. RowsOK'
  <2>1. CASE SlugTaken(calls[s]) \/ NameTaken(calls[s])
    BY <2>1 DEF Write, TypeInv, RowsOK, server
  <2>2. CASE ~(SlugTaken(calls[s]) \/ NameTaken(calls[s]))
    <3>1. tenants' = NewTenants(calls[s]) /\ accounts' = NewAccounts(calls[s]) /\ visit' = visit
      BY <2>2 DEF Write
    <3>2. NewTenants(calls[s]) \in [Tenants -> Statuses \cup {"none"}]
      BY <1>6, <1>7 DEF NewTenants, TenantOps, TypeInv, RowsOK
    <3>3. NewAccounts(calls[s]) \in [Accounts -> OnOff \cup {"none"}]
      BY <1>6, <1>7 DEF NewAccounts, TenantOps, TypeInv, RowsOK
    <3>4. QED BY <3>1, <3>2, <3>3 DEF TypeInv, RowsOK
  <2>3. QED BY <2>1, <2>2
<1>9. GhostOK'
  <2>1. excused' \subseteq Keys
    BY <1>1, ToldKeys DEF Write, TypeInv, GhostOK
  <2>2. QED BY <2>1 DEF Write, TypeInv, GhostOK
<1>10. QED BY <1>5, <1>8, <1>9, Kept DEF Write, TypeInv, view

LEMMA AnswerStepType == ASSUME TypeInv, NEW s \in Slots, Answer(s) PROVE TypeInv'
<1>1. calls[s] \in Call /\ calls' = [calls EXCEPT ![s] = NoCall]
  BY CallFacts DEF Answer
<1>2. CallsOK'
  BY <1>1 DEF TypeInv, CallsOK
<1>3. QueryOK' /\ excused' \subseteq Keys
  <2>1. CASE calls[s].heard # "none" /\ calls[s].says = "ok"
    <3>1. Invalidate(Invalidates(calls[s].op, calls[s].on), token)
      BY <2>1 DEF Answer
    <3>2. Invalidates(calls[s].op, calls[s].on) \in SUBSET Keys /\ token \in Tokens
      BY <1>1, ToldKeys DEF TypeInv, AuthOK
    <3>3. QED BY <3>1, <3>2, InvalidateType
  <2>2. CASE ~(calls[s].heard # "none" /\ calls[s].says = "ok")
    BY <2>2, Kept DEF Answer, TypeInv, GhostOK
  <2>3. QED BY <2>1, <2>2
<1>4. AuthOK' /\ ViewOK' /\ DialogOK'
  <2>1. CASE calls[s].heard # "none" /\ calls[s].says = "refused"
    BY <2>1, ShutOutType DEF Answer
  <2>2. CASE ~(calls[s].heard # "none" /\ calls[s].says = "refused")
    <3>1. dialog' = [dialog EXCEPT ![calls[s].op] = None] \/ dialog' = dialog
      BY <2>2 DEF Answer
    <3>2. DialogOK'
      BY <3>1 DEF TypeInv, DialogOK
    <3>3. UNCHANGED <<auth, section, selected, seen, confirm>>
      BY <2>2 DEF Answer
    <3>4. QED BY <3>2, <3>3, Kept
  <2>3. QED BY <2>1, <2>2
<1>5. RowsOK' /\ met' \subseteq Tenants /\ dismissed' \subseteq Ops
  BY Kept DEF Answer, TypeInv, GhostOK
<1>6. QED BY <1>2, <1>3, <1>4, <1>5 DEF TypeInv, GhostOK

LEMMA LoseType == ASSUME TypeInv, NEW s \in Slots, Lose(s) PROVE TypeInv'
<1>1. calls[s] \in Call
  BY CallFacts DEF Lose
<1>2. CallsOK'
  <2>1. CASE calls' = [calls EXCEPT ![s] = NoCall]
    BY <2>1 DEF TypeInv, CallsOK
  <2>2. CASE calls' = [calls EXCEPT ![s].heard = "none"]
    <3>1. calls' = [calls EXCEPT ![s] = [calls[s] EXCEPT !.heard = "none"]]
      BY <2>2 DEF TypeInv, CallsOK
    <3>2. [calls[s] EXCEPT !.heard = "none"] \in Call
      BY <1>1, CallGoesOn
    <3>3. QED BY <3>1, <3>2 DEF TypeInv, CallsOK
  <2>3. QED BY <2>1, <2>2 DEF Lose
<1>3. GhostOK'
  <2>1. excused' \subseteq Keys
    BY <1>1, ToldKeys DEF Lose, TypeInv, GhostOK
  <2>2. QED BY <2>1 DEF Lose, TypeInv, GhostOK
<1>4. QED BY <1>2, <1>3, Kept DEF Lose, TypeInv, view

LEMMA StepTypes == ASSUME TypeInv, PageNext PROVE TypeInv'
<1>1. visit.keys \subseteq Keys
  BY Constants DEF TypeInv, RowsOK, Visit
<1>2. CASE \E k \in visit.keys : Fetch(k) \/ ServeFetch(k) \/ EndFetch(k) \/ LoseFetch(k) \/ Age(k)
  BY <1>1, <1>2, QueryStepsType
<1>3. CASE \E s \in Slots : ConfirmStatus(s) \/ Check(s) \/ Answer(s) \/ Lose(s) \/ Write(s)
  BY <1>3, SentType, CheckType, AnswerStepType, LoseType, WriteType
<1>4. CASE \E s \in Slots, t \in Tenants, to \in visit.aims : Other(s, "tenantStatus", t, to)
  BY <1>4, SentType
<1>5. CASE \E s \in Slots : SubmitPassword(s) \/ SubmitToggle(s) \/ (\E t \in Tenants : SubmitTenant(s, t))
                            \/ \E a \in Accounts : SubmitAccount(s, a)
  <2>1. PICK s \in Slots : SubmitPassword(s) \/ SubmitToggle(s) \/ (\E t \in Tenants : SubmitTenant(s, t))
                            \/ \E a \in Accounts : SubmitAccount(s, a)
    BY <1>5
  <2>2. {"changePassword", "accountStatus", "createTenant", "createAccount"} \subseteq Ops
    BY DEF Ops
  <2>3. CASE SubmitPassword(s)
    BY <2>2, <2>3, SubmitType DEF SubmitPassword
  <2>4. CASE SubmitToggle(s)
    BY <2>2, <2>4, SubmitType DEF SubmitToggle
  <2>5. CASE \E t \in Tenants : SubmitTenant(s, t)
    BY <2>2, <2>5, SubmitType DEF SubmitTenant
  <2>6. CASE \E a \in Accounts : SubmitAccount(s, a)
    BY <2>2, <2>6, SubmitType DEF SubmitAccount
  <2>7. QED BY <2>1, <2>3, <2>4, <2>5, <2>6
<1>6. QED BY <1>2, <1>3, <1>4, <1>5, ViewStepsType, DialogStepsType, PageType DEF PageNext, PageSteps, PageWrites
-----------------------------------------------------------------------------
(* Changes of status.  A call that has looked at a tenant may still make    *)
(* the change it looked for, and no other call has looked at that tenant,   *)
(* unless the tenant is in met.                                             *)
Looked(s) == calls[s].at = "checked" /\ calls[s].on \in Tenants

MayStill == \A s \in Slots :
    Looked(s) /\ calls[s].op = "tenantStatus" /\ calls[s].on \notin met
        => tenants[calls[s].on] # "none" /\ calls[s].to \in Transitions[tenants[calls[s].on]]

LooksAlone == \A s, o \in Slots :
    Looked(s) /\ Looked(o) /\ calls[s].on = calls[o].on /\ calls[s].on \notin met => s = o

(* On a page that hears its answers, is not left, and has no other          *)
(* superadmin beside it, an operation has one call at a time, and what is   *)
(* created is not there before.                                             *)
Calm == ~visit.loses /\ ~visit.others /\ ~visit.leaves

Undisturbed ==
    /\ met = {}
    /\ \A s \in Slots : calls[s] # NoCall => calls[s].heard = "page"
    /\ \A s, o \in Slots : calls[s] # NoCall /\ calls[o].op = calls[s].op => s = o
    /\ \A s \in Slots : Looked(s) => (calls[s].op = "createTenant" <=> tenants[calls[s].on] = "none")

OneEach == Calm => Undisturbed

StatusInv == TypeInv /\ MayStill /\ LooksAlone /\ OneEach

(* A call of the page has its dialog open, for the row it is about, unless  *)
(* the dialog was dismissed meanwhile.                                      *)
Heard(s) == calls[s] # NoCall /\ calls[s].heard = "page"
OneHeard == \A s, o \in Slots : Heard(s) /\ Heard(o) /\ calls[s].op = calls[o].op => s = o
OwnDialog == \A s \in Slots :
    Heard(s) /\ calls[s].op \notin dismissed \cup {"tenantStatus"}
        => dialog[calls[s].op] # None /\ dialog[calls[s].op].on \in {None, calls[s].on}

DialogInv == TypeInv /\ OneHeard /\ OwnDialog

(* What is cached for fresh, or on its way, is what the server has, unless  *)
(* the page will be told; and what it will not be told is excused.          *)
Current(k) == cache[k].data # None /\ ~cache[k].stale /\ ~ToldSoon(k) => cache[k].data = AnswerTo(k)
Coming(k)  == fetch[k].at = "answer" /\ fetch[k].data # None /\ ~ToldSoon(k) => fetch[k].data = AnswerTo(k)
Watched    == (Keys \ {"options"}) \ excused
Unheard == \A s \in Slots :
    calls[s].at = "answer" /\ calls[s].says = "ok" /\ calls[s].heard = "none" => Invalidates(calls[s].op, calls[s].on) \subseteq excused

(* The page looks at tenants there are: a new one it finds in the list.     *)
Looks(t) == cache[t].data # None \/ fetch[t].at # "idle" \/ selected = t
AreThere(list) == list # None => \A t \in Tenants : list[t] # "none" => tenants[t] # "none"
Found == "createTenant" \in visit.ops =>
    /\ \A t \in Tenants : Looks(t) => tenants[t] # "none"
    /\ AreThere(cache["tenants"].data) /\ AreThere(fetch["tenants"].data)
InVisit ==
    /\ \A s \in Slots : calls[s].op = "createTenant" => "createTenant" \in visit.ops
    /\ dialog["createTenant"] # None => "createTenant" \in visit.ops

KeysFresh == \A k \in Watched : Current(k) /\ Coming(k)

FreshInv == TypeInv /\ KeysFresh /\ Unheard /\ Found /\ InVisit
-----------------------------------------------------------------------------
(* What the two halves of a handler do to the calls.                       *)
Same(s) == /\ calls'[s].op = calls[s].op /\ calls'[s].on = calls[s].on
           /\ calls'[s].to = calls[s].to /\ calls'[s].heard = calls[s].heard
Others(s) == \A o \in Slots \ {s} : calls'[o] = calls[o]
Meets(s) == \E o \in Slots \ {s} : calls[o].at = "checked" /\ calls[o].on = calls[s].on

LEMMA Advance ==
    ASSUME TypeInv, NEW s \in Slots, calls[s] \in Call, NEW at, NEW says, at # "idle",
           calls' = [calls EXCEPT ![s].at = at, ![s].says = says]
    PROVE  Same(s) /\ Others(s) /\ calls'[s].at = at /\ calls'[s].says = says /\ calls'[s] # NoCall
<1>1. calls \in [Slots -> Call \cup {NoCall}] /\ calls[s] \in AnyCall
  BY DEF TypeInv, CallsOK, Call
<1>2. calls' = [calls EXCEPT ![s] = [calls[s] EXCEPT !.at = at, !.says = says]]
  BY <1>1
<1>3. calls'[s] = [calls[s] EXCEPT !.at = at, !.says = says]
  BY <1>1, <1>2
<1>4. calls'[s].at = at /\ calls'[s].says = says
  BY <1>1, <1>3 DEF AnyCall
<1>5. Same(s)
  BY <1>1, <1>3 DEF AnyCall, Same
<1>6. Others(s)
  BY <1>1, <1>2 DEF Others
<1>7. NoCall.at = "idle"
  BY DEF NoCall
<1>8. QED BY <1>4, <1>5, <1>6, <1>7

LEMMA CheckShape ==
    ASSUME TypeInv, NEW s \in Slots, Check(s)
    PROVE  /\ calls[s] \in Call /\ calls[s].at = "sent" /\ Same(s) /\ Others(s) /\ calls'[s] # NoCall
           /\ calls'[s].at \in {"checked", "answer"} /\ calls'[s].says # "ok"
           /\ calls'[s].at = "checked" => MayGoOn(calls[s])
           /\ met' = IF calls'[s].at = "checked" /\ calls[s].on \in Tenants /\ Meets(s) THEN met \cup {calls[s].on} ELSE met
<1>1. calls[s] \in Call /\ calls[s].at = "sent"
  BY CallFacts DEF Check
<1> DEFINE known == calls[s].token = 0 \/ Accepts(calls[s].token)
<1> DEFINE goes == known /\ MayGoOn(calls[s])
<1> DEFINE at == IF goes THEN "checked" ELSE "answer"
<1> DEFINE says == IF ~known THEN "refused" ELSE IF goes THEN "" ELSE "no"
<1> DEFINE also == {o \in Slots \ {s} : calls[o].at = "checked" /\ calls[o].on = calls[s].on}
<1>2. calls' = [calls EXCEPT ![s].at = at, ![s].says = says]
  BY DEF Check
<1>3. met' = IF goes /\ calls[s].on \in Tenants /\ also # {} THEN met \cup {calls[s].on} ELSE met
  BY DEF Check
<1>4. (also # {}) <=> Meets(s)
  BY DEF Meets
<1>5. at \in {"checked", "answer"} /\ says # "ok" /\ at # "idle" /\ (at = "checked" <=> goes) /\ (goes => MayGoOn(calls[s]))
  OBVIOUS
<1> HIDE DEF at, says, also
<1>6. Same(s) /\ Others(s) /\ calls'[s].at = at /\ calls'[s].says = says /\ calls'[s] # NoCall
  BY <1>1, <1>2, <1>5, Advance
<1> HIDE DEF goes
<1>7. QED BY <1>1, <1>3, <1>4, <1>5, <1>6

LEMMA WriteShape ==
    ASSUME TypeInv, NEW s \in Slots, Write(s)
    PROVE  /\ calls[s] \in Call /\ calls[s].at = "checked" /\ Same(s) /\ Others(s) /\ calls'[s] # NoCall
           /\ calls'[s].at = "answer" /\ calls'[s].says \in {"no", "ok"} /\ UNCHANGED <<visit, view, query, met, dismissed>>
           /\ calls'[s].says = "no" => UNCHANGED <<server, excused>>
           /\ calls'[s].says = "ok" =>
                /\ ~SlugTaken(calls[s]) /\ tenants' = NewTenants(calls[s]) /\ accounts' = NewAccounts(calls[s])
                /\ excused' = IF calls[s].heard = "none" THEN excused \cup Invalidates(calls[s].op, calls[s].on) ELSE excused
<1>1. calls[s] \in Call /\ calls[s].at = "checked"
  BY CallFacts DEF Write
<1> DEFINE taken == SlugTaken(calls[s]) \/ NameTaken(calls[s])
<1> DEFINE says == IF taken THEN "no" ELSE "ok"
<1>2. calls' = [calls EXCEPT ![s].at = "answer", ![s].says = says]
  BY DEF Write
<1>3. UNCHANGED <<visit, view, query, met, dismissed>>
  BY DEF Write
<1>4. /\ taken => UNCHANGED <<server, excused>>
      /\ ~taken => /\ tenants' = NewTenants(calls[s]) /\ accounts' = NewAccounts(calls[s])
                   /\ excused' = IF calls[s].heard = "none" THEN excused \cup Invalidates(calls[s].op, calls[s].on) ELSE excused
  BY DEF Write
<1>5. (taken => says = "no") /\ (~taken => says = "ok") /\ (~taken => ~SlugTaken(calls[s]))
  OBVIOUS
<1> HIDE DEF says, taken
<1>6. Same(s) /\ Others(s) /\ calls'[s].at = "answer" /\ calls'[s].says = says /\ calls'[s] # NoCall
  BY <1>1, <1>2, Advance
<1>7. QED BY <1>1, <1>3, <1>4, <1>5, <1>6

(* Only a call that has looked and is of a kind that writes a tenant does.  *)
LEMMA TenantWritten ==
    ASSUME TypeInv, NEW s \in Slots, Write(s), NEW t \in Tenants, tenants'[t] # tenants[t]
    PROVE  /\ Looked(s) /\ calls[s].on = t /\ calls'[s].says = "ok" /\ tenants'[t] = calls[s].to
           /\ calls[s].op \in TenantOps /\ (calls[s].op = "createTenant" => tenants[t] = "none")
<1>1. /\ calls[s] \in Call /\ calls[s].at = "checked" /\ calls'[s].says \in {"no", "ok"}
      /\ calls'[s].says = "no" => UNCHANGED server
      /\ calls'[s].says = "ok" => ~SlugTaken(calls[s]) /\ tenants' = NewTenants(calls[s])
  BY WriteShape
<1>2. calls'[s].says = "ok"
  BY <1>1 DEF server
<1>3. calls[s].op \in TenantOps /\ tenants' = [tenants EXCEPT ![calls[s].on] = calls[s].to]
  BY <1>1, <1>2 DEF NewTenants, TenantOps
<1>4. calls[s].on \in Tenants
  BY <1>1, <1>3 DEF Call
<1>5. calls[s].on = t /\ tenants'[t] = calls[s].to
  BY <1>3, <1>4 DEF TypeInv, RowsOK
<1>6. QED BY <1>1, <1>2, <1>3, <1>4, <1>5 DEF Looked, SlugTaken, Exists
-----------------------------------------------------------------------------
(* Nobody looks who did not look before.                                   *)
LEMMA NoNewLook ==
    ASSUME MayStill, LooksAlone, UNCHANGED <<tenants, met>>,
           \A s \in Slots : Looked(s)' => Looked(s) /\ calls'[s].op = calls[s].op /\ calls'[s].on = calls[s].on
                                                    /\ calls'[s].to = calls[s].to
    PROVE  MayStill' /\ LooksAlone'
BY DEF MayStill, LooksAlone

LEMMA CheckLooks == ASSUME StatusInv, NEW s \in Slots, Check(s) PROVE MayStill' /\ LooksAlone'
<1>1. /\ calls[s] \in Call /\ calls[s].at = "sent" /\ Same(s) /\ Others(s)
      /\ calls'[s].at = "checked" => MayGoOn(calls[s])
      /\ met' = IF calls'[s].at = "checked" /\ calls[s].on \in Tenants /\ Meets(s) THEN met \cup {calls[s].on} ELSE met
  BY CheckShape DEF StatusInv
<1>2. tenants' = tenants /\ met \subseteq met'
  BY <1>1 DEF Check, server
<1>3. \A o \in Slots \ {s} : /\ Looked(o)' <=> Looked(o)
                             /\ calls'[o] = calls[o]
  BY <1>1 DEF Others, Looked
<1>4. MayStill'
  <2>1. SUFFICES ASSUME NEW o \in Slots, Looked(o)', calls'[o].op = "tenantStatus", calls'[o].on \notin met'
                 PROVE  tenants[calls'[o].on] # "none" /\ calls'[o].to \in Transitions[tenants[calls'[o].on]]
    BY <1>2 DEF MayStill
  <2>2. CASE o # s
    BY <1>2, <1>3, <2>1, <2>2 DEF StatusInv, MayStill
  <2>3. CASE o = s
    <3>1. calls'[s].at = "checked" /\ calls[s].op = "tenantStatus"
      BY <1>1, <2>1, <2>3 DEF Looked, Same
    <3>2. TenantMayTurn(calls[s].on, calls[s].to)
      BY <1>1, <3>1 DEF MayGoOn
    <3>3. QED BY <1>1, <2>3, <3>2 DEF TenantMayTurn, Exists, IsValidTransition, Same
  <2>4. QED BY <2>2, <2>3
<1>5. LooksAlone'
  <2>1. SUFFICES ASSUME NEW o \in Slots, NEW p \in Slots, Looked(o)', Looked(p)', calls'[o].on = calls'[p].on,
                        calls'[o].on \notin met', o # p
                 PROVE  FALSE
    BY DEF LooksAlone
  <2>2. CASE o # s /\ p # s
    BY <1>2, <1>3, <2>1, <2>2 DEF StatusInv, LooksAlone
  <2>3. ASSUME NEW q \in Slots \ {s}, Looked(q)', Looked(s)', calls'[q].on = calls'[s].on, calls'[s].on \notin met'
        PROVE  FALSE
    <3>1. Looked(q) /\ calls[q].on = calls[s].on
      BY <1>1, <1>3, <2>3 DEF Same
    <3>2. Meets(s)
      BY <3>1 DEF Meets, Looked
    <3>3. calls'[s].at = "checked" /\ calls[s].on \in Tenants /\ calls'[s].on = calls[s].on
      BY <1>1, <2>3 DEF Looked, Same
    <3>4. QED BY <1>1, <2>3, <3>2, <3>3
  <2>4. QED BY <2>1, <2>2, <2>3
<1>6. QED BY <1>4, <1>5

LEMMA WriteLooks == ASSUME StatusInv, NEW s \in Slots, Write(s) PROVE MayStill' /\ LooksAlone'
<1>1. /\ calls[s] \in Call /\ calls'[s].at = "answer" /\ Others(s) /\ met' = met
  BY WriteShape DEF StatusInv
<1>2. \A o \in Slots : Looked(o)' => o # s /\ Looked(o) /\ calls'[o] = calls[o]
  BY <1>1 DEF Others, Looked
<1>3. LooksAlone'
  BY <1>1, <1>2 DEF StatusInv, LooksAlone
<1>4. MayStill'
  <2>1. SUFFICES ASSUME NEW o \in Slots, Looked(o)', calls'[o].op = "tenantStatus", calls'[o].on \notin met'
                 PROVE  tenants'[calls'[o].on] # "none" /\ calls'[o].to \in Transitions[tenants'[calls'[o].on]]
    BY DEF MayStill
  <2>2. Looked(o) /\ o # s /\ calls'[o] = calls[o]
    BY <1>2, <2>1
  <2>3. tenants'[calls[o].on] = tenants[calls[o].on]
    <3>1. SUFFICES ASSUME tenants'[calls[o].on] # tenants[calls[o].on] PROVE FALSE
      OBVIOUS
    <3>2. calls[o].on \in Tenants
      BY <2>2 DEF Looked
    <3>3. Looked(s) /\ calls[s].on = calls[o].on
      BY <3>1, <3>2, TenantWritten DEF StatusInv
    <3>4. QED BY <1>1, <2>1, <2>2, <3>3 DEF StatusInv, LooksAlone
  <2>4. QED BY <1>1, <2>1, <2>2, <2>3 DEF StatusInv, MayStill
<1>5. QED BY <1>3, <1>4

(* A call is sent from a free slot.                                        *)
LEMMA SendShape ==
    ASSUME TypeInv, NEW s \in Slots, NEW op, NEW on, NEW to, Send(s, op, on, to)
    PROVE  /\ calls[s] = NoCall /\ Others(s) /\ calls'[s] # NoCall
           /\ calls'[s].op = op /\ calls'[s].on = on /\ calls'[s].at = "sent" /\ calls'[s].heard = "page"
<1> DEFINE c == [op |-> op, on |-> on, to |-> to, token |-> token, at |-> "sent", says |-> "", heard |-> "page"]
<1>1. c.op = op /\ c.on = on /\ c.at = "sent" /\ c.heard = "page"
  OBVIOUS
<1>2. calls' = [calls EXCEPT ![s] = c] /\ calls[s] = NoCall
  BY DEF Send, Free
<1> HIDE DEF c
<1>3. calls'[s] = c /\ Others(s)
  BY <1>2 DEF TypeInv, CallsOK, Others
<1>4. NoCall.at = "idle"
  BY DEF NoCall
<1>5. QED BY <1>1, <1>2, <1>3, <1>4

(* What the page sends.                                                     *)
LEMMA Sending ==
    ASSUME TypeInv, NEW s \in Slots,
           \/ ConfirmStatus(s) \/ SubmitPassword(s) \/ SubmitToggle(s)
           \/ (\E t \in Tenants : SubmitTenant(s, t)) \/ \E a \in Accounts : SubmitAccount(s, a)
    PROVE  \E op \in Ops : \E on, to : Send(s, op, on, to) /\ CanSubmit(op) /\ UNCHANGED <<visit, server, met, query, excused>>
<1>1. {"tenantStatus", "changePassword", "accountStatus", "createTenant", "createAccount"} \subseteq Ops
  BY DEF Ops
<1>2. CASE ConfirmStatus(s)
  BY <1>1, <1>2 DEF ConfirmStatus, ghost
<1>3. ASSUME NEW op \in Ops, NEW on, Submit(s, op, on)
      PROVE  \E to : Send(s, op, on, to) /\ CanSubmit(op) /\ UNCHANGED <<visit, server, met, query, excused>>
  BY <1>3 DEF Submit
<1>4. CASE SubmitPassword(s)
  BY <1>1, <1>3, <1>4 DEF SubmitPassword
<1>5. CASE SubmitToggle(s)
  BY <1>1, <1>3, <1>5 DEF SubmitToggle
<1>6. CASE \E t \in Tenants : SubmitTenant(s, t)
  BY <1>1, <1>3, <1>6 DEF SubmitTenant
<1>7. CASE \E a \in Accounts : SubmitAccount(s, a)
  BY <1>1, <1>3, <1>7 DEF SubmitAccount
<1>8. QED BY <1>2, <1>4, <1>5, <1>6, <1>7

(* A call that ends, or that another superadmin makes, has not looked.     *)
LEMMA OtherShape ==
    ASSUME TypeInv, NEW s \in Slots, NEW t \in Tenants, NEW to, Other(s, "tenantStatus", t, to)
    PROVE  /\ Others(s) /\ calls'[s].at = "sent" /\ calls'[s].heard = "none" /\ calls'[s].op = "tenantStatus"
           /\ visit.others /\ UNCHANGED <<visit, server, view, query, ghost>>
<1> DEFINE c == [NoCall EXCEPT !.op = "tenantStatus", !.on = t, !.to = to, !.at = "sent"]
<1>1. NoCall \in [op: {"none"}, on: {None}, to: {"none"}, token: {0}, at: {"idle"}, says: {""}, heard: {"none"}]
  BY DEF NoCall
<1>2. c.at = "sent" /\ c.heard = "none" /\ c.op = "tenantStatus"
  BY <1>1
<1>3. calls' = [calls EXCEPT ![s] = c]
  BY DEF Other
<1> HIDE DEF c
<1>4. calls'[s] = c /\ Others(s)
  BY <1>3 DEF TypeInv, CallsOK, Others
<1>5. QED BY <1>2, <1>4 DEF Other

LEMMA AnswerShape ==
    ASSUME TypeInv, NEW s \in Slots, Answer(s)
    PROVE  /\ calls[s] \in Call /\ calls[s].at = "answer" /\ Others(s) /\ calls'[s] = NoCall
           /\ UNCHANGED <<visit, server, met, dismissed>>
<1>1. calls[s] \in Call /\ calls[s].at = "answer"
  BY CallFacts DEF Answer
<1>2. calls' = [calls EXCEPT ![s] = NoCall] /\ UNCHANGED <<visit, server, met, dismissed>>
  BY DEF Answer
<1>3. calls'[s] = NoCall /\ Others(s)
  BY <1>2 DEF TypeInv, CallsOK, Others
<1>4. QED BY <1>1, <1>2, <1>3

LEMMA LoseShape ==
    ASSUME TypeInv, NEW s \in Slots, Lose(s)
    PROVE  /\ calls[s] \in Call /\ visit.loses /\ Others(s)
           /\ \/ calls[s].at = "sent" /\ calls'[s] = NoCall
              \/ /\ calls'[s].at = calls[s].at /\ calls'[s].op = calls[s].op /\ calls'[s].on = calls[s].on
                 /\ calls'[s].to = calls[s].to /\ calls'[s].says = calls[s].says
                 /\ calls'[s].heard = "none" /\ calls'[s] # NoCall
           /\ excused' = IF calls[s].at = "answer" /\ calls[s].says = "ok"
                         THEN excused \cup Invalidates(calls[s].op, calls[s].on) ELSE excused
           /\ UNCHANGED <<visit, server, view, query, met, dismissed>>
<1>1. calls[s] \in Call /\ calls[s] \in AnyCall
  BY CallFacts DEF Lose, Call
<1>2. visit.loses /\ UNCHANGED <<visit, server, view, query, met, dismissed>>
  BY DEF Lose
<1>3. excused' = IF calls[s].at = "answer" /\ calls[s].says = "ok"
                 THEN excused \cup Invalidates(calls[s].op, calls[s].on) ELSE excused
  BY DEF Lose
<1>4. CASE calls[s].at = "sent" /\ calls' = [calls EXCEPT ![s] = NoCall]
  <2>1. calls'[s] = NoCall /\ Others(s)
    BY <1>4 DEF TypeInv, CallsOK, Others
  <2>2. QED BY <1>1, <1>2, <1>3, <1>4, <2>1
<1>5. CASE calls' = [calls EXCEPT ![s].heard = "none"]
  <2>1. calls'[s] = [calls[s] EXCEPT !.heard = "none"] /\ Others(s)
    BY <1>5 DEF TypeInv, CallsOK, Others
  <2>2. /\ calls'[s].at = calls[s].at /\ calls'[s].op = calls[s].op /\ calls'[s].on = calls[s].on
        /\ calls'[s].to = calls[s].to /\ calls'[s].says = calls[s].says /\ calls'[s].heard = "none"
    BY <1>1, <2>1 DEF AnyCall
  <2>3. calls[s].at # "idle" /\ NoCall.at = "idle"
    BY <1>1 DEF AnyCall, NoCall
  <2>4. QED BY <1>1, <1>2, <1>3, <2>1, <2>2, <2>3
<1>6. QED BY <1>4, <1>5 DEF Lose

LEMMA ReopenShape ==
    ASSUME TypeInv, Reopen, NEW s \in Slots
    PROVE  /\ calls'[s].at = calls[s].at /\ calls'[s].op = calls[s].op /\ calls'[s].on = calls[s].on
           /\ calls'[s].to = calls[s].to /\ calls'[s].says = calls[s].says
           /\ calls'[s].heard = IF calls[s].heard = "page" THEN "cache" ELSE calls[s].heard
           /\ calls'[s] = NoCall <=> calls[s] = NoCall
<1>1. calls'[s] = IF calls[s].heard = "page" THEN [calls[s] EXCEPT !.heard = "cache"] ELSE calls[s]
  BY DEF Reopen
<1>2. CASE calls[s].heard = "page"
  <2>1. calls[s] \in Call /\ calls[s] \in AnyCall
    BY <1>2, CallFacts DEF Call
  <2>2. /\ calls'[s].at = calls[s].at /\ calls'[s].op = calls[s].op /\ calls'[s].on = calls[s].on
        /\ calls'[s].to = calls[s].to /\ calls'[s].says = calls[s].says /\ calls'[s].heard = "cache"
    BY <1>1, <1>2, <2>1 DEF AnyCall
  <2>3. calls[s].at # "idle" /\ NoCall.at = "idle"
    BY <2>1 DEF AnyCall, NoCall
  <2>4. QED BY <1>2, <2>2, <2>3
<1>3. CASE calls[s].heard # "page"
  BY <1>1, <1>3
<1>4. QED BY <1>2, <1>3

(* A step of the pages takes some call on, or leaves all calls and rows.   *)
Sends(s) == \E op \in Ops : \E on, to :
    Send(s, op, on, to) /\ CanSubmit(op) /\ UNCHANGED <<visit, server, met, query, excused>>

LEMMA Kinds ==
    ASSUME TypeInv, PageNext
    PROVE  \/ UNCHANGED <<visit, server, calls, met>>
           \/ \E s \in Slots : Sends(s) \/ Check(s) \/ Write(s) \/ Answer(s) \/ Lose(s)
           \/ \E s \in Slots, t \in Tenants, to \in visit.aims : Other(s, "tenantStatus", t, to)
           \/ Reopen
<1>1. CASE \E k \in visit.keys : Fetch(k) \/ ServeFetch(k) \/ EndFetch(k) \/ LoseFetch(k) \/ Age(k)
  BY <1>1 DEF Fetch, ServeFetch, EndFetch, LoseFetch, Age, ghost
<1>2. CASE \/ \E tok \in old : EndOld(tok)
           \/ SignIn \/ BackToList \/ CancelStatus \/ Expire
           \/ \E s \in {"tenants", "accounts"} : GoTo(s)
           \/ \E t \in Tenants : SelectTenant(t)
           \/ \E to \in DOMAIN Transitions : AskStatus(to)
  BY <1>2 DEF EndOld, SignIn, BackToList, CancelStatus, Expire, GoTo, SelectTenant, AskStatus, ghost
<1>3. CASE \/ \E op \in Ops : Dismiss(op)
           \/ CreateTenant \/ CreateAccount \/ \E a \in Accounts : ChangePassword(a) \/ ToggleStatus(a)
  BY <1>3 DEF Dismiss, CreateTenant, CreateAccount, ChangePassword, ToggleStatus, Opens, ghost
<1>4. CASE \E s \in Slots : \/ ConfirmStatus(s) \/ SubmitPassword(s) \/ SubmitToggle(s)
                            \/ (\E t \in Tenants : SubmitTenant(s, t)) \/ \E a \in Accounts : SubmitAccount(s, a)
  BY <1>4, Sending DEF Sends
<1>5. QED BY <1>1, <1>2, <1>3, <1>4 DEF PageNext, PageSteps, PageWrites

LEMMA LooksStep == ASSUME StatusInv, PageNext PROVE MayStill' /\ LooksAlone'
<1>0. TypeInv /\ MayStill /\ LooksAlone
  BY DEF StatusInv
<1>1. CASE UNCHANGED <<visit, server, calls, met>>
  BY <1>0, <1>1, NoNewLook DEF server, Looked
<1>2. ASSUME NEW s \in Slots, Sends(s) PROVE MayStill' /\ LooksAlone'
  <2>1. Others(s) /\ calls'[s].at = "sent" /\ UNCHANGED <<tenants, met>>
    BY <1>0, <1>2, SendShape DEF Sends, server
  <2>2. QED BY <1>0, <2>1, NoNewLook DEF Others, Looked
<1>3. ASSUME NEW s \in Slots, Answer(s) PROVE MayStill' /\ LooksAlone'
  <2>1. Others(s) /\ calls'[s] = NoCall /\ UNCHANGED <<tenants, met>> /\ NoCall.at = "idle"
    BY <1>0, <1>3, AnswerShape DEF server, NoCall
  <2>2. QED BY <1>0, <2>1, NoNewLook DEF Others, Looked
<1>4. ASSUME NEW s \in Slots, Lose(s) PROVE MayStill' /\ LooksAlone'
  <2>1. /\ Others(s) /\ UNCHANGED <<tenants, met>> /\ NoCall.at = "idle"
        /\ \/ calls'[s] = NoCall
           \/ /\ calls'[s].at = calls[s].at /\ calls'[s].op = calls[s].op /\ calls'[s].on = calls[s].on
              /\ calls'[s].to = calls[s].to
    BY <1>0, <1>4, LoseShape DEF server, NoCall
  <2>2. QED BY <1>0, <2>1, NoNewLook DEF Others, Looked
<1>5. ASSUME NEW s \in Slots, NEW t \in Tenants, NEW to, Other(s, "tenantStatus", t, to) PROVE MayStill' /\ LooksAlone'
  <2>1. Others(s) /\ calls'[s].at = "sent" /\ UNCHANGED <<tenants, met>>
    BY <1>0, <1>5, OtherShape DEF server, ghost
  <2>2. QED BY <1>0, <2>1, NoNewLook DEF Others, Looked
<1>6. CASE Reopen
  <2>1. UNCHANGED <<tenants, met>>
    BY <1>6 DEF Reopen, server
  <2>2. \A s \in Slots : /\ calls'[s].at = calls[s].at /\ calls'[s].op = calls[s].op /\ calls'[s].on = calls[s].on
                         /\ calls'[s].to = calls[s].to
    BY <1>0, <1>6, ReopenShape
  <2>3. QED BY <1>0, <2>1, <2>2, NoNewLook DEF Looked
<1>7. QED BY <1>0, <1>1, <1>2, <1>3, <1>4, <1>5, <1>6, Kinds, CheckLooks, WriteLooks

(* An undisturbed page: calls other than s are as they were.               *)
LEMMA OneEachStep == ASSUME StatusInv, PageNext PROVE OneEach'
<1>0. TypeInv /\ LooksAlone /\ OneEach
  BY DEF StatusInv
<1>1. visit' = visit
  <2>1. CASE UNCHANGED <<visit, server, calls, met>>
    BY <2>1
  <2>2. CASE \E s \in Slots : Sends(s) \/ Check(s) \/ Write(s) \/ Answer(s) \/ Lose(s)
    BY <2>2 DEF Sends, Check, Write, Answer, Lose
  <2>3. CASE \/ \E s \in Slots, t \in Tenants, to \in visit.aims : Other(s, "tenantStatus", t, to)
             \/ Reopen
    BY <2>3 DEF Other, Reopen
  <2>4. QED BY <1>0, <2>1, <2>2, <2>3, Kinds
<1>2. SUFFICES ASSUME Calm PROVE Undisturbed'
  BY <1>1 DEF OneEach, Calm
<1>3. Undisturbed /\ ~visit.loses /\ ~visit.others /\ ~visit.leaves
  BY <1>0, <1>2 DEF OneEach, Calm
<1>4. \A s \in Slots : calls[s] = NoCall => calls[s].op = "none" /\ calls[s].at = "idle"
  BY <1>0, CallFacts
<1>n. "none" \notin Ops /\ NoCall.at = "idle" /\ NoCall.op = "none"
  <2>1. NoCall.at = "idle"
    BY DEF NoCall
  <2>2. NoCall.op = "none"
    BY DEF NoCall
  <2>3. QED BY <2>1, <2>2 DEF Ops
<1>5. CASE UNCHANGED <<visit, server, calls, met>>
  BY <1>3, <1>5 DEF Undisturbed, server, Looked
<1>6. ASSUME NEW s \in Slots, Sends(s)
      PROVE  Undisturbed'
  <2>1. PICK op \in Ops : \E on, to : Send(s, op, on, to) /\ CanSubmit(op) /\ UNCHANGED <<visit, server, met, query, excused>>
    BY <1>6 DEF Sends
  <2>2. /\ Others(s) /\ calls'[s].op = op /\ calls'[s].at = "sent" /\ calls'[s].heard = "page"
        /\ UNCHANGED <<tenants, met>>
    BY <1>0, <2>1, SendShape DEF server
  <2>3. \A o \in Slots : calls[o].op # op
    BY <1>3, <1>4, <1>n, <2>1 DEF Undisturbed, CanSubmit, Pending
  <2>4. QED BY <1>3, <2>2, <2>3 DEF Undisturbed, Others, Looked
<1>7. ASSUME NEW s \in Slots, Check(s)
      PROVE  Undisturbed'
  <2>1. /\ calls[s] \in Call /\ Same(s) /\ Others(s) /\ calls[s] # NoCall
        /\ calls'[s].at = "checked" => MayGoOn(calls[s])
        /\ met' = IF calls'[s].at = "checked" /\ calls[s].on \in Tenants /\ Meets(s) THEN met \cup {calls[s].on} ELSE met
        /\ tenants' = tenants
    BY <1>0, <1>7, CheckShape, CallFacts DEF Check, server
  <2>2. Looked(s)' => calls[s].op \in TenantOps /\ (calls[s].op = "createTenant" <=> tenants[calls[s].on] = "none")
    <3>1. calls[s].on \in Tenants => calls[s].op \in TenantOps
      BY <2>1, Constants DEF Call
    <3>2. CASE calls[s].op = "tenantStatus"
      BY <2>1, <3>1, <3>2 DEF Looked, Same, MayGoOn, TenantMayTurn, Exists
    <3>3. CASE calls[s].op = "createTenant"
      BY <2>1, <3>1, <3>3 DEF Looked, Same, MayGoOn, TenantMayBeMade, Exists
    <3>4. QED BY <2>1, <3>1, <3>2, <3>3 DEF Looked, Same, TenantOps
  <2>3. ~(calls'[s].at = "checked" /\ calls[s].on \in Tenants /\ Meets(s))
    <3>1. SUFFICES ASSUME calls'[s].at = "checked", calls[s].on \in Tenants,
                          NEW o \in Slots \ {s}, calls[o].at = "checked", calls[o].on = calls[s].on
                   PROVE  FALSE
      BY DEF Meets
    <3>2. Looked(o) /\ Looked(s)' /\ calls[o] # NoCall
      BY <1>n, <2>1, <3>1 DEF Looked, Same
    <3>3. calls[o].op \in TenantOps
      BY <1>0, <3>1, <3>2, CallFacts, Constants DEF Call
    <3>4. calls[o].op = calls[s].op
      BY <1>3, <2>2, <3>1, <3>2, <3>3 DEF Undisturbed, TenantOps
    <3>5. QED BY <1>3, <3>1, <3>2, <3>4 DEF Undisturbed
  <2>4. QED BY <1>3, <2>1, <2>2, <2>3 DEF Undisturbed, Same, Others, Looked
<1>8. ASSUME NEW s \in Slots, Write(s)
      PROVE  Undisturbed'
  <2>1. calls[s] # NoCall /\ Same(s) /\ Others(s) /\ calls'[s].at = "answer" /\ met' = met
    BY <1>0, <1>8, WriteShape, CallFacts
  <2>2. ASSUME NEW x \in Slots, Looked(x)' PROVE Looked(x) /\ calls'[x] = calls[x] /\ tenants'[calls[x].on] = tenants[calls[x].on]
    <3>1. x # s /\ calls'[x] = calls[x] /\ Looked(x)
      BY <2>1, <2>2 DEF Looked, Others
    <3>2. ASSUME tenants'[calls[x].on] # tenants[calls[x].on] PROVE FALSE
      <4>1. Looked(s) /\ calls[s].on = calls[x].on
        BY <1>0, <1>8, <3>1, <3>2, TenantWritten DEF Looked
      <4>2. QED BY <1>0, <1>3, <3>1, <4>1 DEF Undisturbed, LooksAlone
    <3>3. QED BY <3>1, <3>2
  <2>3. QED BY <1>3, <2>1, <2>2 DEF Undisturbed, Same, Others
<1>9. ASSUME NEW s \in Slots, Answer(s)
      PROVE  Undisturbed'
  <2>1. Others(s) /\ calls'[s] = NoCall /\ UNCHANGED <<tenants, met>>
    BY <1>0, <1>9, AnswerShape DEF server
  <2>2. ASSUME NEW x \in Slots, NEW o \in Slots, calls'[x] # NoCall, calls'[o].op = calls'[x].op PROVE x = o
    <3>1. x # s /\ calls'[x] = calls[x] /\ calls[x] \in Call
      BY <1>0, <2>1, <2>2, CallFacts DEF Others
    <3>2. calls[x].op \in Ops
      BY <3>1 DEF Call, AnyCall
    <3>3. o # s
      BY <1>n, <2>1, <2>2, <3>1, <3>2
    <3>4. QED BY <1>3, <2>1, <2>2, <3>1, <3>3 DEF Undisturbed, Others
  <2>3. QED BY <1>3, <1>n, <2>1, <2>2 DEF Undisturbed, Others, Looked
<1>10. \A s \in Slots : ~Lose(s)
  BY <1>0, <1>3, LoseShape DEF Undisturbed
<1>11. \A s \in Slots, t \in Tenants, to \in visit.aims : ~Other(s, "tenantStatus", t, to)
  BY <1>3 DEF Undisturbed, Other
<1>12. ~Reopen
  BY <1>3 DEF Undisturbed, Reopen
<1>13. QED BY <1>0, <1>5, <1>6, <1>7, <1>8, <1>9, <1>10, <1>11, <1>12, Kinds
-----------------------------------------------------------------------------
(* The pages beside the log-ins: what they do is a step of the pages.      *)
LEMMA NextPage == ASSUME [Next]_vars PROVE PageNext \/ UNCHANGED pageVars
BY DEF Next, vars, PageNext

LEMMA InitTypes == Init => TypeInv
<1> SUFFICES ASSUME PagesInit PROVE TypeInv
  BY DEF Init
<1>1. RowsOK
  <2>1. tenants \in [Tenants -> Statuses \cup {"none"}]
    BY DEF PagesInit, Statuses
  <2>2. accounts \in [Accounts -> OnOff \cup {"none"}]
    BY DEF PagesInit, OnOff
  <2>3. QED BY <2>1, <2>2 DEF PagesInit, RowsOK
<1>2. AuthOK /\ ViewOK /\ DialogOK /\ GhostOK
  BY Constants DEF PagesInit, AuthOK, ViewOK, DialogOK, GhostOK
<1>3. QueryOK
  BY Constants DEF PagesInit, QueryOK, NoData, NoFetch, Data
<1>4. CallsOK
  BY DEF PagesInit, CallsOK
<1>5. QED BY <1>1, <1>2, <1>3, <1>4 DEF TypeInv

LEMMA InitStatus == Init => StatusInv
<1> SUFFICES ASSUME Init PROVE StatusInv
  OBVIOUS
<1>1. TypeInv
  BY InitTypes
<1>2. \A s \in Slots : calls[s] = NoCall
  BY DEF Init, PagesInit
<1>3. \A s \in Slots : ~Looked(s)
  BY <1>1, <1>2, CallFacts DEF Looked
<1>4. met = {}
  BY DEF Init, PagesInit
<1>5. QED BY <1>1, <1>2, <1>3, <1>4 DEF StatusInv, MayStill, LooksAlone, OneEach, Undisturbed

LEMMA StillTypes == ASSUME TypeInv, UNCHANGED pageVars PROVE TypeInv'
BY Kept DEF pageVars, view, TypeInv

LEMMA StepStatus == ASSUME StatusInv, [Next]_vars PROVE StatusInv'
<1>1. CASE PageNext
  BY <1>1, StepTypes, LooksStep, OneEachStep DEF StatusInv
<1>2. CASE UNCHANGED pageVars
  <2>1. TypeInv'
    BY <1>2, StillTypes DEF StatusInv
  <2>2. UNCHANGED <<visit, tenants, calls, met>>
    BY <1>2 DEF pageVars, server, ghost
  <2>3. MayStill' /\ LooksAlone'
    BY <2>2, NoNewLook DEF StatusInv, Looked
  <2>4. OneEach'
    BY <2>2 DEF StatusInv, OneEach, Undisturbed, Calm, Looked
  <2>5. QED BY <2>1, <2>3, <2>4 DEF StatusInv
<1>3. QED BY <1>1, <1>2, NextPage

(* An archived tenant stays archived, unless two handlers were between      *)
(* their look at it and their write (the handler looks in one statement and *)
(* writes in another, superadmin.ts:94); and on a page that hears its        *)
(* answers, is not left and has no other superadmin beside it, two never    *)
(* are.                                                                     *)
THEOREM ArchivedStays == Spec => ArchivedForGood
<1>1. StatusInv /\ [Next]_vars =>
          [/\ \A t \in Tenants \ met : tenants[t] = "archived" => tenants'[t] = "archived"
           /\ visit.loses \/ visit.others \/ visit.leaves \/ met' = {}]_pageVars
  <2> SUFFICES ASSUME StatusInv, [Next]_vars, ~UNCHANGED pageVars
               PROVE  /\ \A t \in Tenants \ met : tenants[t] = "archived" => tenants'[t] = "archived"
                      /\ visit.loses \/ visit.others \/ visit.leaves \/ met' = {}
    OBVIOUS
  <2>1. PageNext /\ TypeInv /\ MayStill
    BY NextPage DEF StatusInv
  <2>2. ASSUME NEW t \in Tenants \ met, tenants[t] = "archived", tenants'[t] # "archived"
        PROVE  FALSE
    <3>1. PICK s \in Slots : Write(s)
      <4>1. tenants' # tenants
        BY <2>2
      <4>2. QED BY <2>1, <4>1, Kinds DEF Sends, Check, Answer, Lose, Other, Reopen, server
    <3>2. Looked(s) /\ calls[s].on = t /\ calls[s].op \in TenantOps /\ (calls[s].op = "createTenant" => tenants[t] = "none")
      BY <2>1, <2>2, <3>1, TenantWritten
    <3>3. calls[s].op = "tenantStatus"
      BY <2>2, <3>2 DEF TenantOps
    <3>4. calls[s].to \in Transitions["archived"]
      BY <2>1, <2>2, <3>2, <3>3 DEF MayStill
    <3>5. QED BY <3>4 DEF Transitions
  <2>3. visit.loses \/ visit.others \/ visit.leaves \/ met' = {}
    <3>1. visit' = visit
      BY <2>1, Kinds DEF Sends, Check, Write, Answer, Lose, Other, Reopen
    <3>2. OneEach'
      BY StepStatus DEF StatusInv
    <3>3. QED BY <3>1, <3>2 DEF OneEach, Undisturbed, Calm
  <2>4. QED BY <2>2, <2>3
<1>2. QED BY <1>1, InitStatus, StepStatus, PTL DEF Spec, ArchivedForGood
-----------------------------------------------------------------------------
(* Dialogs.  A call that goes on, or that nobody hears, changes nothing.   *)
LEMMA NobodyNew ==
    ASSUME OneHeard, OwnDialog, UNCHANGED <<dialog, dismissed>>,
           \A s \in Slots : Heard(s)' => Heard(s) /\ calls'[s].op = calls[s].op /\ calls'[s].on = calls[s].on
    PROVE  OneHeard' /\ OwnDialog'
BY DEF OneHeard, OwnDialog

(* A call of op is sent: there was none that is heard.                     *)
LEMMA OnlyOne ==
    ASSUME DialogInv, NEW s \in Slots, NEW op \in Ops, NEW on, NEW to, Send(s, op, on, to), CanSubmit(op)
    PROVE  /\ OneHeard' /\ calls'[s].op = op /\ calls'[s].on = on
           /\ \A o \in Slots \ {s} : calls'[o] = calls[o] /\ (Heard(o)' => Heard(o) /\ calls[o].op # op)
<1>1. /\ Others(s) /\ calls'[s].op = op /\ calls'[s].on = on
  BY SendShape DEF DialogInv
<1>2. \A o \in Slots : Heard(o) => calls[o].op # op
  BY DEF CanSubmit, Pending, Heard
<1>3. \A o \in Slots \ {s} : calls'[o] = calls[o] /\ (Heard(o)' => Heard(o) /\ calls[o].op # op)
  BY <1>1, <1>2 DEF Others, Heard
<1>4. OneHeard'
  BY <1>1, <1>3 DEF DialogInv, OneHeard
<1>5. QED BY <1>1, <1>3, <1>4

(* A dialog is submitted: the call is about its row.                        *)
LEMMA SubmitDialog ==
    ASSUME DialogInv, NEW s \in Slots, NEW op \in Ops, NEW on, Submit(s, op, on),
           dialog[op].on \in {None, on}
    PROVE  OneHeard' /\ OwnDialog'
<1>1. /\ dialog[op] # None /\ dismissed' = dismissed \ {op} /\ dialog' = dialog
      /\ Send(s, op, on, dialog[op].to) /\ CanSubmit(op)
  BY DEF Submit, OnScreen, view
<1>2. /\ OneHeard' /\ calls'[s].op = op /\ calls'[s].on = on
      /\ \A o \in Slots \ {s} : calls'[o] = calls[o] /\ (Heard(o)' => Heard(o) /\ calls[o].op # op)
  BY <1>1, OnlyOne
<1>3. OwnDialog'
  <2>1. SUFFICES ASSUME NEW o \in Slots, Heard(o)', calls'[o].op \notin dismissed' \cup {"tenantStatus"}
                 PROVE  dialog[calls'[o].op] # None /\ dialog[calls'[o].op].on \in {None, calls'[o].on}
    BY <1>1 DEF OwnDialog
  <2>2. CASE o = s
    BY <1>1, <1>2, <2>2
  <2>3. CASE o # s
    BY <1>1, <1>2, <2>1, <2>3 DEF DialogInv, OwnDialog
  <2>4. QED BY <2>2, <2>3
<1>4. QED BY <1>2, <1>3

LEMMA OpenDialog == ASSUME DialogInv, NEW op, NEW on, NEW to, Opens(op, on, to) PROVE OneHeard' /\ OwnDialog'
<1>1. calls' = calls /\ dismissed' = dismissed /\ \A x \in Ops : dialog[x] = None
  BY DEF Opens, Quiet, ghost
<1>2. \A s \in Slots : Heard(s) => calls[s].op \in Ops
  BY CallFacts DEF DialogInv, Heard, Call, AnyCall
<1>3. \A s \in Slots : Heard(s) => calls[s].op \in dismissed \cup {"tenantStatus"}
  BY <1>1, <1>2 DEF DialogInv, OwnDialog
<1>4. QED BY <1>1, <1>3 DEF DialogInv, OneHeard, OwnDialog, Heard

LEMMA DismissDialog == ASSUME DialogInv, NEW op \in Ops, Dismiss(op) PROVE OneHeard' /\ OwnDialog'
<1>1. /\ calls' = calls /\ dialog' = [dialog EXCEPT ![op] = None]
      /\ dismissed' = IF Pending(op) THEN dismissed \cup {op} ELSE dismissed
  BY DEF Dismiss
<1>2. \A s \in Slots : Heard(s) => calls[s].op \in Ops
  BY CallFacts DEF DialogInv, Heard, Call, AnyCall
<1>3. \A s \in Slots : Heard(s) /\ calls[s].op = op => op \in dismissed'
  BY <1>1 DEF Pending, Heard
<1>4. \A x \in Ops \ {op} : dialog'[x] = dialog[x]
  BY <1>1 DEF DialogInv, TypeInv, DialogOK
<1>5. OwnDialog'
  <2>1. SUFFICES ASSUME NEW s \in Slots, Heard(s), calls[s].op \notin dismissed' \cup {"tenantStatus"}
                 PROVE  dialog'[calls[s].op] # None /\ dialog'[calls[s].op].on \in {None, calls[s].on}
    BY <1>1 DEF OwnDialog, Heard
  <2>2. calls[s].op \in Ops \ {op} /\ calls[s].op \notin dismissed
    BY <1>1, <1>2, <1>3, <2>1
  <2>3. QED BY <1>4, <2>1, <2>2 DEF DialogInv, OwnDialog
<1>6. QED BY <1>1, <1>5 DEF DialogInv, OneHeard, Heard

LEMMA AnswerDialog == ASSUME DialogInv, NEW s \in Slots, Answer(s) PROVE OneHeard' /\ OwnDialog'
<1>1. calls[s] \in Call /\ Others(s) /\ calls'[s] = NoCall /\ dismissed' = dismissed
  BY AnswerShape DEF DialogInv
<1>2. \A o \in Slots : Heard(o)' => o # s /\ Heard(o) /\ calls'[o] = calls[o]
  BY <1>1 DEF Heard, Others
<1>3. calls[s] # NoCall
  BY <1>1, CallFacts DEF DialogInv
<1>4. dialog' = dialog \/ (Heard(s) /\ dialog' = [dialog EXCEPT ![calls[s].op] = None])
  BY <1>3 DEF Answer, ShutOut, Heard
<1>5. \A o \in Slots : Heard(o)' => dialog'[calls[o].op] = dialog[calls[o].op]
  <2>1. SUFFICES ASSUME NEW o \in Slots, Heard(o)', Heard(s), dialog' = [dialog EXCEPT ![calls[s].op] = None]
                 PROVE  dialog'[calls[o].op] = dialog[calls[o].op]
    BY <1>4
  <2>2. calls[o].op # calls[s].op
    BY <1>2, <2>1 DEF DialogInv, OneHeard
  <2>3. calls[o].op \in Ops
    BY <1>2, <2>1, CallFacts DEF DialogInv, Heard, Call, AnyCall
  <2>4. QED BY <2>1, <2>2, <2>3 DEF DialogInv, TypeInv, DialogOK
<1>6. QED BY <1>1, <1>2, <1>5 DEF DialogInv, OneHeard, OwnDialog

LEMMA DialogStep == ASSUME DialogInv, PageNext PROVE OneHeard' /\ OwnDialog'
<1>0. TypeInv /\ OneHeard /\ OwnDialog
  BY DEF DialogInv
<1>1. CASE UNCHANGED <<calls, dialog, dismissed>>
  BY <1>0, <1>1, NobodyNew DEF Heard
<1>2. CASE \E k \in visit.keys : Fetch(k) \/ ServeFetch(k) \/ EndFetch(k) \/ LoseFetch(k) \/ Age(k)
  BY <1>1, <1>2 DEF Fetch, ServeFetch, EndFetch, LoseFetch, Age, view, ghost, ShutOut
<1>3. CASE \/ \E tok \in old : EndOld(tok)
           \/ SignIn \/ BackToList \/ CancelStatus \/ Expire
           \/ \E s \in {"tenants", "accounts"} : GoTo(s)
           \/ \E t \in Tenants : SelectTenant(t)
           \/ \E to \in DOMAIN Transitions : AskStatus(to)
  BY <1>1, <1>3 DEF EndOld, SignIn, BackToList, CancelStatus, Expire, GoTo, SelectTenant, AskStatus, view, ghost, ShutOut
<1>4. CASE \E op \in Ops : Dismiss(op)
  BY <1>4, DismissDialog
<1>5. CASE CreateTenant \/ CreateAccount \/ \E a \in Accounts : ChangePassword(a) \/ ToggleStatus(a)
  BY <1>5, OpenDialog DEF CreateTenant, CreateAccount, ChangePassword, ToggleStatus
<1>6. ASSUME NEW s \in Slots, ConfirmStatus(s) PROVE OneHeard' /\ OwnDialog'
  <2>1. /\ "tenantStatus" \in Ops /\ Send(s, "tenantStatus", selected, confirm) /\ CanSubmit("tenantStatus")
        /\ UNCHANGED <<dialog, dismissed>>
    BY <1>6 DEF ConfirmStatus, Ops, ghost
  <2>2. /\ OneHeard' /\ calls'[s].op = "tenantStatus"
        /\ \A o \in Slots \ {s} : calls'[o] = calls[o] /\ (Heard(o)' => Heard(o))
    BY <2>1, OnlyOne
  <2>3. QED BY <1>0, <2>1, <2>2 DEF OwnDialog
<1>7. ASSUME NEW s \in Slots, SubmitPassword(s) \/ SubmitToggle(s) PROVE OneHeard' /\ OwnDialog'
  <2>1. {"changePassword", "accountStatus"} \subseteq Ops
    BY DEF Ops
  <2>2. QED BY <1>7, <2>1, SubmitDialog DEF SubmitPassword, SubmitToggle
<1>8. ASSUME NEW s \in Slots, (\E t \in Tenants : SubmitTenant(s, t)) \/ \E a \in Accounts : SubmitAccount(s, a)
      PROVE  OneHeard' /\ OwnDialog'
  <2>1. PICK op \in {"createTenant", "createAccount"}, on \in Tenants \cup Accounts : Submit(s, op, on)
    BY <1>8 DEF SubmitTenant, SubmitAccount
  <2>2. op \in Ops /\ dialog[op] # None
    BY <2>1 DEF Ops, Submit, OnScreen
  <2>3. dialog[op] = [on |-> None, to |-> "active"]
    BY <1>0, <2>1, <2>2 DEF TypeInv, DialogOK, Named
  <2>4. dialog[op].on = None
    BY <2>3
  <2>5. QED BY <2>1, <2>2, <2>4, SubmitDialog
<1>9. ASSUME NEW s \in Slots, Check(s) \/ Write(s) PROVE OneHeard' /\ OwnDialog'
  <2>1. calls[s] \in Call /\ calls[s] # NoCall /\ Same(s) /\ Others(s)
    BY <1>0, <1>9, CheckShape, WriteShape, CallFacts
  <2>2. UNCHANGED <<dialog, dismissed>>
    BY <1>9 DEF Check, Write, view
  <2>3. QED BY <1>0, <2>1, <2>2, NobodyNew DEF Same, Others, Heard
<1>10. ASSUME NEW s \in Slots, Lose(s) PROVE OneHeard' /\ OwnDialog'
  <2>1. /\ Others(s) /\ UNCHANGED <<dialog, dismissed>> /\ (calls'[s] = NoCall \/ calls'[s].heard = "none")
    BY <1>0, <1>10, LoseShape DEF view
  <2>2. QED BY <1>0, <2>1, NobodyNew DEF Others, Heard
<1>11. ASSUME NEW s \in Slots, NEW t \in Tenants, NEW to, Other(s, "tenantStatus", t, to) PROVE OneHeard' /\ OwnDialog'
  <2>1. Others(s) /\ calls'[s].heard = "none" /\ UNCHANGED <<dialog, dismissed>>
    BY <1>0, <1>11, OtherShape DEF view, ghost
  <2>2. QED BY <1>0, <2>1, NobodyNew DEF Others, Heard
<1>12. CASE Reopen
  <2>1. \A s \in Slots : ~Heard(s)'
    BY <1>0, <1>12, ReopenShape DEF Heard
  <2>2. QED BY <2>1 DEF OneHeard, OwnDialog
<1>13. QED BY <1>2, <1>3, <1>4, <1>5, <1>6, <1>7, <1>8, <1>9, <1>10, <1>11, <1>12, AnswerDialog DEF PageNext, PageSteps, PageWrites

LEMMA InitDialog == Init => DialogInv
<1> SUFFICES ASSUME Init PROVE DialogInv
  OBVIOUS
<1>1. \A s \in Slots : calls[s] = NoCall
  BY DEF Init, PagesInit
<1>2. QED BY <1>1, InitTypes DEF DialogInv, OneHeard, OwnDialog, Heard

LEMMA StepDialog == ASSUME DialogInv, [Next]_vars PROVE DialogInv'
<1>1. CASE PageNext
  BY <1>1, StepTypes, DialogStep DEF DialogInv
<1>2. CASE UNCHANGED pageVars
  <2>1. UNCHANGED <<dialog, dismissed, calls>>
    BY <1>2 DEF pageVars, view, ghost
  <2>2. QED BY <1>2, <2>1, StillTypes, NobodyNew DEF DialogInv, Heard
<1>3. QED BY <1>1, <1>2, NextPage

(* A success closes the dialog of the row it is about and no other one: a   *)
(* dialog takes no second call while its first is under way, and one that   *)
(* was opened meanwhile is for an operation that was dismissed.             *)
THEOREM OwnSuccess == Spec => SuccessIsItsOwn
<1>1. DialogInv /\ [Next]_vars =>
        [\A s \in Slots, op \in Ops \ dismissed :
           calls[s].op = op /\ calls[s].heard = "page" /\ calls[s].at = "answer" /\ calls'[s] = NoCall
           /\ dialog[op] # None /\ dialog'[op] = None
             => dialog[op].on \in {None, calls[s].on}]_pageVars
  <2> SUFFICES ASSUME DialogInv, NEW s \in Slots, NEW op \in Ops \ dismissed, calls[s].op = op, calls[s].heard = "page",
                      calls[s].at = "answer", dialog[op] # None
               PROVE  dialog[op].on \in {None, calls[s].on}
    OBVIOUS
  <2>1. Heard(s)
    BY CallFacts DEF DialogInv, Heard
  <2>2. op # "tenantStatus"
    BY DEF DialogInv, TypeInv, DialogOK, Named
  <2>3. QED BY <2>1, <2>2 DEF DialogInv, OwnDialog
<1>2. QED BY <1>1, InitDialog, StepDialog, PTL DEF Spec, SuccessIsItsOwn
-----------------------------------------------------------------------------
(* What is fresh.  An answer is on its way that will invalidate the key.   *)
Tells(s, k) == calls[s].at = "answer" /\ calls[s].says = "ok" /\ k \in Invalidates(calls[s].op, calls[s].on)

(* An answer that is still to come stays so.                                *)
LEMMA StillTold == ASSUME NEW k, \A s \in Slots : Tells(s, k) => Tells(s, k)' PROVE ToldSoon(k) => ToldSoon(k)'
BY DEF ToldSoon, Tells

(* A key whose data and freshness stay is as current as before.             *)
LEMMA KeyKept ==
    ASSUME FreshInv, UNCHANGED server, NEW k \in Watched, ToldSoon(k) => ToldSoon(k)',
           \/ cache'[k].data = None \/ cache'[k].stale
           \/ cache'[k].data = cache[k].data /\ cache'[k].stale = cache[k].stale,
           fetch'[k].at # "answer" \/ fetch'[k] = fetch[k]
    PROVE  Current(k)' /\ Coming(k)'
<1>1. AnswerTo(k)' = AnswerTo(k)
  BY DEF AnswerTo, TenantList, AccountList, Detail, server
<1>2. Current(k) /\ Coming(k)
  BY DEF FreshInv, KeysFresh
<1>3. Current(k)'
  BY <1>1, <1>2 DEF Current
<1>4. Coming(k)'
  BY <1>1, <1>2 DEF Coming
<1>5. QED BY <1>3, <1>4

(* An invalidation leaves nothing fresh that is not current.                *)
LEMMA InvalidateKeeps ==
    ASSUME FreshInv, NEW K \in SUBSET Keys, NEW tok \in Tokens, Invalidate(K, tok), UNCHANGED server,
           NEW k \in Watched', k \notin K => (ToldSoon(k) => ToldSoon(k)')
    PROVE  Current(k)' /\ Coming(k)'
<1>1. k \in Keys /\ k \in Watched
  BY DEF Watched, Invalidate
<1> DEFINE Refetched == {j \in K : InUse(j) /\ (fetch[j].at = "idle" \/ Replaces(j))}
<1>2. /\ cache' = [j \in Keys |-> IF j \in K /\ cache[j].data # None THEN [cache[j] EXCEPT !.stale = TRUE] ELSE cache[j]]
      /\ fetch' = [j \in Keys |-> IF j \in Refetched THEN StartOf(j, tok) ELSE fetch[j]]
      /\ excused' = excused \cup {j \in K : fetch[j].at # "idle" /\ ~(InUse(j) /\ cache[j].data # None)}
  BY DEF Invalidate
<1>3. cache[k] \in [data: Data, stale: BOOLEAN, failed: BOOLEAN]
  BY <1>1 DEF FreshInv, TypeInv, QueryOK
<1>4. CASE k \notin K
  <2>1. cache'[k] = cache[k] /\ fetch'[k] = fetch[k]
    BY <1>1, <1>2, <1>4
  <2>2. QED BY <1>1, <1>4, <2>1, KeyKept
<1>5. CASE k \in K
  <2>1. cache'[k].data = None \/ cache'[k].stale
    <3>1. CASE cache[k].data # None
      <4>1. cache'[k] = [cache[k] EXCEPT !.stale = TRUE]
        BY <1>1, <1>2, <1>5, <3>1
      <4>2. QED BY <1>3, <4>1
    <3>2. CASE cache[k].data = None
      BY <1>1, <1>2, <3>2
    <3>3. QED BY <3>1, <3>2
  <2>2. fetch'[k].at # "answer"
    <3>1. CASE k \in Refetched
      <4>1. fetch'[k] = StartOf(k, tok)
        BY <1>1, <1>2, <3>1
      <4>2. QED BY <4>1 DEF StartOf
    <3>2. CASE k \notin Refetched
      <4>1. fetch'[k] = fetch[k]
        BY <1>1, <1>2, <3>2
      <4>2. fetch[k].at = "idle"
        <5>1. k \notin excused'
          BY DEF Watched
        <5>2. ~(fetch[k].at # "idle" /\ ~(InUse(k) /\ cache[k].data # None))
          BY <1>2, <1>5, <5>1
        <5>3. QED BY <1>5, <3>2, <5>2 DEF Replaces
      <4>3. QED BY <4>1, <4>2
    <3>3. QED BY <3>1, <3>2
  <2>3. QED BY <2>1, <2>2 DEF Current, Coming
<1>6. QED BY <1>4, <1>5

(* A new tenant is found in the list.                                      *)
LEMMA FoundKept ==
    ASSUME Found, UNCHANGED visit,
           "createTenant" \in visit.ops =>
             \A t \in Tenants : /\ tenants[t] # "none" => tenants'[t] # "none"
                                /\ Looks(t)' => Looks(t) \/ tenants'[t] # "none",
           cache'["tenants"].data \in {cache["tenants"].data, fetch["tenants"].data, None},
           fetch'["tenants"].data \in {fetch["tenants"].data, None, tenants'}
    PROVE  Found'
<1> SUFFICES ASSUME "createTenant" \in visit.ops
             PROVE  /\ \A t \in Tenants : Looks(t)' => tenants'[t] # "none"
                    /\ AreThere(cache["tenants"].data)' /\ AreThere(fetch["tenants"].data)'
  BY DEF Found
<1>1. \A t \in Tenants : Looks(t)' => tenants'[t] # "none"
  BY DEF Found
<1>2. \A list : AreThere(list) => (list # None => \A t \in Tenants : list[t] # "none" => tenants'[t] # "none")
  BY DEF AreThere
<1>3. AreThere(cache["tenants"].data)'
  BY <1>2 DEF Found, AreThere
<1>4. AreThere(fetch["tenants"].data)'
  BY <1>2 DEF Found, AreThere
<1>5. QED BY <1>1, <1>3, <1>4

(* The keys of the page.                                                   *)
LEMMA UsedTenant == ASSUME TypeInv, NEW t \in Tenants, InUse(t) PROVE selected = t
<1>1. t \notin {"tenants", "accounts", "options"}
  BY Constants DEF Lists
<1>2. QED BY <1>1 DEF InUse, UsesDetail

(* It fetches no tenant but the selected one.                               *)
LEMMA InvalidateFinds ==
    ASSUME FreshInv, NEW K \in SUBSET Keys, NEW tok \in Tokens, Invalidate(K, tok), UNCHANGED <<visit, server, selected>>
    PROVE  Found'
<1> DEFINE Refetched == {j \in K : InUse(j) /\ (fetch[j].at = "idle" \/ Replaces(j))}
<1>1. /\ cache' = [j \in Keys |-> IF j \in K /\ cache[j].data # None THEN [cache[j] EXCEPT !.stale = TRUE] ELSE cache[j]]
      /\ fetch' = [j \in Keys |-> IF j \in Refetched THEN StartOf(j, tok) ELSE fetch[j]]
  BY DEF Invalidate
<1>2. cache \in [Keys -> [data: Data, stale: BOOLEAN, failed: BOOLEAN]]
  BY DEF FreshInv, TypeInv, QueryOK
<1>3. \A j \in Keys : cache'[j].data = cache[j].data
  <2>1. SUFFICES ASSUME NEW j \in Keys PROVE cache'[j].data = cache[j].data
    OBVIOUS
  <2>2. [cache[j] EXCEPT !.stale = TRUE].data = cache[j].data
    BY <1>2
  <2>3. cache'[j] \in {cache[j], [cache[j] EXCEPT !.stale = TRUE]}
    BY <1>1
  <2>4. QED BY <2>2, <2>3
<1>4. ASSUME NEW j \in Keys PROVE fetch'[j] = fetch[j] \/ (InUse(j) /\ fetch'[j] = StartOf(j, tok))
  <2>1. CASE j \in Refetched
    <3>1. InUse(j)
      BY <2>1
    <3>2. fetch'[j] = StartOf(j, tok)
      BY <1>1, <2>1
    <3>3. QED BY <3>1, <3>2
  <2>2. CASE j \notin Refetched
    <3>1. fetch'[j] = fetch[j]
      BY <1>1, <2>2
    <3>2. QED BY <3>1
  <2>3. QED BY <2>1, <2>2
<1>5. \A j \in Keys : fetch'[j] = fetch[j] \/ fetch'[j].data = None
  BY <1>4 DEF StartOf
<1>6. \A t \in Tenants : Looks(t)' => Looks(t)
  <2>1. SUFFICES ASSUME NEW t \in Tenants, Looks(t)' PROVE Looks(t)
    OBVIOUS
  <2>2. t \in Keys
    BY DEF Keys
  <2>3. CASE fetch'[t] = fetch[t]
    BY <1>3, <2>1, <2>2, <2>3 DEF Looks
  <2>4. CASE InUse(t)
    BY <2>4, UsedTenant DEF FreshInv, Looks
  <2>5. QED BY <1>4, <2>2, <2>3, <2>4
<1>7. "tenants" \in Keys
  BY DEF Keys, Lists
<1>8. QED BY <1>3, <1>5, <1>6, <1>7, FoundKept DEF FreshInv, server

(* Rows that are there stay there.                                         *)
LEMMA RowsLast == ASSUME TypeInv, NEW s \in Slots, Write(s), NEW t \in Tenants, tenants[t] # "none" PROVE tenants'[t] # "none"
<1>1. calls[s].to \in Statuses
  BY WriteShape DEF Call, AnyCall
<1>2. tenants'[t] = tenants[t] \/ tenants'[t] = calls[s].to
  BY TenantWritten
<1>3. QED BY <1>1, <1>2 DEF Statuses

(* A step of one query that changes nothing but the query and the view.    *)
Good == KeysFresh /\ Unheard /\ Found /\ InVisit

(* One step of one query.                                                   *)
LEMMA QueryFresh ==
    ASSUME FreshInv, NEW k \in Keys, Fetch(k) \/ ServeFetch(k) \/ EndFetch(k) \/ LoseFetch(k) \/ Age(k)
    PROVE  Good'
<1> DEFINE Entry == [data: Data, stale: BOOLEAN, failed: BOOLEAN]
<1> DEFINE Asked == [at: {"idle", "sent", "answer"}, data: Data, token: Tokens]
<1>0. /\ TypeInv /\ KeysFresh /\ Unheard /\ Found /\ InVisit
      /\ cache \in [Keys -> Entry] /\ fetch \in [Keys -> Asked]
      /\ NoFetch.data = None /\ NoFetch.at = "idle"
  BY DEF FreshInv, TypeInv, QueryOK, NoFetch
<1>1. UNCHANGED <<visit, server, dialog, calls, excused, selected>>
  BY DEF Fetch, ServeFetch, EndFetch, LoseFetch, Age, view, ghost, ShutOut
<1>2. \A j \in Keys \ {k} : cache'[j] = cache[j] /\ fetch'[j] = fetch[j]
  <2>1. CASE Fetch(k) \/ LoseFetch(k)
    BY <1>0, <2>1 DEF Fetch, LoseFetch
  <2>2. CASE ServeFetch(k) \/ Age(k)
    BY <1>0, <2>2 DEF ServeFetch, Age
  <2>3. CASE EndFetch(k)
    BY <1>0, <2>3 DEF EndFetch
  <2>4. QED BY <2>1, <2>2, <2>3
<1>3. /\ cache'[k].data \in {cache[k].data, fetch[k].data}
      /\ cache'[k].data # cache[k].data => fetch[k].at = "answer"
      /\ \/ cache'[k].stale
         \/ cache'[k].data = cache[k].data /\ cache'[k].stale = cache[k].stale
         \/ fetch[k].at = "answer" /\ fetch[k].data # None /\ cache'[k].data = fetch[k].data
      /\ fetch'[k].data \in {fetch[k].data, None, AnswerTo(k)}
      /\ fetch'[k].at = "answer" => fetch'[k] = fetch[k] \/ fetch'[k].data \in {None, AnswerTo(k)}
      /\ fetch'[k].at # "idle" => fetch[k].at # "idle" \/ InUse(k)
  <2>1. CASE Fetch(k)
    <3>1. fetch'[k] = StartOf(k, token) /\ InUse(k)
      BY <1>0, <2>1 DEF Fetch
    <3>2. fetch'[k].at = "sent" /\ fetch'[k].data = None
      BY <3>1 DEF StartOf
    <3>3. cache'[k].data = cache[k].data /\ cache'[k].stale = cache[k].stale
      BY <1>0, <2>1 DEF Fetch
    <3>4. QED BY <3>1, <3>2, <3>3
  <2>2. CASE ServeFetch(k)
    <3>1. cache' = cache /\ fetch[k].at = "sent"
      BY <2>2 DEF ServeFetch
    <3>2. fetch'[k].data \in {None, AnswerTo(k)}
      BY <1>0, <2>2 DEF ServeFetch
    <3>3. QED BY <3>1, <3>2
  <2>3. CASE EndFetch(k)
    <3>1. fetch'[k] = NoFetch /\ fetch[k].at = "answer"
      BY <1>0, <2>3 DEF EndFetch
    <3>2. CASE fetch[k].data # None
      <4>1. cache'[k] = [data |-> fetch[k].data, stale |-> FALSE, failed |-> FALSE]
        BY <1>0, <2>3, <3>2 DEF EndFetch
      <4>2. cache'[k].data = fetch[k].data
        BY <4>1
      <4>3. fetch'[k].data = None /\ fetch'[k].at = "idle"
        BY <1>0, <3>1
      <4>4. QED BY <3>1, <3>2, <4>2, <4>3
    <3>3. CASE fetch[k].data = None
      <4>1. cache' = [cache EXCEPT ![k].failed = TRUE, ![k].stale = TRUE]
        BY <2>3, <3>3 DEF EndFetch
      <4>2. cache'[k].data = cache[k].data /\ cache'[k].stale
        BY <1>0, <4>1
      <4>3. QED BY <1>0, <3>1, <4>2
    <3>4. QED BY <3>2, <3>3
  <2>4. CASE LoseFetch(k)
    <3>1. fetch'[k] = NoFetch
      BY <1>0, <2>4 DEF LoseFetch
    <3>2. cache'[k].data = cache[k].data /\ cache'[k].stale
      BY <1>0, <2>4 DEF LoseFetch
    <3>3. QED BY <1>0, <3>1, <3>2
  <2>5. CASE Age(k)
    <3>1. fetch' = fetch
      BY <2>5 DEF Age
    <3>2. cache'[k].data = cache[k].data /\ cache'[k].stale
      BY <1>0, <2>5 DEF Age
    <3>3. QED BY <3>1, <3>2
  <2>6. QED BY <2>1, <2>2, <2>3, <2>4, <2>5
<1>4. /\ Watched' = Watched
      /\ \A j : (ToldSoon(j)' <=> ToldSoon(j)) /\ AnswerTo(j)' = AnswerTo(j)
  BY <1>1 DEF Watched, ToldSoon, AnswerTo, TenantList, AccountList, Detail, server
<1>5. KeysFresh'
  <2>1. SUFFICES ASSUME NEW j \in Watched PROVE Current(j)' /\ Coming(j)'
    BY <1>4 DEF KeysFresh
  <2>2. j \in Keys /\ Current(j) /\ Coming(j)
    BY <1>0 DEF Watched, KeysFresh
  <2>3. CASE j # k
    BY <1>2, <1>4, <2>2, <2>3 DEF Current, Coming
  <2>4. CASE j = k
    <3>1. Current(k)'
      BY <1>3, <1>4, <2>2, <2>4 DEF Current, Coming
    <3>2. Coming(k)'
      BY <1>3, <1>4, <2>2, <2>4 DEF Coming
    <3>3. QED BY <2>4, <3>1, <3>2
  <2>5. QED BY <2>3, <2>4
<1>6. Found'
  <2>1. \A t \in Tenants : Looks(t)' => Looks(t)
    <3>1. SUFFICES ASSUME NEW t \in Tenants, Looks(t)' PROVE Looks(t)
      OBVIOUS
    <3>2. t \in Keys
      BY DEF Keys
    <3>3. CASE t # k
      BY <1>1, <1>2, <3>1, <3>2, <3>3 DEF Looks
    <3>4. CASE t = k
      BY <1>0, <1>1, <1>3, <3>1, <3>4, UsedTenant DEF Looks
    <3>5. QED BY <3>3, <3>4
  <2>2. "tenants" \in Keys /\ AnswerTo("tenants") = tenants /\ tenants' = tenants
    BY <1>1, Constants DEF Keys, Lists, AnswerTo, TenantList, server
  <2>3. /\ cache'["tenants"].data \in {cache["tenants"].data, fetch["tenants"].data, None}
        /\ fetch'["tenants"].data \in {fetch["tenants"].data, None, tenants'}
    BY <1>2, <1>3, <2>2
  <2>4. visit' = visit
    BY <1>1
  <2>5. QED BY <1>0, <2>1, <2>2, <2>3, <2>4, FoundKept
<1>7. Unheard' /\ InVisit'
  BY <1>0, <1>1 DEF Unheard, InVisit
<1>8. QED BY <1>5, <1>6, <1>7 DEF Good

(* Steps of the view leave the queries and the calls alone.                *)
LEMMA ViewFresh ==
    ASSUME FreshInv, UNCHANGED <<visit, server, cache, fetch, calls, excused>>,
           \A t \in Tenants : selected' = t => selected = t \/ ("createTenant" \in visit.ops => tenants[t] # "none"),
           dialog'["createTenant"] # None => dialog["createTenant"] # None \/ "createTenant" \in visit.ops
    PROVE  Good'
<1>0. KeysFresh /\ Unheard /\ Found /\ InVisit
  BY DEF FreshInv
<1>1. KeysFresh'
  BY <1>0 DEF KeysFresh, Watched, Current, Coming, ToldSoon, AnswerTo, TenantList, AccountList, Detail, server
<1>2. Unheard' /\ InVisit'
  BY <1>0 DEF Unheard, InVisit
<1>3. Found'
  <2>1. tenants' = tenants
    BY DEF server
  <2>2. "createTenant" \in visit.ops => \A t \in Tenants : Looks(t)' => Looks(t) \/ tenants'[t] # "none"
    BY <2>1 DEF Looks
  <2>3. QED BY <1>0, <2>1, <2>2, FoundKept
<1>4. QED BY <1>1, <1>2, <1>3 DEF Good

LEMMA ViewStepsFresh ==
    ASSUME FreshInv, \/ \E tok \in old : EndOld(tok)
                     \/ BackToList \/ CancelStatus \/ Expire
                     \/ \E s \in {"tenants", "accounts"} : GoTo(s)
                     \/ \E t \in Tenants : SelectTenant(t)
                     \/ \E to \in DOMAIN Transitions : AskStatus(to)
    PROVE  Good'
<1>1. CASE \/ \E tok \in old : EndOld(tok)
           \/ CancelStatus \/ Expire
           \/ \E s \in {"tenants", "accounts"} : GoTo(s)
           \/ \E to \in DOMAIN Transitions : AskStatus(to)
  <2>1. UNCHANGED <<visit, server, cache, fetch, calls, excused, selected, dialog>>
    BY <1>1 DEF EndOld, CancelStatus, Expire, GoTo, AskStatus, ShutOut, view, query, ghost
  <2>2. QED BY <2>1, ViewFresh
<1>2. CASE BackToList
  <2>1. UNCHANGED <<visit, server, cache, fetch, calls, excused, dialog>> /\ selected' = None
    BY <1>2 DEF BackToList, query, ghost
  <2>2. QED BY <2>1, ViewFresh, Constants
<1>3. ASSUME NEW t \in Tenants, SelectTenant(t) PROVE Good'
  <2>1. UNCHANGED <<visit, server, cache, fetch, calls, excused, dialog>> /\ selected' = t /\ Listed(t)
    BY <1>3 DEF SelectTenant, query, ghost
  <2>2. "createTenant" \in visit.ops => tenants[t] # "none"
    <3>1. SUFFICES ASSUME "createTenant" \in visit.ops PROVE tenants[t] # "none"
      OBVIOUS
    <3>2. "tenants" \in visit.keys
      BY <2>1, <3>1, Constants DEF Listed, FreshInv, TypeInv, RowsOK
    <3>3. AreThere(cache["tenants"].data)
      BY <3>1 DEF FreshInv, Found
    <3>4. QED BY <2>1, <3>2, <3>3 DEF Listed, AreThere
  <2>3. QED BY <2>1, <2>2, ViewFresh
<1>4. QED BY <1>1, <1>2, <1>3

LEMMA DialogStepsFresh ==
    ASSUME FreshInv, \/ \E op \in Ops : Dismiss(op)
                     \/ CreateTenant \/ CreateAccount \/ \E a \in Accounts : ChangePassword(a) \/ ToggleStatus(a)
    PROVE  Good'
<1>0. DOMAIN dialog = Ops /\ "createTenant" \in Ops
  BY DEF FreshInv, TypeInv, DialogOK, Ops
<1>1. ASSUME NEW op \in Ops, Dismiss(op) PROVE Good'
  <2>1. UNCHANGED <<visit, server, cache, fetch, calls, excused, selected>> /\ dialog' = [dialog EXCEPT ![op] = None]
    BY <1>1 DEF Dismiss, query
  <2>2. dialog'["createTenant"] # None => dialog["createTenant"] # None
    BY <1>0, <2>1
  <2>3. QED BY <2>1, <2>2, ViewFresh
<1>2. ASSUME NEW op, NEW on, NEW to, Opens(op, on, to) PROVE Good'
  <2>1. /\ UNCHANGED <<visit, server, cache, fetch, calls, excused, selected>> /\ op \in visit.ops
        /\ dialog' = [dialog EXCEPT ![op] = [on |-> on, to |-> to]]
    BY <1>2 DEF Opens, query, ghost
  <2>2. dialog'["createTenant"] = dialog["createTenant"] \/ op = "createTenant"
    BY <2>1
  <2>3. QED BY <2>1, <2>2, ViewFresh
<1>3. QED BY <1>1, <1>2 DEF CreateTenant, CreateAccount, ChangePassword, ToggleStatus

(* A log-in invalidates the lists.                                          *)
LEMMA SignInFresh == ASSUME FreshInv, SignIn PROVE Good'
<1>0. KeysFresh /\ Unheard /\ Found /\ InVisit
  BY DEF FreshInv
<1>1. PICK tok \in Tokens : Invalidate({"tenants", "accounts"}, tok)
  BY DEF SignIn
<1>2. UNCHANGED <<visit, server, calls, selected, dialog>>
  BY DEF SignIn, view
<1>3. {"tenants", "accounts"} \in SUBSET Keys
  BY DEF Keys, Lists
<1>4. Found'
  BY <1>1, <1>2, <1>3, InvalidateFinds
<1>5. \A k : ToldSoon(k) => ToldSoon(k)'
  BY <1>2 DEF ToldSoon
<1>6. KeysFresh'
  <2>1. SUFFICES ASSUME NEW k \in Watched' PROVE Current(k)' /\ Coming(k)'
    BY DEF KeysFresh
  <2>2. QED BY <1>1, <1>2, <1>3, <1>5, InvalidateKeeps
<1>7. excused \subseteq excused'
  BY <1>1 DEF Invalidate
<1>8. Unheard' /\ InVisit'
  BY <1>0, <1>2, <1>7 DEF Unheard, InVisit
<1>9. QED BY <1>4, <1>6, <1>8 DEF Good

(* Steps of the calls that write nothing and end no answer.                *)
LEMMA CallsFresh ==
    ASSUME FreshInv, UNCHANGED <<visit, server, query>>, excused \subseteq excused',
           \A s \in Slots, k \in Keys : Tells(s, k) => Tells(s, k)',
           Unheard', selected' \in {selected, None},
           \A s \in Slots : calls'[s].op = "createTenant" => "createTenant" \in visit.ops,
           dialog'["createTenant"] # None => dialog["createTenant"] # None
    PROVE  Good'
<1>0. KeysFresh /\ Unheard /\ Found /\ InVisit /\ UNCHANGED <<cache, fetch, tenants>>
  BY DEF FreshInv, query, server
<1>1. KeysFresh'
  <2>1. SUFFICES ASSUME NEW k \in Watched' PROVE Current(k)' /\ Coming(k)'
    BY DEF KeysFresh
  <2>2. k \in Watched /\ k \in Keys
    BY <2>1 DEF Watched
  <2>3. ToldSoon(k) => ToldSoon(k)'
    BY <2>2, StillTold
  <2>4. QED BY <1>0, <2>2, <2>3, KeyKept
<1>2. Found'
  <2>1. \A t \in Tenants : Looks(t)' => Looks(t)
    BY <1>0, Constants DEF Looks
  <2>2. QED BY <1>0, <2>1, FoundKept
<1>3. InVisit'
  BY <1>0 DEF InVisit
<1>4. QED BY <1>1, <1>2, <1>3 DEF Good

(* Nothing is told anew and nothing that was told is forgotten.            *)
LEMMA SendFresh ==
    ASSUME FreshInv, NEW s \in Slots, NEW op, NEW on, NEW to, Send(s, op, on, to),
           UNCHANGED <<visit, server, query, excused, selected, dialog>>,
           op = "createTenant" => "createTenant" \in visit.ops
    PROVE  Good'
<1>0. TypeInv /\ Unheard /\ InVisit
  BY DEF FreshInv
<1>1. /\ calls[s] = NoCall /\ calls[s].at = "idle" /\ Others(s) /\ calls'[s].op = op /\ calls'[s].at = "sent"
  BY <1>0, SendShape, CallFacts
<1>2. \A o \in Slots, k \in Keys : Tells(o, k) => Tells(o, k)'
  BY <1>1 DEF Tells, Others
<1>3. Unheard'
  BY <1>0, <1>1 DEF Unheard, Others
<1>4. \A o \in Slots : calls'[o].op = "createTenant" => "createTenant" \in visit.ops
  BY <1>0, <1>1 DEF InVisit, Others
<1>5. QED BY <1>2, <1>3, <1>4, CallsFresh

(* A call is of an operation of the visit.                                  *)
LEMMA SendingFresh ==
    ASSUME FreshInv, NEW s \in Slots,
           \/ ConfirmStatus(s) \/ SubmitPassword(s) \/ SubmitToggle(s)
           \/ (\E t \in Tenants : SubmitTenant(s, t)) \/ \E a \in Accounts : SubmitAccount(s, a)
    PROVE  Good'
<1>1. CASE ConfirmStatus(s)
  <2>1. Send(s, "tenantStatus", selected, confirm) /\ UNCHANGED <<visit, server, query, excused, selected, dialog>>
    BY <1>1 DEF ConfirmStatus, ghost
  <2>2. QED BY <2>1, SendFresh
<1>2. ASSUME NEW op, NEW on, Submit(s, op, on) PROVE Good'
  <2>1. /\ Send(s, op, on, dialog[op].to) /\ UNCHANGED <<visit, server, query, excused, selected, dialog>>
        /\ dialog[op] # None
    BY <1>2 DEF Submit, OnScreen, view
  <2>2. op = "createTenant" => "createTenant" \in visit.ops
    BY <2>1 DEF FreshInv, InVisit
  <2>3. QED BY <2>1, <2>2, SendFresh
<1>3. QED BY <1>1, <1>2 DEF SubmitPassword, SubmitToggle, SubmitTenant, SubmitAccount

LEMMA CheckFresh == ASSUME FreshInv, NEW s \in Slots, Check(s) PROVE Good'
<1>0. TypeInv /\ Unheard /\ InVisit
  BY DEF FreshInv
<1>1. calls[s].at = "sent" /\ Same(s) /\ Others(s) /\ calls'[s].says # "ok"
  BY <1>0, CheckShape
<1>2. UNCHANGED <<visit, server, query, excused, selected, dialog>>
  BY DEF Check, view
<1>3. \A o \in Slots, k \in Keys : Tells(o, k) => Tells(o, k)'
  BY <1>1 DEF Tells, Others
<1>4. Unheard'
  BY <1>0, <1>1, <1>2 DEF Unheard, Others
<1>5. \A o \in Slots : calls'[o].op = "createTenant" => "createTenant" \in visit.ops
  BY <1>0, <1>1 DEF InVisit, Others, Same
<1>6. QED BY <1>2, <1>3, <1>4, <1>5, CallsFresh

LEMMA LoseFresh == ASSUME FreshInv, NEW s \in Slots, Lose(s) PROVE Good'
<1>0. TypeInv /\ Unheard /\ InVisit
  BY DEF FreshInv
<1>1. /\ Others(s)
      /\ \/ calls[s].at = "sent" /\ calls'[s] = NoCall
         \/ /\ calls'[s].at = calls[s].at /\ calls'[s].op = calls[s].op /\ calls'[s].on = calls[s].on
            /\ calls'[s].says = calls[s].says
      /\ excused' = IF calls[s].at = "answer" /\ calls[s].says = "ok"
                    THEN excused \cup Invalidates(calls[s].op, calls[s].on) ELSE excused
      /\ UNCHANGED <<visit, server, view, query>>
  BY <1>0, LoseShape
<1>2. excused \subseteq excused' /\ UNCHANGED <<selected, dialog>>
  BY <1>1 DEF view
<1>n. NoCall.at = "idle" /\ NoCall.op = "none"
  <2>1. NoCall.at = "idle"
    BY DEF NoCall
  <2>2. NoCall.op = "none"
    BY DEF NoCall
  <2>3. QED BY <2>1, <2>2
<1>3. \A o \in Slots, k \in Keys : Tells(o, k) => Tells(o, k)'
  BY <1>1 DEF Tells, Others
<1>4. Unheard'
  <2>1. SUFFICES ASSUME NEW o \in Slots, calls'[o].at = "answer", calls'[o].says = "ok", calls'[o].heard = "none"
                 PROVE  Invalidates(calls'[o].op, calls'[o].on) \subseteq excused'
    BY DEF Unheard
  <2>2. CASE o = s
    BY <1>1, <1>n, <2>1, <2>2
  <2>3. CASE o # s
    BY <1>0, <1>1, <1>2, <2>1, <2>3 DEF Unheard, Others
  <2>4. QED BY <2>2, <2>3
<1>5. \A o \in Slots : calls'[o].op = "createTenant" => "createTenant" \in visit.ops
  BY <1>0, <1>1, <1>n DEF InVisit, Others
<1>6. QED BY <1>1, <1>2, <1>3, <1>4, <1>5, CallsFresh

LEMMA OtherFresh ==
    ASSUME FreshInv, NEW s \in Slots, NEW t \in Tenants, NEW to, Other(s, "tenantStatus", t, to)
    PROVE  Good'
<1>0. TypeInv /\ Unheard /\ InVisit
  BY DEF FreshInv
<1>1. /\ Others(s) /\ calls'[s].at = "sent" /\ calls'[s].op = "tenantStatus"
      /\ UNCHANGED <<visit, server, query, excused, selected, dialog>>
  BY <1>0, OtherShape DEF view, ghost
<1>2. calls[s].at = "idle"
  BY <1>0, CallFacts DEF Other, Free
<1>3. \A o \in Slots, k \in Keys : Tells(o, k) => Tells(o, k)'
  BY <1>1, <1>2 DEF Tells, Others
<1>4. Unheard'
  BY <1>0, <1>1 DEF Unheard, Others
<1>5. \A o \in Slots : calls'[o].op = "createTenant" => "createTenant" \in visit.ops
  BY <1>0, <1>1 DEF InVisit, Others
<1>6. QED BY <1>1, <1>3, <1>4, <1>5, CallsFresh

LEMMA ReopenFresh == ASSUME FreshInv, Reopen PROVE Good'
<1>0. TypeInv /\ Unheard /\ InVisit
  BY DEF FreshInv
<1>1. \A s \in Slots :
         /\ calls'[s].at = calls[s].at /\ calls'[s].op = calls[s].op /\ calls'[s].on = calls[s].on
         /\ calls'[s].says = calls[s].says
         /\ calls'[s].heard = IF calls[s].heard = "page" THEN "cache" ELSE calls[s].heard
  BY <1>0, ReopenShape
<1>2. UNCHANGED <<visit, server, query, excused>> /\ selected' = None
  BY DEF Reopen
<1>3. dialog'["createTenant"] = None
  BY DEF Reopen, Ops
<1>4. \A o \in Slots, k \in Keys : Tells(o, k) => Tells(o, k)'
  BY <1>1 DEF Tells
<1>5. Unheard'
  BY <1>0, <1>1, <1>2 DEF Unheard
<1>6. \A o \in Slots : calls'[o].op = "createTenant" => "createTenant" \in visit.ops
  BY <1>0, <1>1 DEF InVisit
<1>7. QED BY <1>2, <1>3, <1>4, <1>5, <1>6, CallsFresh

(* A write is told to the page, or excused, for every key that it changes.  *)
LEMMA WrittenKeys ==
    ASSUME FreshInv, NEW s \in Slots, Write(s), calls'[s].says = "ok",
           NEW k \in Keys \ {"options"}, k \notin Invalidates(calls[s].op, calls[s].on)
    PROVE  AnswerTo(k)' = AnswerTo(k) \/ (cache[k].data = None /\ fetch[k].at = "idle")
<1>0. TypeInv /\ Found /\ InVisit
  BY DEF FreshInv
<1>1. /\ calls[s] \in Call /\ ~SlugTaken(calls[s]) /\ tenants' = NewTenants(calls[s]) /\ accounts' = NewAccounts(calls[s])
  BY <1>0, WriteShape
<1>2. /\ calls[s].op \in Ops /\ (calls[s].op \in TenantOps => calls[s].on \in Tenants)
      /\ tenants \in [Tenants -> Statuses \cup {"none"}]
  BY <1>0, <1>1 DEF Call, AnyCall, TypeInv, RowsOK
<1>3. "tenants" \notin Tenants /\ "accounts" \notin Tenants /\ k \in Tenants \cup {"tenants", "accounts"}
  BY Constants DEF Keys, Lists
<1>4. CASE calls[s].op \in TenantOps
  <2>1. accounts' = accounts /\ tenants' = [tenants EXCEPT ![calls[s].on] = calls[s].to]
    BY <1>1, <1>4 DEF NewTenants, NewAccounts, TenantOps
  <2>2. k # "tenants"
    BY <1>4 DEF TenantOps, Invalidates, AfterStatus, AfterTenant
  <2>3. CASE k # calls[s].on
    <3>1. k \in Tenants => tenants'[k] = tenants[k]
      BY <1>2, <2>1, <2>3
    <3>2. AnswerTo(k)' = AnswerTo(k)
      BY <1>3, <2>1, <2>2, <3>1 DEF AnswerTo, AccountList, Detail
    <3>3. QED BY <3>2
  <2>4. CASE k = calls[s].on
    <3>1. calls[s].op = "createTenant"
      BY <1>4, <2>4 DEF TenantOps, Invalidates, AfterStatus
    <3>2. "createTenant" \in visit.ops /\ tenants[k] = "none" /\ k \in Tenants
      BY <1>0, <1>1, <1>2, <1>4, <2>4, <3>1 DEF InVisit, SlugTaken, Exists
    <3>3. ~Looks(k)
      BY <1>0, <3>2 DEF Found
    <3>4. QED BY <3>3 DEF Looks
  <2>5. QED BY <2>3, <2>4
<1>5. CASE calls[s].op \notin TenantOps
  <2>1. tenants' = tenants
    BY <1>1, <1>5 DEF NewTenants, TenantOps
  <2>2. CASE k = "accounts"
    <3>1. calls[s].op = "changePassword"
      BY <1>2, <1>5, <2>2 DEF Ops, TenantOps, Invalidates, AfterAccount, AfterAccountStatus
    <3>2. accounts' = accounts
      BY <1>1, <3>1 DEF NewAccounts
    <3>3. QED BY <2>1, <3>2 DEF AnswerTo, AccountList, TenantList, Detail
  <2>3. CASE k # "accounts"
    BY <2>1, <2>3 DEF AnswerTo, TenantList, Detail
  <2>4. QED BY <2>2, <2>3
<1>6. QED BY <1>4, <1>5

LEMMA WriteFresh == ASSUME FreshInv, NEW s \in Slots, Write(s) PROVE Good'
<1>0. TypeInv /\ KeysFresh /\ Unheard /\ Found /\ InVisit
  BY DEF FreshInv
<1>1. /\ calls[s] \in Call /\ calls[s].at = "checked" /\ Same(s) /\ Others(s)
      /\ calls'[s].at = "answer" /\ calls'[s].says \in {"no", "ok"}
      /\ UNCHANGED <<visit, view, query>>
      /\ calls'[s].says = "no" => UNCHANGED <<server, excused>>
      /\ calls'[s].says = "ok" =>
           excused' = IF calls[s].heard = "none" THEN excused \cup Invalidates(calls[s].op, calls[s].on) ELSE excused
  BY <1>0, WriteShape
<1>2. UNCHANGED <<selected, dialog, cache, fetch>> /\ excused \subseteq excused'
  BY <1>1 DEF view, query
<1>3. \A o \in Slots, k \in Keys : Tells(o, k) => Tells(o, k)'
  BY <1>1 DEF Tells, Others
<1>4. Unheard'
  <2>1. SUFFICES ASSUME NEW o \in Slots, calls'[o].at = "answer", calls'[o].says = "ok", calls'[o].heard = "none"
                 PROVE  Invalidates(calls'[o].op, calls'[o].on) \subseteq excused'
    BY DEF Unheard
  <2>2. CASE o = s
    BY <1>1, <2>1, <2>2 DEF Same
  <2>3. CASE o # s
    BY <1>0, <1>1, <1>2, <2>1, <2>3 DEF Unheard, Others
  <2>4. QED BY <2>2, <2>3
<1>5. \A o \in Slots : calls'[o].op = "createTenant" => "createTenant" \in visit.ops
  BY <1>0, <1>1 DEF InVisit, Others, Same
<1>6. CASE calls'[s].says = "no"
  BY <1>1, <1>2, <1>3, <1>4, <1>5, <1>6, CallsFresh
<1>7. CASE calls'[s].says = "ok"
  <2>1. KeysFresh'
    <3>1. SUFFICES ASSUME NEW k \in Watched' PROVE Current(k)' /\ Coming(k)'
      BY DEF KeysFresh
    <3>2. k \in Keys \ {"options"} /\ Current(k) /\ Coming(k)
      BY <1>0, <1>2, <3>1 DEF Watched, KeysFresh
    <3>3. ToldSoon(k) => ToldSoon(k)'
      BY <1>3, <3>2, StillTold
    <3>4. CASE k \in Invalidates(calls[s].op, calls[s].on)
      <4>1. Tells(s, k)'
        BY <1>1, <1>7, <3>4 DEF Tells, Same
      <4>2. ToldSoon(k)'
        BY <4>1 DEF ToldSoon, Tells
      <4>3. QED BY <4>2 DEF Current, Coming
    <3>5. CASE k \notin Invalidates(calls[s].op, calls[s].on)
      <4>1. AnswerTo(k)' = AnswerTo(k) \/ (cache[k].data = None /\ fetch[k].at = "idle")
        BY <1>7, <3>2, <3>5, WrittenKeys
      <4>2. QED BY <1>2, <3>2, <3>3, <4>1 DEF Current, Coming
    <3>6. QED BY <3>4, <3>5
  <2>2. Found'
    <3>1. \A t \in Tenants : /\ tenants[t] # "none" => tenants'[t] # "none"
                             /\ Looks(t)' => Looks(t)
      BY <1>0, <1>2, RowsLast DEF Looks
    <3>2. QED BY <1>0, <1>1, <1>2, <3>1, FoundKept
  <2>3. InVisit'
    BY <1>0, <1>1, <1>2, <1>5 DEF InVisit
  <2>4. QED BY <1>4, <2>1, <2>2, <2>3 DEF Good
<1>8. QED BY <1>1, <1>6, <1>7

(* An answer that is heard invalidates what it was about; one that is not   *)
(* heard was excused.                                                      *)
LEMMA AnswerFresh == ASSUME FreshInv, NEW s \in Slots, Answer(s) PROVE Good'
<1>0. TypeInv /\ KeysFresh /\ Unheard /\ Found /\ InVisit
  BY DEF FreshInv
<1> DEFINE K == Invalidates(calls[s].op, calls[s].on)
<1> DEFINE Told == calls[s].heard # "none" /\ calls[s].says = "ok"
<1>1. /\ calls[s] \in Call /\ calls[s].at = "answer" /\ Others(s) /\ calls'[s] = NoCall /\ UNCHANGED <<visit, server>>
  BY <1>0, AnswerShape
<1>2. K \in SUBSET Keys /\ token \in Tokens /\ calls[s].op \in Ops
  BY <1>0, <1>1, ToldKeys DEF TypeInv, AuthOK, Call, AnyCall
<1>3. Told => Invalidate(K, token)
  BY DEF Answer
<1>4. ~Told => UNCHANGED <<query, excused>>
  BY DEF Answer
<1>5. selected' = selected
  BY DEF Answer, ShutOut
<1>6. dialog' = dialog \/ dialog' = [dialog EXCEPT ![calls[s].op] = None]
  BY DEF Answer, ShutOut
<1> HIDE DEF K, Told
<1>7. excused \subseteq excused'
  BY <1>3, <1>4 DEF Invalidate
<1>n. NoCall.at = "idle" /\ NoCall.op = "none"
  <2>1. NoCall.at = "idle"
    BY DEF NoCall
  <2>2. NoCall.op = "none"
    BY DEF NoCall
  <2>3. QED BY <2>1, <2>2
<1>8. Unheard'
  BY <1>0, <1>1, <1>7, <1>n DEF Unheard, Others
<1>9. InVisit'
  <2>1. dialog'["createTenant"] # None => dialog["createTenant"] # None
    <3>1. DOMAIN dialog = Ops /\ "createTenant" \in Ops
      BY <1>0 DEF TypeInv, DialogOK, Ops
    <3>2. QED BY <1>6, <3>1
  <2>2. QED BY <1>0, <1>1, <1>n, <2>1 DEF InVisit, Others
<1>10. \A k \in Keys : Tells(s, k) \/ (ToldSoon(k) => ToldSoon(k)')
  <2>1. SUFFICES ASSUME NEW k \in Keys, ~Tells(s, k) PROVE ToldSoon(k) => ToldSoon(k)'
    OBVIOUS
  <2>2. \A o \in Slots : Tells(o, k) => Tells(o, k)'
    BY <1>1, <2>1 DEF Tells, Others
  <2>3. QED BY <2>2, StillTold
<1>11. CASE Told
  <2>1. Invalidate(K, token)
    BY <1>3, <1>11
  <2>2. Found'
    BY <1>1, <1>2, <1>5, <2>1, InvalidateFinds
  <2>3. KeysFresh'
    <3>1. SUFFICES ASSUME NEW k \in Watched' PROVE Current(k)' /\ Coming(k)'
      BY DEF KeysFresh
    <3>2. k \notin K => (ToldSoon(k) => ToldSoon(k)')
      BY <1>10, <3>1 DEF Watched, Tells, K
    <3>3. QED BY <1>1, <1>2, <2>1, <3>2, InvalidateKeeps
  <2>4. QED BY <1>8, <1>9, <2>2, <2>3 DEF Good
<1>12. CASE ~Told
  <2>1. UNCHANGED <<cache, fetch, excused, tenants>>
    BY <1>1, <1>4, <1>12 DEF query, server
  <2>2. Found'
    <3>1. \A t \in Tenants : Looks(t)' => Looks(t)
      BY <1>5, <2>1 DEF Looks
    <3>2. QED BY <1>0, <1>1, <2>1, <3>1, FoundKept
  <2>3. KeysFresh'
    <3>1. SUFFICES ASSUME NEW k \in Watched PROVE Current(k)' /\ Coming(k)'
      BY <2>1 DEF KeysFresh, Watched
    <3>2. ~Tells(s, k)
      <4>1. SUFFICES ASSUME Tells(s, k) PROVE FALSE
        OBVIOUS
      <4>2. calls[s].says = "ok" /\ k \in Invalidates(calls[s].op, calls[s].on)
        BY <4>1 DEF Tells
      <4>3. calls[s].heard = "none"
        BY <1>12, <4>2 DEF Told
      <4>4. QED BY <1>0, <1>1, <3>1, <4>2, <4>3 DEF Unheard, Watched
    <3>3. ToldSoon(k) => ToldSoon(k)'
      BY <1>10, <3>1, <3>2 DEF Watched
    <3>4. QED BY <1>1, <2>1, <3>1, <3>3, KeyKept
  <2>4. QED BY <1>8, <1>9, <2>2, <2>3 DEF Good
<1>13. QED BY <1>11, <1>12

(* All steps.                                                               *)
LEMMA FreshStep == ASSUME FreshInv, PageNext PROVE Good'
<1>1. visit.keys \subseteq Keys
  BY Constants DEF FreshInv, TypeInv, RowsOK, Visit
<1>2. CASE \E k \in visit.keys : Fetch(k) \/ ServeFetch(k) \/ EndFetch(k) \/ LoseFetch(k) \/ Age(k)
  BY <1>1, <1>2, QueryFresh
<1>3. CASE \E s \in Slots : Check(s) \/ Write(s) \/ Answer(s) \/ Lose(s)
  BY <1>3, CheckFresh, WriteFresh, AnswerFresh, LoseFresh
<1>4. CASE \E s \in Slots : \/ ConfirmStatus(s) \/ SubmitPassword(s) \/ SubmitToggle(s)
                            \/ (\E t \in Tenants : SubmitTenant(s, t)) \/ \E a \in Accounts : SubmitAccount(s, a)
  BY <1>4, SendingFresh
<1>5. CASE \E s \in Slots, t \in Tenants, to \in visit.aims : Other(s, "tenantStatus", t, to)
  BY <1>5, OtherFresh
<1>6. QED BY <1>2, <1>3, <1>4, <1>5, ViewStepsFresh, DialogStepsFresh, SignInFresh, ReopenFresh DEF PageNext, PageSteps, PageWrites

LEMMA InitFresh == Init => FreshInv
<1> SUFFICES ASSUME Init PROVE FreshInv
  OBVIOUS
<1>0. TypeInv
  BY InitTypes
<1>1. \A s \in Slots : calls[s] = NoCall /\ calls[s].at = "idle" /\ calls[s].op = "none"
  BY <1>0, CallFacts DEF Init, PagesInit
<1>2. \A k \in Keys : cache[k] = NoData /\ fetch[k] = NoFetch
  BY DEF Init, PagesInit
<1>3. NoData.data = None /\ NoFetch.data = None /\ NoFetch.at = "idle"
  BY DEF NoData, NoFetch
<1>4. selected = None /\ dialog["createTenant"] = None
  BY DEF Init, PagesInit, Ops
<1>5. KeysFresh
  BY <1>2, <1>3 DEF KeysFresh, Watched, Current, Coming
<1>6. Unheard /\ InVisit
  BY <1>1, <1>4 DEF Unheard, InVisit
<1>7. Found
  <2>1. "tenants" \in Keys /\ Tenants \subseteq Keys
    BY DEF Keys, Lists
  <2>2. \A t \in Tenants : ~Looks(t)
    BY <1>2, <1>3, <1>4, <2>1, Constants DEF Looks
  <2>3. QED BY <1>2, <1>3, <2>1, <2>2 DEF Found, AreThere
<1>8. QED BY <1>0, <1>5, <1>6, <1>7 DEF FreshInv

LEMMA StepFresh == ASSUME FreshInv, [Next]_vars PROVE FreshInv'
<1>0. TypeInv
  BY DEF FreshInv
<1>1. CASE PageNext
  BY <1>0, <1>1, StepTypes, FreshStep DEF FreshInv, Good
<1>2. CASE UNCHANGED pageVars
  <2>1. UNCHANGED <<visit, server, cache, fetch, calls, excused, selected, dialog>>
    BY <1>2 DEF pageVars, query, view, ghost
  <2>2. QED BY <1>0, <1>2, <2>1, StillTypes, ViewFresh DEF FreshInv, Good
<1>3. QED BY <1>1, <1>2, NextPage

(* A list or a detail that the page holds for fresh is what the server has, *)
(* unless it is excused or an answer is still to come that will invalidate  *)
(* it (use-superadmin-api.ts: what each mutation invalidates is what its    *)
(* handler changes).                                                       *)
THEOREM FreshStays == Spec => []FreshIsCurrent
<1>1. FreshInv => FreshIsCurrent
  <2> SUFFICES ASSUME FreshInv PROVE FreshIsCurrent
    OBVIOUS
  <2>1. PagesTypeOK
    BY WellTyped DEF FreshInv
  <2>2. \A k \in (Keys \ {"options"}) \ excused : Current(k)
    BY DEF FreshInv, KeysFresh, Watched
  <2>3. QED BY <2>1, <2>2 DEF FreshIsCurrent, Current
<1>2. QED BY <1>1, InitFresh, StepFresh, PTL DEF Spec

-----------------------------------------------------------------------------
(* The log-ins and sessions of the server.                                  *)

(* pruneOld first.  What its recursion keeps is found by looking at a least *)
(* counterexample.                                                         *)

LEMMA Least == ASSUME NEW T, T \subseteq Nat, T # {} PROVE \E n \in T : \A m \in T : n <= m
<1>1. PICK n \in T : \A m \in T : ~ (<<m, n>> \in OpToRel(<, Nat))
  BY NatLessThanWellFounded, WFMin
<1>2. \A m \in T : ~(m < n)
  BY <1>1 DEF OpToRel
<1>3. QED BY <1>2

(* A prefix of a sequence of times, and what the recursion keeps of each    *)
(* prefix of it.                                                           *)
KeptStep(times, time, g, i) ==
    IF i = 0 THEN <<>> ELSE IF times[i] + Window > time THEN Append(g[i - 1], times[i]) ELSE g[i - 1]
Keeps(times, time, g) == g = [i \in 0 .. Len(times) |-> KeptStep(times, time, g, i)]

LEMMA KeptExists == ASSUME NEW time PROVE \A times \in Seq(Nat) : \E g : Keeps(times, time, g)
<1> DEFINE Lacks(n) == \E times \in Seq(Nat) : Len(times) = n /\ \A g : ~Keeps(times, time, g)
<1> SUFFICES ASSUME NEW bad \in Seq(Nat), \A g : ~Keeps(bad, time, g) PROVE FALSE
  OBVIOUS
<1>1. PICK n \in {k \in Nat : Lacks(k)} : \A m \in {k \in Nat : Lacks(k)} : n <= m
  <2>1. Len(bad) \in {k \in Nat : Lacks(k)}
    OBVIOUS
  <2>2. {k \in Nat : Lacks(k)} \subseteq Nat
    OBVIOUS
  <2> HIDE DEF Lacks
  <2>3. QED BY <2>1, <2>2, Least
<1>2. PICK times \in Seq(Nat) : Len(times) = n /\ \A g : ~Keeps(times, time, g)
  OBVIOUS
<1>3. CASE n = 0
  <2>1. Keeps(times, time, [i \in 0 .. Len(times) |-> <<>>])
    BY <1>2, <1>3 DEF Keeps, KeptStep
  <2>2. QED BY <2>1, <1>2
<1>4. CASE n # 0
  <2> DEFINE y == SubSeq(times, 1, n - 1)
  <2>1. y \in Seq(Nat) /\ Len(y) = n - 1 /\ \A i \in 1 .. n - 1 : y[i] = times[i]
    BY <1>1, <1>2, <1>4
  <2>2. n - 1 \in Nat /\ ~(n <= n - 1)
    BY <1>1, <1>4
  <2>3. ~Lacks(n - 1)
    <3> HIDE DEF Lacks
    <3> QED BY <1>1, <2>2
  <2>4. PICK g : Keeps(y, time, g)
    BY <2>1, <2>3
  <2> HIDE DEF y
  <2> DEFINE h == [i \in 0 .. n |-> KeptStep(times, time, g, i)]
  <2>5. \A i \in 0 .. n - 1 : g[i] = h[i]
    <3> SUFFICES ASSUME NEW i \in 0 .. n - 1 PROVE g[i] = h[i]
      OBVIOUS
    <3>1. g[i] = KeptStep(y, time, g, i)
      BY <2>1, <2>4 DEF Keeps
    <3>2. i # 0 => y[i] = times[i]
      BY <2>1, <2>2
    <3>3. i \in 0 .. n
      BY <1>1
    <3>4. QED BY <3>1, <3>2, <3>3 DEF KeptStep
  <2>6. \A i \in 0 .. n : KeptStep(times, time, g, i) = KeptStep(times, time, h, i)
    <3> SUFFICES ASSUME NEW i \in 0 .. n PROVE KeptStep(times, time, g, i) = KeptStep(times, time, h, i)
      OBVIOUS
    <3>1. i # 0 => i - 1 \in 0 .. n - 1
      BY <1>1
    <3> HIDE DEF h
    <3>2. QED BY <3>1, <2>5 DEF KeptStep
  <2>7. h = [i \in 0 .. n |-> KeptStep(times, time, h, i)]
    <3> DEFINE k == [i \in 0 .. n |-> KeptStep(times, time, h, i)]
    <3>1. \A i \in 0 .. n : h[i] = k[i]
      BY <2>6
    <3>2. QED BY <3>1
  <2>8. Keeps(times, time, h)
    <3> HIDE DEF h
    <3> QED BY <1>2, <2>7 DEF Keeps
  <2>9. QED BY <1>2, <2>8
<1>5. QED BY <1>3, <1>4

(* What the recursion keeps of a prefix depends on the prefix alone.        *)
LEMMA KeptAlike ==
    ASSUME NEW x \in Seq(Nat), NEW y \in Seq(Nat), NEW n \in Nat, n <= Len(x), n <= Len(y), NEW time,
           \A i \in 1 .. n : x[i] = y[i], NEW g, NEW h, Keeps(x, time, g), Keeps(y, time, h)
    PROVE  g[n] = h[n]
<1> SUFFICES ASSUME g[n] # h[n] PROVE FALSE
  OBVIOUS
<1> DEFINE Differ == {i \in 0 .. n : g[i] # h[i]}
<1>1. PICK i \in Differ : \A j \in Differ : i <= j
  <2>1. n \in Differ /\ Differ \subseteq Nat
    OBVIOUS
  <2> HIDE DEF Differ
  <2>2. QED BY <2>1, Least
<1>2. g[i] = KeptStep(x, time, g, i) /\ h[i] = KeptStep(y, time, h, i)
  <2>1. i \in 0 .. Len(x) /\ i \in 0 .. Len(y)
    OBVIOUS
  <2> HIDE DEF Differ
  <2>2. QED BY <2>1 DEF Keeps
<1>3. CASE i = 0
  BY <1>2, <1>3 DEF KeptStep
<1>4. CASE i # 0
  <2>1. i - 1 \in 0 .. n /\ ~(i <= i - 1) /\ i \in 1 .. n
    BY <1>4
  <2>2. g[i - 1] = h[i - 1]
    BY <1>1, <2>1
  <2>3. x[i] = y[i]
    BY <2>1
  <2>4. QED BY <1>2, <1>4, <2>2, <2>3 DEF KeptStep
<1>5. QED BY <1>3, <1>4

LEMMA PruneKeeps ==
    ASSUME NEW times \in Seq(Nat), NEW time
    PROVE  \E g : Keeps(times, time, g) /\ Server!PruneOld(times, time) = g[Len(times)]
<1> DEFINE k == CHOOSE g : g = [i \in 0 .. Len(times) |->
                  IF i = 0 THEN <<>> ELSE IF times[i] + Window > time THEN Append(g[i - 1], times[i]) ELSE g[i - 1]]
<1>1. \E g : g = [i \in 0 .. Len(times) |->
                  IF i = 0 THEN <<>> ELSE IF times[i] + Window > time THEN Append(g[i - 1], times[i]) ELSE g[i - 1]]
  BY KeptExists DEF Keeps, KeptStep
<1>2. k = [i \in 0 .. Len(times) |->
                  IF i = 0 THEN <<>> ELSE IF times[i] + Window > time THEN Append(k[i - 1], times[i]) ELSE k[i - 1]]
  BY <1>1, Zenon
<1>3. Server!PruneOld(times, time) = k[Len(times)]
  BY DEF Server!PruneOld
<1> HIDE DEF k
<1>4. QED BY <1>2, <1>3 DEF Keeps, KeptStep
(* Nothing is kept of nothing; a time at the end is kept or not.            *)
LEMMA PruneEmpty == ASSUME NEW time PROVE Server!PruneOld(<<>>, time) = <<>>
<1>0. <<>> \in Seq(Nat) /\ Len(<<>>) = 0
  OBVIOUS
<1>1. PICK g : Keeps(<<>>, time, g) /\ Server!PruneOld(<<>>, time) = g[0]
  BY <1>0, PruneKeeps
<1>2. g[0] = KeptStep(<<>>, time, g, 0)
  BY <1>0, <1>1 DEF Keeps
<1>3. QED BY <1>1, <1>2 DEF KeptStep

LEMMA PruneAppend ==
    ASSUME NEW x \in Seq(Nat), NEW t \in Nat, NEW time \in Nat
    PROVE  Server!PruneOld(Append(x, t), time) =
             IF t + Window > time THEN Append(Server!PruneOld(x, time), t) ELSE Server!PruneOld(x, time)
<1> DEFINE y == Append(x, t)
           n == Len(x)
<1>1. y \in Seq(Nat) /\ Len(y) = n + 1 /\ y[n + 1] = t /\ n \in Nat /\ \A i \in 1 .. n : x[i] = y[i]
  OBVIOUS
<1> HIDE DEF y, n
<1>2. PICK g : Keeps(x, time, g) /\ Server!PruneOld(x, time) = g[n]
  BY PruneKeeps DEF n
<1>3. PICK h : Keeps(y, time, h) /\ Server!PruneOld(y, time) = h[n + 1]
  BY <1>1, PruneKeeps
<1>4. g[n] = h[n]
  <2>1. n <= Len(x) /\ n <= Len(y)
    BY <1>1 DEF n
  <2>2. QED BY <1>1, <1>2, <1>3, <2>1, KeptAlike
<1>5. h[n + 1] = KeptStep(y, time, h, n + 1)
  <2>1. n + 1 \in 0 .. Len(y)
    BY <1>1
  <2>2. QED BY <1>3, <2>1 DEF Keeps
<1>6. n + 1 # 0 /\ (n + 1) - 1 = n
  BY <1>1
<1>7. QED BY <1>1, <1>2, <1>3, <1>4, <1>5, <1>6 DEF KeptStep, y

(* Every sequence is empty or one with a time appended to it: what holds of *)
(* the first and passes to the second holds of all.                         *)
LEMMA Shortest ==
    ASSUME NEW T, NEW Bad, Bad \subseteq Seq(T), Bad # {}
    PROVE  \E x \in Bad : x = <<>> \/ \E y \in Seq(T) \ Bad, t \in T : x = Append(y, t)
<1> DEFINE Lengths == {n \in Nat : \E x \in Bad : Len(x) = n}
<1>1. PICK n \in Lengths : \A m \in Lengths : n <= m
  <2>1. Lengths \subseteq Nat /\ Lengths # {}
    OBVIOUS
  <2> HIDE DEF Lengths
  <2>2. QED BY <2>1, Least
<1>2. PICK x \in Bad : Len(x) = n
  OBVIOUS
<1>3. CASE n = 0
  <2>1. x = <<>>
    BY <1>2, <1>3, EmptySeq
  <2>2. QED BY <2>1
<1>4. CASE n # 0
  <2> DEFINE y == SubSeq(x, 1, n - 1)
  <2>1. n \in Nat /\ ~(n <= n - 1) /\ n - 1 \in Nat /\ x \in Seq(T) /\ x[n] \in T
    BY <1>2, <1>4
  <2>2. y \in Seq(T) /\ Len(y) = n - 1
    BY <1>2, <2>1
  <2>3. x = Append(y, x[n])
    BY <1>2, <2>1, AppendProperties
  <2> HIDE DEF y
  <2>4. y \notin Bad
    BY <1>1, <2>1, <2>2
  <2>5. QED BY <2>1, <2>2, <2>3, <2>4
<1>5. QED BY <1>3, <1>4

LEMMA WindowType == Window \in Nat
BY SceneAssumption DEF Server!AuthBounds

(* What is kept are times of the sequence, no more than there were.         *)
LEMMA PruneType ==
    ASSUME NEW time \in Nat, NEW T, T \subseteq Nat
    PROVE  \A x \in Seq(T) : Server!PruneOld(x, time) \in Seq(T) /\ Len(Server!PruneOld(x, time)) <= Len(x)
<1> DEFINE P(x) == Server!PruneOld(x, time) \in Seq(T) /\ Len(Server!PruneOld(x, time)) <= Len(x)
           Bad == {x \in Seq(T) : ~P(x)}
<1> SUFFICES ASSUME Bad # {} PROVE FALSE
  OBVIOUS
<1>1. PICK x \in Bad : x = <<>> \/ \E y \in Seq(T) \ Bad, t \in T : x = Append(y, t)
  <2>1. Bad \subseteq Seq(T)
    OBVIOUS
  <2> HIDE DEF Bad
  <2>2. QED BY <2>1, Shortest
<1>2. CASE x = <<>>
  <2>1. <<>> \in Seq(T) /\ Len(<<>>) <= Len(<<>>)
    OBVIOUS
  <2>2. P(<<>>)
    BY <2>1, PruneEmpty
  <2> HIDE DEF P
  <2>3. QED BY <1>1, <1>2, <2>2
<1>3. ASSUME NEW y \in Seq(T) \ Bad, NEW t \in T, x = Append(y, t) PROVE FALSE
  <2>1. P(y) /\ ~P(x)
    BY <1>3
  <2>2. Len(x) = Len(y) + 1 /\ Len(y) \in Nat
    BY <1>3
  <2>0. y \in Seq(Nat) /\ t \in Nat
    BY <1>3, SeqMonotonic
  <2>3. Server!PruneOld(x, time) \in {Append(Server!PruneOld(y, time), t), Server!PruneOld(y, time)}
    BY <1>3, <2>0, PruneAppend
  <2> DEFINE p == Server!PruneOld(x, time)
             q == Server!PruneOld(y, time)
  <2>4. q \in Seq(T) /\ Len(q) <= Len(y) /\ (p = Append(q, t) \/ p = q)
    BY <2>1, <2>3
  <2>5. ~(p \in Seq(T) /\ Len(p) <= Len(x))
    BY <2>1
  <2> HIDE DEF p, q, Bad
  <2>6. QED BY <2>2, <2>4, <2>5, <1>3
<1>4. QED BY <1>1, <1>2, <1>3

(* Pruning at a later time what was pruned before changes nothing.          *)
LEMMA PruneTwice ==
    ASSUME NEW time \in Nat, NEW later \in Nat, time <= later
    PROVE  \A x \in Seq(Nat) : Server!PruneOld(Server!PruneOld(x, time), later) = Server!PruneOld(x, later)
<1> DEFINE P(x) == Server!PruneOld(Server!PruneOld(x, time), later) = Server!PruneOld(x, later)
           Bad == {x \in Seq(Nat) : ~P(x)}
<1> SUFFICES ASSUME Bad # {} PROVE FALSE
  OBVIOUS
<1>1. PICK x \in Bad : x = <<>> \/ \E y \in Seq(Nat) \ Bad, t \in Nat : x = Append(y, t)
  <2>1. Bad \subseteq Seq(Nat)
    OBVIOUS
  <2> HIDE DEF Bad
  <2>2. QED BY <2>1, Shortest
<1>2. CASE x = <<>>
  BY <1>2, PruneEmpty
<1>3. ASSUME NEW y \in Seq(Nat) \ Bad, NEW t \in Nat, x = Append(y, t) PROVE FALSE
  <2> DEFINE q == Server!PruneOld(y, time)
  <2>1. Server!PruneOld(q, later) = Server!PruneOld(y, later) /\ ~P(x)
    BY <1>3
  <2>2. q \in Seq(Nat)
    BY <1>3, PruneType
  <2>3. Server!PruneOld(x, time) = IF t + Window > time THEN Append(q, t) ELSE q
    BY <1>3, PruneAppend
  <2>4. Server!PruneOld(x, later) = IF t + Window > later THEN Append(Server!PruneOld(y, later), t) ELSE Server!PruneOld(y, later)
    BY <1>3, PruneAppend
  <2>5. Server!PruneOld(Append(q, t), later) = IF t + Window > later THEN Append(Server!PruneOld(q, later), t) ELSE Server!PruneOld(q, later)
    <3> HIDE DEF q
    <3> QED BY <2>2, PruneAppend
  <2>6. t + Window > later => t + Window > time
    BY WindowType
  <2>7. ~(Server!PruneOld(Server!PruneOld(x, time), later) = Server!PruneOld(x, later))
    BY <2>1
  <2> HIDE DEF q, Bad
  <2>8. QED BY <2>1, <2>3, <2>4, <2>5, <2>6, <2>7
<1>4. QED BY <1>1, <1>2, <1>3

-----------------------------------------------------------------------------
(* Types of the tables, the requests, the browsers and the limiter.         *)

Request ==
    [at: Server!LoginSteps \cup Server!RefreshSteps \cup {"idle", "answer"}, op: {"none", "login", "refresh"},
     by: Browsers \cup {None}, right: BOOLEAN, when: Nat, rec: Server!Records \cup {0}, row: Nat, evict: SUBSET Nat,
     session: Nat, token: Nat, ok: BOOLEAN]
Grant == [session: Nat, token: Nat]

SessionsOK ==
    /\ site \in Sites /\ now \in 0..site.till
    /\ devices \in Seq(Server!Device) /\ Len(devices) <= MaxRows
    /\ sessions \in Seq(Server!Session)
    /\ \A i \in DOMAIN sessions : sessions[i].row \in DOMAIN devices /\ sessions[i].created <= now

(* A request is its browser's: so are the row and the session it has found. *)
Fits(q, rows, grants, time) ==
    /\ q.at = "idle" => q = Server!NoRequest
    /\ q.at # "idle" => q.by \in Browsers
    /\ q.rec # 0 <=> q.at \in Server!LoginSteps
    /\ q.at \in Server!LoginSteps => q.op = "login"
    /\ q.at \in Server!RefreshSteps => q.op = "refresh" /\ q.session # 0
    /\ q.at \in {"sessions", "evict", "insert", "punish", "rotate", "account"} => q.row # 0
    /\ q.at = "answer" /\ q.ok => q.row # 0 /\ q.session # 0
    /\ q.when <= time
    /\ q.row \in 0..Len(rows) /\ (q.row # 0 => rows[q.row].browser = q.by)
    /\ q.session \in 0..Len(grants) /\ (q.session # 0 => rows[grants[q.session].row].browser = q.by)
    /\ q.evict \subseteq 1..Len(grants)
RequestsOK == req \in [Slots -> Request] /\ \A s \in Slots : Fits(req[s], devices, sessions, now)

(* What a browser holds is its own.                                         *)
Holds(b, h, r, rows, grants) ==
    /\ h # None => h.session \in 1..Len(grants) /\ rows[grants[h.session].row].browser = b
    /\ r \in 0..Len(rows) /\ (r # 0 => rows[r].browser = b)
BrowsersOK ==
    /\ held \in [Browsers -> Grant \cup {None}] /\ access \in [Browsers -> Nat]
    /\ \A b \in Browsers : Holds(b, held[b], access[b], devices, sessions)

LimiterOK ==
    /\ log \in Server!Records \cup {0} /\ records \in [Server!Records -> Seq(0..now)]
    /\ failures \in Seq(0..now) /\ crowded \in BOOLEAN

HistoryOK ==
    /\ overlap \in Nat \ {0}
    /\ alone \in [Browsers -> BOOLEAN] /\ heard \in [Browsers -> BOOLEAN]
    /\ before \in [1..MaxRows -> Nat] /\ \A r \in 1..MaxRows : before[r] <= Len(sessions)

AccountOK == accounts[Member] \in {"active", "suspended"}

ServerOK == SessionsOK /\ RequestsOK /\ BrowsersOK /\ LimiterOK /\ HistoryOK

-----------------------------------------------------------------------------
(* Sets have the same size in an instance of AuthSessions.                  *)
LEMMA SameSizes == \A S : (Server!IsFiniteSet(S) <=> IsFiniteSet(S)) /\ Server!Cardinality(S) = Cardinality(S)
<1> SUFFICES ASSUME NEW S PROVE (Server!IsFiniteSet(S) <=> IsFiniteSet(S)) /\ Server!Cardinality(S) = Cardinality(S)
  OBVIOUS
<1>1. Server!IsFiniteSet(S) <=> IsFiniteSet(S)
  BY DEF Server!IsFiniteSet, IsFiniteSet
<1>2. Server!Cardinality(S) = Cardinality(S)
  BY DEF Server!Cardinality, Cardinality
<1>3. QED BY <1>1, <1>2

LEMMA Counts ==
    /\ MaxSessions \in Nat \ {0} /\ MaxAttempts \in Nat \ {0} /\ Window \in Nat \ {0} /\ Duration \in Nat \ {0}
    /\ Blocks \subseteq Nat /\ MaxRows \in Nat
    /\ IsFiniteSet(Slots) /\ IsFiniteSet(Browsers) /\ Cardinality(Slots) \in Nat /\ Cardinality(Browsers) \in Nat
    /\ Server!Records = 1 .. Cardinality(Slots) + 1
    /\ Slots \subseteq Nat
<1>1. IsFiniteSet(Slots) /\ IsFiniteSet(Browsers)
  BY SceneAssumption, SameSizes DEF Server!AuthBounds
<1>2. Cardinality(Slots) \in Nat /\ Cardinality(Browsers) \in Nat
  BY <1>1, FS_CardinalityType
<1>3. QED BY <1>1, <1>2, SceneAssumption, PagesAssumption, SameSizes DEF Server!AuthBounds, Server!Records

LEMMA SiteTypes ==
    ASSUME NEW x \in Sites
    PROVE  /\ x \in Server!Site /\ x.till \in Nat /\ x.logins \in Nat /\ x.browsers \subseteq Browsers
           /\ x.mistakes \in BOOLEAN /\ x.refreshes \in BOOLEAN /\ x.tabs \in BOOLEAN /\ x.loses \in BOOLEAN
<1>1. x \in Server!Site
  BY SceneAssumption DEF Server!AuthBounds
<1>2. QED BY <1>1 DEF Server!Site

LEMMA BlankRequest == Server!NoRequest \in Request /\ Server!NoRequest.at = "idle" /\ Server!NoRequest.rec = 0
                      /\ Server!NoRequest.row = 0 /\ Server!NoRequest.session = 0 /\ Server!NoRequest.evict = {}
                      /\ Server!NoRequest.by = None /\ Server!NoRequest.when = 0 /\ Server!NoRequest.op = "none"
                      /\ Server!NoRequest.token = 0 /\ Server!NoRequest.ok = FALSE
BY DEF Server!NoRequest, Request, Server!LoginSteps, Server!RefreshSteps

(* The values of a function are no more than its arguments.                 *)
LEMMA FewValues ==
    ASSUME NEW S, IsFiniteSet(S), NEW T, NEW f \in [S -> T]
    PROVE  IsFiniteSet({f[x] : x \in S}) /\ Cardinality({f[x] : x \in S}) <= Cardinality(S)
<1> DEFINE R == {f[x] : x \in S}
<1>1. f \in Surjection(S, R)
  BY DEF Surjection
<1> HIDE DEF R
<1>2. IsFiniteSet(R) /\ Cardinality(R) <= Cardinality(S)
  BY <1>1, FS_Surjection
<1>3. QED BY <1>2 DEF R

(* There is a record that no handler holds, and a token that nobody has.    *)
LEMMA FreeRecordFree ==
    ASSUME req \in [Slots -> Request], log = 0
    PROVE  Server!FreeRecord \in Server!Records /\ \A s \in Slots : req[s].rec # Server!FreeRecord
<1> DEFINE f == [s \in Slots |-> req[s].rec]
           R == {f[s] : s \in Slots}
           n == Cardinality(Slots)
<1>1. f \in [Slots -> Server!Records \cup {0}]
  BY DEF Request
<1> HIDE DEF f
<1>2. IsFiniteSet(R) /\ Cardinality(R) <= n
  <2>1. IsFiniteSet(Slots)
    BY Counts
  <2>2. QED BY <1>1, <2>1, FewValues
<1>3. n \in Nat /\ IsFiniteSet(1 .. n + 1) /\ Cardinality(1 .. n + 1) = n + 1
  BY Counts, FS_Interval
<1>4. ~(1 .. n + 1 \subseteq R)
  <2> SUFFICES ASSUME 1 .. n + 1 \subseteq R PROVE FALSE
    OBVIOUS
  <2> HIDE DEF R, n
  <2>1. Cardinality(1 .. n + 1) <= Cardinality(R) /\ Cardinality(R) \in Nat
    BY <1>2, FS_Subset, FS_CardinalityType
  <2>2. QED BY <2>1, <1>2, <1>3
<1>5. \E r \in Server!Records : r # log /\ \A s \in Slots : req[s].rec # r
  <2>1. PICK r \in 1 .. n + 1 : r \notin R
    BY <1>4
  <2>2. r \in Server!Records /\ r # log
    BY <2>1, <1>3, Counts
  <2>3. \A s \in Slots : req[s].rec # r
    BY <2>1 DEF f
  <2>4. QED BY <2>2, <2>3
<1>6. QED BY <1>5 DEF Server!FreeRecord

LEMMA FreshToken ==
    ASSUME req \in [Slots -> Request], held \in [Browsers -> Grant \cup {None}], NEW i
    PROVE  Server!Fresh(i) \in Nat
<1> DEFINE f == [s \in Slots |-> req[s].token]
           g == [b \in Browsers |-> held[b].token]
           R == {f[s] : s \in Slots}
           Q == {g[b] : b \in Browsers}
           U == (R \cup Q) \cup {sessions[i].token}
           n == Cardinality(Slots) + Cardinality(Browsers)
<1>0. f \in [Slots -> {f[s] : s \in Slots}]
  OBVIOUS
<1>1. g \in [Browsers -> {g[b] : b \in Browsers}]
  OBVIOUS
<1> HIDE DEF f, g
<1>2. IsFiniteSet(R) /\ Cardinality(R) <= Cardinality(Slots) /\ IsFiniteSet(Q) /\ Cardinality(Q) <= Cardinality(Browsers)
  <2>1. IsFiniteSet(R) /\ Cardinality(R) <= Cardinality(Slots)
    BY <1>0, FewValues, Counts
  <2>2. IsFiniteSet(Q) /\ Cardinality(Q) <= Cardinality(Browsers)
    BY <1>1, FewValues, Counts
  <2>3. QED BY <2>1, <2>2
<1> HIDE DEF R, Q
<1>3. IsFiniteSet(U) /\ Cardinality(U) <= n + 1 /\ Cardinality(U) \in Nat
  <2>0. Cardinality(R) \in Nat /\ Cardinality(Q) \in Nat /\ Cardinality(R \cap Q) \in Nat
    BY <1>2, FS_CardinalityType, FS_Intersection
  <2>1. IsFiniteSet(R \cup Q) /\ Cardinality(R \cup Q) = Cardinality(R) + Cardinality(Q) - Cardinality(R \cap Q)
    BY <1>2, FS_Union
  <2>2. IsFiniteSet(U) /\ Cardinality(U) <= Cardinality(R \cup Q) + 1 /\ Cardinality(U) \in Nat
    <3> DEFINE W == R \cup Q
    <3>1. Cardinality(W) \in Nat
      BY <2>1, FS_CardinalityType
    <3>2. IsFiniteSet(U) /\ Cardinality(U) = IF sessions[i].token \in W THEN Cardinality(W) ELSE Cardinality(W) + 1
      BY <2>1, FS_AddElement
    <3>3. QED BY <3>1, <3>2
  <2> HIDE DEF U
  <2>3. QED BY <2>0, <2>1, <2>2, <1>2, Counts
<1>4. n \in Nat /\ IsFiniteSet(0 .. n + 1) /\ Cardinality(0 .. n + 1) = n + 2
  <2>1. n \in Nat
    BY Counts
  <2> HIDE DEF n
  <2>2. QED BY <2>1, FS_Interval
<1>5. ~(0 .. n + 1 \subseteq U)
  <2> SUFFICES ASSUME 0 .. n + 1 \subseteq U PROVE FALSE
    OBVIOUS
  <2> HIDE DEF U, n
  <2>1. Cardinality(0 .. n + 1) <= Cardinality(U)
    BY <1>3, FS_Subset
  <2>2. QED BY <2>1, <1>3, <1>4
<1>6. PICK m \in 0 .. n + 1 : m \notin U
  BY <1>5
<1>7. /\ sessions[i].token # m
      /\ \A b \in Browsers : held[b].token # m
      /\ \A s \in Slots : req[s].token # m
  BY <1>6 DEF U, R, Q, f, g
<1>8. \E k \in 0 .. n + 1 : /\ sessions[i].token # k
                            /\ \A b \in Browsers : held[b] # None => held[b].session # i \/ held[b].token # k
                            /\ \A s \in Slots : req[s].session # i \/ req[s].token # k
  BY <1>7
<1>9. Server!Fresh(i) \in 0 .. n + 1
  <2>1. Server!Cardinality(Slots) + Server!Cardinality(Browsers) + 1 = n + 1
    BY SameSizes
  <2> HIDE DEF n
  <2>2. QED BY <1>8, <2>1 DEF Server!Fresh
<1> HIDE DEF n
<1>10. QED BY <1>9, <1>4

-----------------------------------------------------------------------------
(* What the steps do to the tables.                                         *)

(* Rows and sessions are added and keep their browser, their row and their  *)
(* times; time goes on.                                                    *)
Grown ==
    /\ Len(devices) <= Len(devices') /\ \A r \in 1..Len(devices) : devices'[r].browser = devices[r].browser
    /\ Len(sessions) <= Len(sessions')
    /\ \A i \in 1..Len(sessions) : /\ sessions'[i].row = sessions[i].row /\ sessions'[i].expires = sessions[i].expires
                                   /\ sessions[i].revoked => sessions'[i].revoked
    /\ site' = site /\ now <= now'

LEMMA Lengths ==
    ASSUME SessionsOK
    PROVE  /\ Len(devices) \in Nat /\ DOMAIN devices = 1..Len(devices) /\ devices \in [1..Len(devices) -> Server!Device]
           /\ Len(sessions) \in Nat /\ DOMAIN sessions = 1..Len(sessions) /\ sessions \in [1..Len(sessions) -> Server!Session]
           /\ now \in Nat /\ site \in Server!Site
           /\ \A i \in 1..Len(sessions) : sessions[i].row \in 1..Len(devices) /\ sessions[i].created <= now
           /\ \A i \in 1..Len(sessions) : /\ sessions[i].row \in Nat /\ sessions[i].created \in Nat
                                          /\ sessions[i].expires \in Nat /\ sessions[i].token \in Nat
                                          /\ sessions[i].revoked \in BOOLEAN
           /\ \A r \in 1..Len(devices) : devices[r].browser \in Browsers /\ devices[r].until \in Nat
<1>1. devices \in Seq(Server!Device) /\ sessions \in Seq(Server!Session) /\ site \in Sites /\ now \in 0..site.till
  BY DEF SessionsOK
<1>2. /\ Len(devices) \in Nat /\ DOMAIN devices = 1..Len(devices) /\ devices \in [1..Len(devices) -> Server!Device]
      /\ Len(sessions) \in Nat /\ DOMAIN sessions = 1..Len(sessions) /\ sessions \in [1..Len(sessions) -> Server!Session]
  BY <1>1, LenProperties
<1>3. now \in Nat /\ site \in Server!Site
  BY <1>1, SiteTypes
<1>4. \A i \in 1..Len(sessions) : /\ sessions[i].row \in Nat /\ sessions[i].created \in Nat
                                  /\ sessions[i].expires \in Nat /\ sessions[i].token \in Nat
                                  /\ sessions[i].revoked \in BOOLEAN
  <2> SUFFICES ASSUME NEW i \in 1..Len(sessions)
               PROVE  /\ sessions[i].row \in Nat /\ sessions[i].created \in Nat
                      /\ sessions[i].expires \in Nat /\ sessions[i].token \in Nat
                      /\ sessions[i].revoked \in BOOLEAN
    OBVIOUS
  <2>1. sessions[i] \in Server!Session
    BY <1>2
  <2>2. QED BY <2>1 DEF Server!Session
<1>5. \A r \in 1..Len(devices) : devices[r].browser \in Browsers /\ devices[r].until \in Nat
  <2> SUFFICES ASSUME NEW r \in 1..Len(devices) PROVE devices[r].browser \in Browsers /\ devices[r].until \in Nat
    OBVIOUS
  <2>1. devices[r] \in Server!Device
    BY <1>2
  <2>2. QED BY <2>1 DEF Server!Device
<1>6. QED BY <1>2, <1>3, <1>4, <1>5 DEF SessionsOK

(* Revoking changes nothing else.                                           *)
LEMMA Revoking ==
    ASSUME SessionsOK, NEW S, sessions' = Server!Revoke(S)
    PROVE  /\ sessions' \in Seq(Server!Session) /\ Len(sessions') = Len(sessions)
           /\ \A i \in 1..Len(sessions) :
                /\ sessions'[i].row = sessions[i].row /\ sessions'[i].created = sessions[i].created
                /\ sessions'[i].expires = sessions[i].expires /\ sessions'[i].token = sessions[i].token
                /\ sessions[i].revoked => sessions'[i].revoked
                /\ i \in S => sessions'[i].revoked
                /\ i \notin S => sessions'[i] = sessions[i]
<1>1. sessions' = [i \in 1..Len(sessions) |-> IF i \in S THEN [sessions[i] EXCEPT !.revoked = TRUE] ELSE sessions[i]]
  BY Lengths DEF Server!Revoke
<1>2. \A i \in 1..Len(sessions) : sessions'[i] \in Server!Session
  <2> SUFFICES ASSUME NEW i \in 1..Len(sessions) PROVE sessions'[i] \in Server!Session
    OBVIOUS
  <2>1. sessions[i] \in Server!Session
    BY Lengths
  <2>2. QED BY <1>1, <2>1 DEF Server!Session
<1>3. sessions' \in [1..Len(sessions) -> Server!Session]
  BY <1>1, <1>2
<1>4. sessions' \in Seq(Server!Session) /\ Len(sessions') = Len(sessions)
  BY <1>3, Lengths, SeqDef
<1>5. \A i \in 1..Len(sessions) :
                /\ sessions'[i].row = sessions[i].row /\ sessions'[i].created = sessions[i].created
                /\ sessions'[i].expires = sessions[i].expires /\ sessions'[i].token = sessions[i].token
                /\ sessions[i].revoked => sessions'[i].revoked
                /\ i \in S => sessions'[i].revoked
                /\ i \notin S => sessions'[i] = sessions[i]
  <2> SUFFICES ASSUME NEW i \in 1..Len(sessions)
               PROVE  /\ sessions'[i].row = sessions[i].row /\ sessions'[i].created = sessions[i].created
                      /\ sessions'[i].expires = sessions[i].expires /\ sessions'[i].token = sessions[i].token
                      /\ sessions[i].revoked => sessions'[i].revoked
                      /\ i \in S => sessions'[i].revoked
                      /\ i \notin S => sessions'[i] = sessions[i]
    OBVIOUS
  <2>1. sessions[i] \in Server!Session
    BY Lengths
  <2>2. QED BY <1>1, <2>1 DEF Server!Session
<1>6. QED BY <1>4, <1>5

(* The steps that change the tables.                                        *)
LEMMA RevokeTables ==
    ASSUME SessionsOK, NEW S, sessions' = Server!Revoke(S), UNCHANGED <<site, now, devices>>
    PROVE  SessionsOK' /\ Grown
<1>1. Len(sessions') = Len(sessions) /\ sessions' \in Seq(Server!Session)
  BY Revoking
<1>2. \A i \in 1..Len(sessions') : sessions'[i].row \in DOMAIN devices /\ sessions'[i].created <= now
  BY <1>1, Revoking, Lengths
<1>3. DOMAIN sessions' = 1..Len(sessions')
  BY <1>1, LenProperties
<1>4. SessionsOK'
  BY <1>1, <1>2, <1>3 DEF SessionsOK
<1>5. Grown
  BY <1>1, Revoking, Lengths DEF Grown
<1>6. QED BY <1>4, <1>5

LEMMA RegisterTables ==
    ASSUME SessionsOK, RequestsOK, NEW s \in Slots, Server!Register(s)
    PROVE  /\ SessionsOK' /\ Grown
           /\ Len(devices') = Len(devices) + 1 /\ devices'[Len(devices) + 1].browser = req[s].by
           /\ \A r \in 1..Len(devices) : devices'[r] = devices[r]
<1> DEFINE d == [browser |-> req[s].by, until |-> 0]
<1>1. devices' = Append(devices, d) /\ Len(devices) < MaxRows /\ UNCHANGED <<site, now, sessions>>
  BY DEF Server!Register
<1>2. d \in Server!Device /\ d.browser = req[s].by
  BY DEF Server!Register, RequestsOK, Fits, Server!Device
<1> HIDE DEF d
<1>3. /\ devices' \in Seq(Server!Device) /\ Len(devices') = Len(devices) + 1 /\ devices'[Len(devices) + 1] = d
      /\ \A r \in 1..Len(devices) : devices'[r] = devices[r]
  BY <1>1, <1>2, AppendProperties DEF SessionsOK
<1>4. DOMAIN devices' = 1..Len(devices')
  BY <1>3, LenProperties
<1>5. SessionsOK'
  <2>1. Len(devices') <= MaxRows
    BY <1>1, <1>3, Lengths, Counts
  <2>2. \A i \in DOMAIN sessions : sessions[i].row \in DOMAIN devices' /\ sessions[i].created <= now
    BY <1>3, <1>4, Lengths
  <2>3. QED BY <1>1, <1>3, <2>1, <2>2 DEF SessionsOK
<1>6. Grown
  BY <1>1, <1>3, Lengths DEF Grown
<1>7. QED BY <1>2, <1>3, <1>5, <1>6

LEMMA InsertTables ==
    ASSUME SessionsOK, RequestsOK, NEW s \in Slots, Server!Insert(s)
    PROVE  /\ SessionsOK' /\ Grown
           /\ Len(sessions') = Len(sessions) + 1
           /\ \A i \in 1..Len(sessions) : sessions'[i] = sessions[i]
           /\ sessions'[Len(sessions) + 1].row = req[s].row
           /\ sessions'[Len(sessions) + 1].token = 0
<1> DEFINE g == [row |-> req[s].row, created |-> req[s].when, expires |-> req[s].when + Duration, token |-> 0,
                 revoked |-> FALSE]
<1>1. sessions' = Append(sessions, g) /\ UNCHANGED <<site, now, devices>> /\ req[s].at = "insert"
  BY DEF Server!Insert
<1>2. req[s] \in Request /\ Fits(req[s], devices, sessions, now)
  BY DEF RequestsOK
<1>3. req[s].row \in 1..Len(devices) /\ req[s].when <= now /\ req[s].when \in Nat
  BY <1>1, <1>2, Lengths DEF Fits, Request
<1>4. g \in Server!Session /\ g.row \in 1..Len(devices) /\ g.created <= now /\ g.row = req[s].row /\ g.token = 0
  <2>1. req[s].row \in Nat /\ req[s].when + Duration \in Nat
    BY <1>3, Lengths, Counts
  <2>2. g \in Server!Session
    BY <1>3, <2>1 DEF Server!Session
  <2>3. QED BY <1>3, <2>2
<1> HIDE DEF g
<1>5. /\ sessions' \in Seq(Server!Session) /\ Len(sessions') = Len(sessions) + 1 /\ sessions'[Len(sessions) + 1] = g
      /\ \A i \in 1..Len(sessions) : sessions'[i] = sessions[i]
  BY <1>1, <1>4, AppendProperties DEF SessionsOK
<1>6. DOMAIN sessions' = 1..Len(sessions')
  BY <1>5, LenProperties
<1>7. SessionsOK'
  <2>1. \A i \in DOMAIN sessions' : sessions'[i].row \in DOMAIN devices /\ sessions'[i].created <= now
    <3>1. DOMAIN sessions' = 1..Len(sessions) \cup {Len(sessions) + 1} /\ DOMAIN devices = 1..Len(devices)
      BY <1>5, <1>6, Lengths
    <3>2. \A i \in 1..Len(sessions) : sessions'[i].row \in DOMAIN devices /\ sessions'[i].created <= now
      BY <1>5, <3>1, Lengths
    <3>3. QED BY <1>4, <1>5, <3>1, <3>2
  <2>2. QED BY <1>1, <1>5, <2>1 DEF SessionsOK
<1>8. Grown
  BY <1>1, <1>5, Lengths DEF Grown
<1>9. QED BY <1>4, <1>5, <1>7, <1>8

LEMMA RotateTables ==
    ASSUME SessionsOK, RequestsOK, BrowsersOK, NEW s \in Slots, Server!Rotate(s)
    PROVE  /\ SessionsOK' /\ Grown /\ Len(sessions') = Len(sessions)
           /\ req[s].session \in 1..Len(sessions)
           /\ Server!Fresh(req[s].session) \in Nat
           /\ \A i \in 1..Len(sessions) : /\ sessions'[i].row = sessions[i].row
                                          /\ sessions'[i].revoked = sessions[i].revoked
                                          /\ sessions'[i].expires = sessions[i].expires
                                          /\ sessions'[i].token = IF i = req[s].session
                                                                  THEN Server!Fresh(i) ELSE sessions[i].token
<1> DEFINE k == req[s].session
           n == Server!Fresh(k)
           g == [sessions[k] EXCEPT !.token = n]
<1>1. sessions' = [sessions EXCEPT ![k] = g] /\ UNCHANGED <<site, now, devices>> /\ req[s].at = "rotate"
  BY DEF Server!Rotate, Server!Rotated
<1>2. n \in Nat
  BY FreshToken DEF RequestsOK, BrowsersOK
<1>3. k \in 1..Len(sessions)
  <2>1. Fits(req[s], devices, sessions, now) /\ "rotate" \in Server!RefreshSteps
    BY DEF RequestsOK, Server!RefreshSteps
  <2>2. QED BY <1>1, <2>1, Lengths DEF Fits
<1>4. sessions[k] \in Server!Session
  BY <1>3, Lengths
<1> HIDE DEF k, n
<1>5. /\ g \in Server!Session /\ g.row = sessions[k].row /\ g.created = sessions[k].created
      /\ g.expires = sessions[k].expires /\ g.revoked = sessions[k].revoked /\ g.token = n
  BY <1>2, <1>4 DEF Server!Session
<1> HIDE DEF g
<1>6. /\ sessions' \in Seq(Server!Session) /\ Len(sessions') = Len(sessions)
      /\ \A i \in 1..Len(sessions) : sessions'[i] = IF i = k THEN g ELSE sessions[i]
  BY <1>1, <1>3, <1>5, ExceptSeq DEF SessionsOK
<1>7. DOMAIN sessions' = 1..Len(sessions')
  BY <1>6, LenProperties
<1>8. SessionsOK'
  <2>1. \A i \in DOMAIN sessions' : sessions'[i].row \in DOMAIN devices /\ sessions'[i].created <= now
    BY <1>5, <1>6, <1>7, Lengths
  <2>2. QED BY <1>1, <1>6, <2>1 DEF SessionsOK
<1>9. Grown
  BY <1>1, <1>5, <1>6, Lengths DEF Grown
<1>10. QED BY <1>2, <1>3, <1>5, <1>6, <1>8, <1>9 DEF k, n

LEMMA BlockTables ==
    ASSUME SessionsOK, NEW r \in DOMAIN devices, (\E d \in Blocks : Server!Block(r, d)) \/ Server!Unblock(r)
    PROVE  SessionsOK' /\ Grown
<1>1. SessionsOK /\ r \in 1..Len(devices)
  BY Lengths
<1>2. PICK until \in Nat : devices' = [devices EXCEPT ![r] = [@ EXCEPT !.until = until]]
  <2>1. (\A d \in Blocks : now + d \in Nat) /\ 0 \in Nat
    BY Lengths, Counts
  <2>2. QED BY <2>1 DEF Server!Block, Server!Unblock
<1>3. UNCHANGED <<site, now>> /\ (UNCHANGED sessions \/ \E S : sessions' = Server!Revoke(S))
  BY DEF Server!Block, Server!Unblock, Server!BlockedSessions
<1> DEFINE v == [devices[r] EXCEPT !.until = until]
<1>4. v \in Server!Device /\ v.browser = devices[r].browser
  BY <1>1, <1>2, Lengths DEF Server!Device
<1>5. devices' = [devices EXCEPT ![r] = v]
  BY <1>2
<1> HIDE DEF v
<1>6. /\ devices' \in Seq(Server!Device) /\ Len(devices') = Len(devices)
      /\ \A x \in 1..Len(devices) : devices'[x] = IF x = r THEN v ELSE devices[x]
  BY <1>1, <1>4, <1>5, ExceptSeq DEF SessionsOK
<1>7. DOMAIN devices' = 1..Len(devices)
  BY <1>6, LenProperties
<1>8. /\ sessions' \in Seq(Server!Session) /\ Len(sessions') = Len(sessions)
      /\ \A i \in 1..Len(sessions) : /\ sessions'[i].row = sessions[i].row /\ sessions'[i].created = sessions[i].created
                                     /\ sessions'[i].expires = sessions[i].expires
                                     /\ sessions[i].revoked => sessions'[i].revoked
  <2>1. CASE UNCHANGED sessions
    BY <2>1 DEF SessionsOK
  <2>2. CASE \E S : sessions' = Server!Revoke(S)
    BY <2>2, Revoking
  <2>3. QED BY <1>3, <2>1, <2>2
<1>9. SessionsOK'
  <2>1. \A i \in DOMAIN sessions' : sessions'[i].row \in DOMAIN devices' /\ sessions'[i].created <= now
    <3>1. DOMAIN sessions' = 1..Len(sessions)
      BY <1>8, LenProperties
    <3>2. QED BY <3>1, <1>7, <1>8, Lengths
  <2>2. QED BY <1>3, <1>6, <1>8, <2>1 DEF SessionsOK
<1>10. Grown
  BY <1>3, <1>4, <1>6, <1>8, Lengths DEF Grown
<1>11. QED BY <1>9, <1>10

-----------------------------------------------------------------------------
(* What they do to requests.                                                *)

Steps == Server!LoginSteps \cup Server!RefreshSteps \cup {"idle", "answer"}

LEMMA StepNames ==
    /\ Server!LoginSteps = {"lookup", "register", "sessions", "evict", "insert"}
    /\ Server!RefreshSteps = {"select", "punish", "rotate", "account"}
BY DEF Server!LoginSteps, Server!RefreshSteps

LEMMA Fitting ==
    ASSUME SessionsOK, SessionsOK', Grown, NEW q \in Request, Fits(q, devices, sessions, now)
    PROVE  Fits(q, devices', sessions', now')
<1>1. q.row # 0 => q.row \in 1..Len(devices) /\ devices'[q.row].browser = q.by
  BY Lengths DEF Fits, Grown
<1>2. q.session # 0 => q.session \in 1..Len(sessions) /\ devices'[sessions'[q.session].row].browser = q.by
  BY Lengths DEF Fits, Grown
<1>3. Len(devices) \in Nat /\ Len(sessions) \in Nat /\ now \in Nat /\ now <= now' /\ q.when \in Nat
      /\ Len(devices) <= Len(devices') /\ Len(sessions) <= Len(sessions')
  BY Lengths DEF Grown, Request
<1>4. q.when <= now' /\ q.row \in 0..Len(devices') /\ q.session \in 0..Len(sessions') /\ q.evict \subseteq 1..Len(sessions')
  <2>1. now' \in Int /\ Len(devices') \in Nat /\ Len(sessions') \in Nat
    BY LenProperties DEF SessionsOK
  <2>2. QED BY <1>3, <2>1 DEF Fits
<1>5. QED BY <1>1, <1>2, <1>4 DEF Fits

LEMMA Holding ==
    ASSUME SessionsOK, Grown, NEW b \in Browsers, NEW h \in Grant \cup {None}, NEW r \in Nat,
           Holds(b, h, r, devices, sessions)
    PROVE  Holds(b, h, r, devices', sessions')
<1>1. r # 0 => r \in 1..Len(devices) /\ devices'[r].browser = b
  BY Lengths DEF Holds, Grown
<1>2. h # None => h.session \in 1..Len(sessions) /\ devices'[sessions'[h.session].row].browser = b
  BY Lengths DEF Holds, Grown
<1>3. Len(devices) \in Nat /\ Len(sessions) \in Nat /\ Len(devices) <= Len(devices') /\ Len(sessions) <= Len(sessions')
  BY Lengths DEF Grown
<1>4. QED BY <1>1, <1>2, <1>3 DEF Holds

LEMMA NothingGrows ==
    ASSUME SessionsOK, UNCHANGED <<site, now, devices, sessions>>
    PROVE  SessionsOK' /\ Grown
<1>1. SessionsOK'
  BY DEF SessionsOK
<1>2. Grown
  BY Lengths DEF Grown
<1>3. QED BY <1>1, <1>2

LEMMA Replacing ==
    ASSUME SessionsOK, SessionsOK', Grown, RequestsOK, NEW s \in Slots, NEW q \in Request, req' = [req EXCEPT ![s] = q],
           Fits(q, devices', sessions', now')
    PROVE  /\ RequestsOK' /\ req'[s] = q /\ \A o \in Slots \ {s} : req'[o] = req[o]
<1>1. req' \in [Slots -> Request] /\ req'[s] = q /\ \A o \in Slots \ {s} : req'[o] = req[o]
  BY DEF RequestsOK
<1>2. \A o \in Slots \ {s} : Fits(req'[o], devices', sessions', now')
  BY <1>1, Fitting DEF RequestsOK
<1>3. Fits(req'[s], devices', sessions', now')
  BY <1>1
<1>4. QED BY <1>1, <1>2, <1>3 DEF RequestsOK

LEMMA KeepingRequests == ASSUME SessionsOK, SessionsOK', Grown, RequestsOK, req' = req PROVE RequestsOK'
BY Fitting DEF RequestsOK

LEMMA KeepingBrowsers == ASSUME SessionsOK, Grown, BrowsersOK, UNCHANGED <<held, access>> PROVE BrowsersOK'
BY Holding DEF BrowsersOK

LEMMA BlankFits == ASSUME SessionsOK PROVE Fits(Server!NoRequest, devices, sessions, now)
BY BlankRequest, Lengths, StepNames DEF Fits

(* What a slot holds.                                                      *)
LEMMA RequestFields ==
    ASSUME RequestsOK, NEW s \in Slots
    PROVE  /\ req[s] \in Request /\ Fits(req[s], devices, sessions, now)
           /\ req[s].at \in Steps /\ req[s].op \in {"none", "login", "refresh"} /\ req[s].by \in Browsers \cup {None}
           /\ req[s].when \in Nat /\ req[s].rec \in Server!Records \cup {0} /\ req[s].row \in Nat
           /\ req[s].evict \subseteq Nat /\ req[s].session \in Nat /\ req[s].token \in Nat
<1>1. req[s] \in Request /\ Fits(req[s], devices, sessions, now)
  BY DEF RequestsOK
<1>2. QED BY <1>1 DEF Request, Steps

-----------------------------------------------------------------------------
(* The requests' steps.                                                    *)

LEMMA EndRequests ==
    ASSUME SessionsOK, Grown, SessionsOK', RequestsOK, NEW s \in Slots, Server!Ends(s)
    PROVE  RequestsOK' /\ req'[s] = Server!NoRequest /\ \A o \in Slots \ {s} : req'[o] = req[o]
<1>1. req' = [req EXCEPT ![s] = Server!NoRequest]
  BY DEF Server!Ends
<1>2. Fits(Server!NoRequest, devices', sessions', now')
  <2>1. Fits(Server!NoRequest, devices, sessions, now)
    BY BlankFits
  <2>2. QED BY <2>1, Fitting, BlankRequest
<1>3. QED BY <1>1, <1>2, Replacing, BlankRequest

ArrivalRecord == IF log = 0 THEN Server!FreeRecord ELSE log

LEMMA ArriveLoginRequests ==
    ASSUME SessionsOK, RequestsOK, LimiterOK, NEW s \in Slots, NEW b \in Browsers, NEW right \in BOOLEAN,
           Server!ArriveLogin(s, b, right)
    PROVE  /\ RequestsOK' /\ \A o \in Slots \ {s} : req'[o] = req[o]
           /\ req'[s].at = "lookup" /\ req'[s].op = "login" /\ req'[s].by = b /\ req'[s].rec = ArrivalRecord
           /\ req'[s].when = now /\ req'[s].row = 0 /\ req'[s].session = 0
           /\ ArrivalRecord \in Server!Records
           /\ UNCHANGED <<site, now, devices, sessions>>
<1>1. ArrivalRecord \in Server!Records
  BY FreeRecordFree DEF LimiterOK, RequestsOK, ArrivalRecord
<1> DEFINE q == [Server!NoRequest EXCEPT !.at = "lookup", !.op = "login", !.by = b, !.right = right, !.when = now,
                                         !.rec = ArrivalRecord]
<1>2. req' = [req EXCEPT ![s] = q] /\ UNCHANGED <<site, now, devices, sessions>>
  BY DEF Server!ArriveLogin, Server!tables, ArrivalRecord
<1>3. /\ q \in Request /\ q.at = "lookup" /\ q.op = "login" /\ q.by = b /\ q.when = now /\ q.rec = ArrivalRecord
      /\ q.row = 0 /\ q.session = 0 /\ q.evict = {}
  BY <1>1, Lengths, StepNames DEF Server!NoRequest, Request
<1> HIDE DEF q
<1>4. 0 \notin Server!Records
  BY Counts
<1>5. Fits(q, devices, sessions, now)
  BY <1>1, <1>3, <1>4, Lengths, StepNames DEF Fits
<1>6. SessionsOK' /\ Grown
  BY <1>2, NothingGrows
<1>7. Fits(q, devices', sessions', now')
  BY <1>2, <1>5
<1>8. RequestsOK' /\ req'[s] = q /\ \A o \in Slots \ {s} : req'[o] = req[o]
  BY <1>2, <1>3, <1>6, <1>7, Replacing
<1>9. QED BY <1>1, <1>2, <1>3, <1>8

LEMMA ArriveRefreshRequests ==
    ASSUME SessionsOK, RequestsOK, BrowsersOK, NEW s \in Slots, NEW b \in Browsers, Server!ArriveRefresh(s, b)
    PROVE  /\ RequestsOK' /\ \A o \in Slots \ {s} : req'[o] = req[o]
           /\ req'[s].at \in {"answer", "select"} /\ req'[s].op = "refresh" /\ req'[s].by = b /\ req'[s].rec = 0
           /\ req'[s].row = 0 /\ req'[s].session = held[b].session /\ req'[s].token = held[b].token /\ ~req'[s].ok
           /\ UNCHANGED <<site, now, devices, sessions>>
<1> DEFINE at == IF access[b] # 0 /\ Server!Blocked(access[b]) THEN "answer" ELSE "select"
           q == [Server!NoRequest EXCEPT !.at = at, !.op = "refresh", !.by = b, !.session = held[b].session,
                                         !.token = held[b].token]
<1>1. req' = [req EXCEPT ![s] = q] /\ UNCHANGED <<site, now, devices, sessions>> /\ held[b] # None
  BY DEF Server!ArriveRefresh, Server!tables
<1>2. at \in {"answer", "select"}
  OBVIOUS
<1> HIDE DEF at
<1>3. held[b] \in Grant /\ held[b].session \in 1..Len(sessions) /\ devices[sessions[held[b].session].row].browser = b
  BY <1>1 DEF BrowsersOK, Holds
<1>4. held[b].session \in Nat /\ held[b].token \in Nat
  BY <1>3 DEF Grant
<1>5. /\ q \in Request /\ q.at \in {"answer", "select"} /\ q.op = "refresh" /\ q.by = b /\ q.when = 0 /\ q.rec = 0
      /\ q.row = 0 /\ q.session = held[b].session /\ q.token = held[b].token /\ q.evict = {} /\ q.ok = FALSE
  BY <1>2, <1>4, StepNames DEF Server!NoRequest, Request
<1> HIDE DEF q
<1>6. Fits(q, devices, sessions, now)
  BY <1>3, <1>5, Lengths, StepNames DEF Fits
<1>7. SessionsOK' /\ Grown
  BY <1>1, NothingGrows
<1>8. Fits(q, devices', sessions', now')
  BY <1>1, <1>6
<1>9. RequestsOK' /\ req'[s] = q /\ \A o \in Slots \ {s} : req'[o] = req[o]
  BY <1>1, <1>5, <1>7, <1>8, Replacing
<1>10. QED BY <1>1, <1>5, <1>9

(* A step that leaves a request whose it is.                                *)
SameRequest(s) ==
    /\ \A o \in Slots \ {s} : req'[o] = req[o]
    /\ req'[s].by = req[s].by /\ req'[s].op = req[s].op

LEMMA LookUpRequests ==
    ASSUME SessionsOK, RequestsOK, NEW s \in Slots, Server!LookUp(s), ~Server!Ends(s)
    PROVE  /\ RequestsOK' /\ SameRequest(s) /\ req'[s].rec = req[s].rec /\ req[s].at = "lookup"
           /\ req'[s].session = req[s].session /\ req'[s].evict = req[s].evict /\ req'[s].when = req[s].when
           /\ \/ req'[s].at = "register" /\ req'[s].row = req[s].row /\ Server!RowsOf(req[s].by) = {}
              \/ req'[s].at = "sessions" /\ req'[s].row \in Server!RowsOf(req[s].by)
           /\ UNCHANGED <<site, now, devices, sessions>>
<1>1. UNCHANGED <<site, now, devices, sessions>> /\ req[s].at = "lookup"
  BY DEF Server!LookUp, Server!tables
<1>2. \/ req' = [req EXCEPT ![s].at = "register"] /\ Server!RowsOf(req[s].by) = {}
      \/ \E r \in Server!RowsOf(req[s].by) : req' = [req EXCEPT ![s].at = "sessions", ![s].row = r]
  BY DEF Server!LookUp, Server!RowsFound
<1>3. SessionsOK' /\ Grown
  BY <1>1, NothingGrows
<1>4. CASE req' = [req EXCEPT ![s].at = "register"] /\ Server!RowsOf(req[s].by) = {}
  <2> DEFINE q == [req[s] EXCEPT !.at = "register"]
  <2>1. req' = [req EXCEPT ![s] = q]
    BY <1>4
  <2>2. /\ q \in Request /\ q.at = "register" /\ q.op = req[s].op /\ q.by = req[s].by /\ q.when = req[s].when
        /\ q.rec = req[s].rec /\ q.row = req[s].row /\ q.session = req[s].session /\ q.evict = req[s].evict
    BY RequestFields, StepNames DEF Request
  <2> HIDE DEF q
  <2>3. Fits(q, devices, sessions, now)
    BY <1>1, <2>2, RequestFields, StepNames DEF Fits
  <2>4. Fits(q, devices', sessions', now')
    BY <1>1, <2>3
  <2>5. RequestsOK' /\ req'[s] = q /\ \A o \in Slots \ {s} : req'[o] = req[o]
    BY <1>3, <2>1, <2>2, <2>4, Replacing
  <2>6. QED BY <1>1, <1>4, <2>2, <2>5 DEF SameRequest
<1>5. ASSUME NEW r \in Server!RowsOf(req[s].by), req' = [req EXCEPT ![s].at = "sessions", ![s].row = r]
      PROVE  /\ RequestsOK' /\ SameRequest(s) /\ req'[s].rec = req[s].rec /\ req[s].at = "lookup"
             /\ req'[s].session = req[s].session /\ req'[s].evict = req[s].evict /\ req'[s].when = req[s].when
             /\ req'[s].at = "sessions" /\ req'[s].row = r
  <2> DEFINE q == [req[s] EXCEPT !.at = "sessions", !.row = r]
  <2>0. r \in Nat /\ r \in 1..Len(devices) /\ devices[r].browser = req[s].by
    BY Lengths DEF Server!RowsOf
  <2>1. req' = [req EXCEPT ![s] = q]
    BY <1>5
  <2>2. /\ q \in Request /\ q.at = "sessions" /\ q.op = req[s].op /\ q.by = req[s].by /\ q.when = req[s].when
        /\ q.rec = req[s].rec /\ q.row = r /\ q.session = req[s].session /\ q.evict = req[s].evict
    BY <2>0, RequestFields, StepNames DEF Request
  <2> HIDE DEF q
  <2>3. Fits(q, devices, sessions, now)
    BY <1>1, <2>0, <2>2, RequestFields, StepNames DEF Fits
  <2>4. Fits(q, devices', sessions', now')
    BY <1>1, <2>3
  <2>5. RequestsOK' /\ req'[s] = q /\ \A o \in Slots \ {s} : req'[o] = req[o]
    BY <1>3, <2>1, <2>2, <2>4, Replacing
  <2>6. QED BY <1>1, <2>2, <2>5 DEF SameRequest
<1>6. QED BY <1>1, <1>2, <1>4, <1>5

LEMMA RegisterRequests ==
    ASSUME SessionsOK, RequestsOK, NEW s \in Slots, Server!Register(s)
    PROVE  /\ RequestsOK' /\ SameRequest(s) /\ req'[s].rec = req[s].rec /\ req[s].at = "register"
           /\ req'[s].session = req[s].session /\ req'[s].evict = req[s].evict /\ req'[s].when = req[s].when
           /\ req'[s].at = "sessions" /\ req'[s].row = Len(devices) + 1
<1> DEFINE q == [req[s] EXCEPT !.at = "sessions", !.row = Len(devices) + 1]
<1>1. req' = [req EXCEPT ![s] = q] /\ req[s].at = "register" /\ UNCHANGED <<now, sessions>>
  BY DEF Server!Register
<1>2. /\ q \in Request /\ q.at = "sessions" /\ q.op = req[s].op /\ q.by = req[s].by /\ q.when = req[s].when
      /\ q.rec = req[s].rec /\ q.row = Len(devices) + 1 /\ q.session = req[s].session /\ q.evict = req[s].evict
  <2>1. Len(devices) + 1 \in Nat
    BY Lengths
  <2>2. QED BY <2>1, RequestFields, StepNames DEF Request
<1> HIDE DEF q
<1>3. SessionsOK' /\ Grown /\ Len(devices') = Len(devices) + 1 /\ devices'[Len(devices) + 1].browser = req[s].by
  BY RegisterTables
<1>4. Fits(q, devices', sessions', now')
  <2> DEFINE p == req[s]
  <2>1. Fits(p, devices', sessions', now') /\ p \in Request
    BY <1>3, RequestFields, Fitting
  <2>2. Len(devices) + 1 \in 0..Len(devices')
    BY <1>3, Lengths
  <2>3. QED BY <1>1, <1>2, <1>3, <2>1, <2>2, StepNames DEF Fits
<1>5. RequestsOK' /\ req'[s] = q /\ \A o \in Slots \ {s} : req'[o] = req[o]
  BY <1>1, <1>2, <1>3, <1>4, Replacing
<1>6. QED BY <1>1, <1>2, <1>5 DEF SameRequest

(* The eldest that make room, as they were selected.                        *)
LEMMA SelectRequests ==
    ASSUME SessionsOK, RequestsOK, NEW s \in Slots, Server!SelectSessions(s)
    PROVE  /\ RequestsOK' /\ SameRequest(s) /\ req'[s].rec = req[s].rec /\ req[s].at = "sessions"
           /\ req'[s].session = req[s].session /\ req'[s].row = req[s].row /\ req'[s].when = now
           /\ req'[s].evict \subseteq Server!Lives
           /\ Server!Cardinality(req'[s].evict) = Server!Excess(Server!Cardinality(Server!Lives))
           /\ req'[s].at = IF req'[s].evict = {} THEN "insert" ELSE "evict"
           /\ UNCHANGED <<site, now, devices, sessions>>
<1>1. UNCHANGED <<site, now, devices, sessions>> /\ req[s].at = "sessions"
  BY DEF Server!SelectSessions, Server!tables
<1>2. PICK E \in SUBSET Server!Lives :
        /\ Server!Cardinality(E) = Server!Excess(Server!Cardinality(Server!Lives))
        /\ req' = [req EXCEPT ![s].at = IF E = {} THEN "insert" ELSE "evict", ![s].evict = E, ![s].when = now]
  BY DEF Server!SelectSessions
<1> DEFINE at == IF E = {} THEN "insert" ELSE "evict"
           q == [req[s] EXCEPT !.at = at, !.evict = E, !.when = now]
<1>3. req' = [req EXCEPT ![s] = q]
  BY <1>2
<1>4. at \in {"insert", "evict"} /\ (E = {} => at = "insert") /\ (E # {} => at = "evict")
  OBVIOUS
<1> HIDE DEF at
<1>5. E \subseteq 1..Len(sessions) /\ E \subseteq Nat /\ now \in Nat
  BY Lengths DEF Server!Lives
<1>6. /\ q \in Request /\ q.at = at /\ q.op = req[s].op /\ q.by = req[s].by /\ q.when = now
      /\ q.rec = req[s].rec /\ q.row = req[s].row /\ q.session = req[s].session /\ q.evict = E
  BY <1>4, <1>5, RequestFields, StepNames DEF Request
<1> HIDE DEF q
<1>7. SessionsOK' /\ Grown
  BY <1>1, NothingGrows
<1>8. Fits(q, devices, sessions, now)
  BY <1>1, <1>4, <1>5, <1>6, RequestFields, StepNames DEF Fits
<1>9. Fits(q, devices', sessions', now')
  BY <1>1, <1>8
<1>10. RequestsOK' /\ req'[s] = q /\ \A o \in Slots \ {s} : req'[o] = req[o]
  BY <1>3, <1>6, <1>7, <1>9, Replacing
<1>11. QED BY <1>1, <1>2, <1>4, <1>6, <1>10 DEF SameRequest

LEMMA EvictRequests ==
    ASSUME SessionsOK, RequestsOK, NEW s \in Slots, Server!Evict(s)
    PROVE  /\ SessionsOK' /\ Grown /\ RequestsOK' /\ SameRequest(s) /\ req'[s].rec = req[s].rec /\ req[s].at = "evict"
           /\ req'[s].session = req[s].session /\ req'[s].row = req[s].row /\ req'[s].when = req[s].when
           /\ \E i \in req[s].evict : sessions' = Server!Revoke({i}) /\ req'[s].evict = req[s].evict \ {i}
           /\ req'[s].at = IF req'[s].evict = {} THEN "insert" ELSE "evict"
           /\ UNCHANGED <<site, now, devices>>
<1>1. PICK i \in req[s].evict :
        /\ sessions' = Server!Revoke({i})
        /\ req' = [req EXCEPT ![s].evict = @ \ {i}, ![s].at = IF req[s].evict = {i} THEN "insert" ELSE "evict"]
  BY DEF Server!Evict
<1>2. UNCHANGED <<site, now, devices>> /\ req[s].at = "evict"
  BY DEF Server!Evict
<1> DEFINE E == req[s].evict \ {i}
           at == IF req[s].evict = {i} THEN "insert" ELSE "evict"
           q == [req[s] EXCEPT !.evict = E, !.at = at]
<1>3. req' = [req EXCEPT ![s] = q]
  BY <1>1
<1>4. at \in {"insert", "evict"} /\ at = (IF E = {} THEN "insert" ELSE "evict") /\ E \subseteq req[s].evict /\ E \subseteq Nat
  BY RequestFields
<1> HIDE DEF at, E
<1>5. /\ q \in Request /\ q.at = at /\ q.op = req[s].op /\ q.by = req[s].by /\ q.when = req[s].when
      /\ q.rec = req[s].rec /\ q.row = req[s].row /\ q.session = req[s].session /\ q.evict = E
  BY <1>4, RequestFields, StepNames DEF Request
<1> HIDE DEF q
<1>6. SessionsOK' /\ Grown
  BY <1>1, <1>2, RevokeTables
<1>7. Fits(q, devices, sessions, now)
  BY <1>2, <1>4, <1>5, RequestFields, StepNames DEF Fits
<1>8. Fits(q, devices', sessions', now')
  BY <1>5, <1>6, <1>7, Fitting
<1>9. RequestsOK' /\ req'[s] = q /\ \A o \in Slots \ {s} : req'[o] = req[o]
  BY <1>3, <1>5, <1>6, <1>8, Replacing
<1>10. req'[s].evict = req[s].evict \ {i}
  BY <1>5, <1>9 DEF E
<1>11. QED BY <1>1, <1>2, <1>4, <1>5, <1>6, <1>9, <1>10 DEF SameRequest

LEMMA InsertRequests ==
    ASSUME SessionsOK, RequestsOK, NEW s \in Slots, Server!Insert(s)
    PROVE  /\ RequestsOK' /\ SameRequest(s) /\ req'[s].rec = 0 /\ req[s].at = "insert" /\ req'[s].at = "answer"
           /\ req'[s].session = Len(sessions) + 1 /\ req'[s].row = req[s].row /\ req'[s].token = 0 /\ req'[s].ok
<1> DEFINE q == [req[s] EXCEPT !.at = "answer", !.session = Len(sessions) + 1, !.token = 0, !.ok = TRUE, !.rec = 0]
<1>1. req' = [req EXCEPT ![s] = q] /\ req[s].at = "insert" /\ UNCHANGED <<now, devices>>
  BY DEF Server!Insert
<1>2. /\ q \in Request /\ q.at = "answer" /\ q.op = req[s].op /\ q.by = req[s].by /\ q.when = req[s].when
      /\ q.rec = 0 /\ q.row = req[s].row /\ q.session = Len(sessions) + 1 /\ q.evict = req[s].evict /\ q.token = 0
      /\ q.ok = TRUE
  <2>1. Len(sessions) + 1 \in Nat
    BY Lengths
  <2>2. QED BY <2>1, RequestFields, StepNames DEF Request
<1> HIDE DEF q
<1>3. SessionsOK' /\ Grown /\ Len(sessions') = Len(sessions) + 1 /\ sessions'[Len(sessions) + 1].row = req[s].row
  BY InsertTables
<1>4. Fits(q, devices', sessions', now')
  <2> DEFINE p == req[s]
  <2>1. Fits(p, devices', sessions', now') /\ p \in Request
    BY <1>3, RequestFields, Fitting
  <2>2. Len(sessions) + 1 \in 0..Len(sessions')
    BY <1>3, Lengths
  <2>3. QED BY <1>1, <1>2, <1>3, <2>1, <2>2, StepNames DEF Fits
<1>5. RequestsOK' /\ req'[s] = q /\ \A o \in Slots \ {s} : req'[o] = req[o]
  BY <1>1, <1>2, <1>3, <1>4, Replacing
<1>6. QED BY <1>1, <1>2, <1>5 DEF SameRequest

LEMMA SelectRowRequests ==
    ASSUME SessionsOK, RequestsOK, NEW s \in Slots, Server!Select(s)
    PROVE  /\ RequestsOK' /\ SameRequest(s) /\ req'[s].rec = req[s].rec /\ req[s].at = "select"
           /\ req'[s].session = req[s].session /\ req'[s].token = req[s].token /\ req'[s].ok = req[s].ok
           /\ req'[s].at = IF sessions[req[s].session].revoked THEN "punish"
                           ELSE IF sessions[req[s].session].expires <= now THEN "answer"
                           ELSE IF sessions[req[s].session].token # req[s].token THEN "punish" ELSE "rotate"
           /\ UNCHANGED <<site, now, devices, sessions>>
<1> DEFINE row == sessions[req[s].session]
           at == IF row.revoked THEN "punish" ELSE IF row.expires <= now THEN "answer"
                 ELSE IF row.token # req[s].token THEN "punish" ELSE "rotate"
           q == [req[s] EXCEPT !.at = at, !.row = row.row]
<1>1. req' = [req EXCEPT ![s] = q] /\ req[s].at = "select" /\ UNCHANGED <<site, now, devices, sessions>>
  BY DEF Server!Select, Server!tables
<1>2. at \in {"punish", "answer", "rotate"}
  OBVIOUS
<1>3. /\ req[s].session \in 1..Len(sessions) /\ row.row \in 1..Len(devices) /\ devices[row.row].browser = req[s].by
      /\ row.row \in Nat
  BY <1>1, RequestFields, StepNames, Lengths DEF Fits
<1> HIDE DEF at, row
<1>4. /\ q \in Request /\ q.at = at /\ q.op = req[s].op /\ q.by = req[s].by /\ q.when = req[s].when
      /\ q.rec = req[s].rec /\ q.row = row.row /\ q.session = req[s].session /\ q.evict = req[s].evict
      /\ q.token = req[s].token /\ q.ok = req[s].ok
  BY <1>2, <1>3, RequestFields, StepNames DEF Request
<1> HIDE DEF q
<1>5. SessionsOK' /\ Grown
  BY <1>1, NothingGrows
<1>6. Fits(q, devices, sessions, now)
  BY <1>1, <1>2, <1>3, <1>4, RequestFields, StepNames, Lengths DEF Fits
<1>7. Fits(q, devices', sessions', now')
  BY <1>1, <1>6
<1>8. RequestsOK' /\ req'[s] = q /\ \A o \in Slots \ {s} : req'[o] = req[o]
  BY <1>1, <1>4, <1>5, <1>7, Replacing
<1>9. QED BY <1>1, <1>4, <1>8 DEF SameRequest, at, row

LEMMA PunishRequests ==
    ASSUME SessionsOK, RequestsOK, NEW s \in Slots, Server!Punish(s)
    PROVE  /\ SessionsOK' /\ Grown /\ RequestsOK' /\ SameRequest(s) /\ req'[s].rec = req[s].rec /\ req[s].at = "punish"
           /\ req'[s].session = req[s].session /\ req'[s].token = req[s].token /\ req'[s].ok = req[s].ok
           /\ req'[s].at = "answer" /\ req'[s].row = req[s].row
           /\ sessions' = Server!Revoke(Server!LiveOf(req[s].row)) /\ UNCHANGED <<site, now, devices>>
<1> DEFINE q == [req[s] EXCEPT !.at = "answer"]
<1>1. /\ req' = [req EXCEPT ![s] = q] /\ req[s].at = "punish" /\ UNCHANGED <<site, now, devices>>
      /\ sessions' = Server!Revoke(Server!LiveOf(req[s].row))
  BY DEF Server!Punish
<1>2. /\ q \in Request /\ q.at = "answer" /\ q.op = req[s].op /\ q.by = req[s].by /\ q.when = req[s].when
      /\ q.rec = req[s].rec /\ q.row = req[s].row /\ q.session = req[s].session /\ q.evict = req[s].evict
      /\ q.token = req[s].token /\ q.ok = req[s].ok
  BY RequestFields, StepNames DEF Request
<1> HIDE DEF q
<1>3. SessionsOK' /\ Grown
  BY <1>1, RevokeTables
<1>4. Fits(q, devices, sessions, now)
  BY <1>1, <1>2, RequestFields, StepNames DEF Fits
<1>5. Fits(q, devices', sessions', now')
  BY <1>2, <1>3, <1>4, Fitting
<1>6. RequestsOK' /\ req'[s] = q /\ \A o \in Slots \ {s} : req'[o] = req[o]
  BY <1>1, <1>2, <1>3, <1>5, Replacing
<1>7. QED BY <1>1, <1>2, <1>3, <1>6 DEF SameRequest

LEMMA RotateRequests ==
    ASSUME SessionsOK, RequestsOK, BrowsersOK, NEW s \in Slots, Server!Rotate(s)
    PROVE  /\ RequestsOK' /\ SameRequest(s) /\ req'[s].rec = req[s].rec /\ req[s].at = "rotate"
           /\ req'[s].session = req[s].session /\ req'[s].token = Server!Fresh(req[s].session)
           /\ req'[s].at = "account" /\ req'[s].row = req[s].row /\ UNCHANGED <<site, now, devices>>
<1> DEFINE n == Server!Fresh(req[s].session)
           q == [req[s] EXCEPT !.at = "account", !.token = n]
<1>1. req' = [req EXCEPT ![s] = q] /\ req[s].at = "rotate" /\ UNCHANGED <<site, now, devices>>
  BY DEF Server!Rotate
<1>2. SessionsOK' /\ Grown /\ n \in Nat
  BY RotateTables
<1> HIDE DEF n
<1>3. /\ q \in Request /\ q.at = "account" /\ q.op = req[s].op /\ q.by = req[s].by /\ q.when = req[s].when
      /\ q.rec = req[s].rec /\ q.row = req[s].row /\ q.session = req[s].session /\ q.evict = req[s].evict
      /\ q.token = n /\ q.ok = req[s].ok
  BY <1>2, RequestFields, StepNames DEF Request
<1> HIDE DEF q
<1>4. Fits(q, devices, sessions, now)
  BY <1>1, <1>3, RequestFields, StepNames DEF Fits
<1>5. Fits(q, devices', sessions', now')
  BY <1>2, <1>3, <1>4, Fitting
<1>6. RequestsOK' /\ req'[s] = q /\ \A o \in Slots \ {s} : req'[o] = req[o]
  BY <1>1, <1>2, <1>3, <1>5, Replacing
<1>7. QED BY <1>1, <1>3, <1>6 DEF SameRequest, n

LEMMA CheckAccountRequests ==
    ASSUME SessionsOK, RequestsOK, NEW s \in Slots, Server!CheckAccount(s)
    PROVE  /\ RequestsOK' /\ SameRequest(s) /\ req'[s].rec = req[s].rec /\ req[s].at = "account"
           /\ req'[s].session = req[s].session /\ req'[s].token = req[s].token /\ req'[s].row = req[s].row
           /\ req'[s].at = "answer" /\ UNCHANGED <<site, now, devices, sessions>>
<1> DEFINE ok == accounts[Member] = "active"
           q == [req[s] EXCEPT !.at = "answer", !.ok = ok]
<1>1. req' = [req EXCEPT ![s] = q] /\ req[s].at = "account" /\ UNCHANGED <<site, now, devices, sessions>>
  BY DEF Server!CheckAccount, Server!tables
<1>2. ok \in BOOLEAN
  OBVIOUS
<1> HIDE DEF ok
<1>3. /\ q \in Request /\ q.at = "answer" /\ q.op = req[s].op /\ q.by = req[s].by /\ q.when = req[s].when
      /\ q.rec = req[s].rec /\ q.row = req[s].row /\ q.session = req[s].session /\ q.evict = req[s].evict
      /\ q.token = req[s].token
  BY <1>2, RequestFields, StepNames DEF Request
<1> HIDE DEF q
<1>4. SessionsOK' /\ Grown
  BY <1>1, NothingGrows
<1>5. Fits(q, devices, sessions, now)
  BY <1>1, <1>3, RequestFields, StepNames DEF Fits
<1>6. Fits(q, devices', sessions', now')
  BY <1>1, <1>5
<1>7. RequestsOK' /\ req'[s] = q /\ \A o \in Slots \ {s} : req'[o] = req[o]
  BY <1>1, <1>3, <1>4, <1>6, Replacing
<1>8. QED BY <1>1, <1>3, <1>7 DEF SameRequest

(* The rest of the step of a superadmin and of the clock.                   *)
LEMMA TickTables == ASSUME SessionsOK, RequestsOK, Server!Tick PROVE SessionsOK' /\ Grown /\ RequestsOK' /\ now' = now + 1
<1>1. now < site.till /\ now' = now + 1 /\ UNCHANGED <<site, devices, sessions, req>>
  BY DEF Server!Tick, Server!tables
<1>2. site.till \in Nat /\ now \in Nat
  BY Lengths, SiteTypes DEF SessionsOK
<1>3. SessionsOK'
  <2>1. now' \in 0..site.till
    BY <1>1, <1>2
  <2>2. \A i \in DOMAIN sessions : sessions[i].row \in DOMAIN devices /\ sessions[i].created <= now'
    BY <1>1, <1>2, Lengths
  <2>3. QED BY <1>1, <2>1, <2>2 DEF SessionsOK
<1>4. Grown
  BY <1>1, <1>2, Lengths DEF Grown
<1>5. QED BY <1>1, <1>3, <1>4, KeepingRequests

LEMMA StepsRequests ==
    ASSUME SessionsOK, RequestsOK, BrowsersOK, LimiterOK, Server!Next
    PROVE  SessionsOK' /\ Grown /\ RequestsOK'
<1>1. CASE \E s \in Slots, b \in Browsers : Server!ArriveRefresh(s, b)
  BY <1>1, ArriveRefreshRequests, NothingGrows
<1>2. CASE \E s \in Slots, b \in Browsers, right \in BOOLEAN : Server!ArriveLogin(s, b, right)
  BY <1>2, ArriveLoginRequests, NothingGrows
<1>3. CASE \E b \in Browsers : Server!TooMany(b)
  <2>1. UNCHANGED <<site, now, devices, sessions, req>>
    BY <1>3 DEF Server!TooMany, Server!tables
  <2>2. QED BY <2>1, NothingGrows, KeepingRequests
<1>4. ASSUME NEW s \in Slots, Server!LookUp(s) PROVE SessionsOK' /\ Grown /\ RequestsOK'
  <2>1. UNCHANGED <<site, now, devices, sessions>>
    BY <1>4 DEF Server!LookUp, Server!tables
  <2>2. QED BY <1>4, <2>1, LookUpRequests, NothingGrows, EndRequests
<1>5. CASE \E s \in Slots : Server!Register(s)
  BY <1>5, RegisterTables, RegisterRequests
<1>6. CASE \E s \in Slots : Server!SelectSessions(s) \/ Server!Select(s) \/ Server!CheckAccount(s)
  BY <1>6, SelectRequests, SelectRowRequests, CheckAccountRequests, NothingGrows
<1>7. CASE \E s \in Slots : Server!Evict(s) \/ Server!Punish(s)
  BY <1>7, EvictRequests, PunishRequests
<1>8. CASE \E s \in Slots : Server!Insert(s)
  BY <1>8, InsertTables, InsertRequests
<1>9. CASE \E s \in Slots : Server!Rotate(s)
  BY <1>9, RotateTables, RotateRequests
<1>10. ASSUME NEW s \in Slots, Server!Deliver(s) \/ Server!Lose(s) PROVE SessionsOK' /\ Grown /\ RequestsOK'
  <2>1. UNCHANGED <<site, now, devices, sessions>> /\ Server!Ends(s)
    BY <1>10 DEF Server!Deliver, Server!Lose, Server!tables
  <2>2. QED BY <2>1, NothingGrows, EndRequests
<1>11. CASE \E r \in DOMAIN devices : Server!Unblock(r) \/ \E d \in Blocks : Server!Block(r, d)
  <2>1. SessionsOK' /\ Grown
    BY <1>11, BlockTables
  <2>2. req' = req
    BY <1>11 DEF Server!Unblock, Server!Block
  <2>3. QED BY <2>1, <2>2, KeepingRequests
<1>12. CASE \E status : Server!SetAccount(status) \/ Server!SetTenant(status)
  <2>1. UNCHANGED <<site, now, devices, sessions, req>>
    BY <1>12 DEF Server!SetAccount, Server!SetTenant
  <2>2. QED BY <2>1, NothingGrows, KeepingRequests
<1>13. CASE Server!Tick
  BY <1>13, TickTables
<1>14. QED BY <1>1, <1>2, <1>3, <1>4, <1>5, <1>6, <1>7, <1>8, <1>9, <1>10, <1>11, <1>12, <1>13 DEF Server!Next

-----------------------------------------------------------------------------
(* The browsers.                                                           *)
LEMMA DeliverEffect ==
    ASSUME RequestsOK, BrowsersOK, NEW s \in Slots, Server!Deliver(s)
    PROVE  /\ req[s].at = "answer" /\ req[s].by \in Browsers
           /\ \A c \in Browsers \ {req[s].by} : held'[c] = held[c] /\ access'[c] = access[c]
           /\ IF req[s].ok THEN /\ held'[req[s].by] = [session |-> req[s].session, token |-> req[s].token]
                                /\ access'[req[s].by] = req[s].row
              ELSE held'[req[s].by] = None /\ access'[req[s].by] = access[req[s].by]
           /\ UNCHANGED <<site, now, devices, sessions, alone, heard>>
<1>1. req[s].at = "answer" /\ req[s].by \in Browsers
  BY RequestFields DEF Fits, Server!Deliver
<1>2. QED BY <1>1 DEF Server!Deliver, BrowsersOK, Server!tables, Server!history

LEMMA DeliverBrowsers == ASSUME SessionsOK, RequestsOK, BrowsersOK, NEW s \in Slots, Server!Deliver(s) PROVE BrowsersOK'
<1> DEFINE b == req[s].by
<1>1. /\ req[s].at = "answer" /\ b \in Browsers
      /\ \A c \in Browsers \ {b} : held'[c] = held[c] /\ access'[c] = access[c]
      /\ UNCHANGED <<devices, sessions>>
  BY DeliverEffect
<1>2. held'[b] \in Grant \cup {None} /\ access'[b] \in Nat /\ Holds(b, held'[b], access'[b], devices, sessions)
  <2>1. CASE req[s].ok
    <3>1. /\ held'[b] = [session |-> req[s].session, token |-> req[s].token] /\ access'[b] = req[s].row
      BY <2>1, DeliverEffect
    <3>2. /\ req[s].row # 0 /\ req[s].session # 0 /\ devices[req[s].row].browser = b /\ req[s].row \in 0..Len(devices)
          /\ req[s].session \in 0..Len(sessions) /\ devices[sessions[req[s].session].row].browser = b
      BY <1>1, <2>1, RequestFields DEF Fits
    <3>3. QED BY <3>1, <3>2, RequestFields, Lengths DEF Holds, Grant
  <2>2. CASE ~req[s].ok
    BY <1>1, <2>2, DeliverEffect DEF BrowsersOK, Holds
  <2>3. QED BY <2>1, <2>2
<1>3. held' \in [Browsers -> Grant \cup {None}] /\ access' \in [Browsers -> Nat]
  <2>1. /\ held' = [held EXCEPT ![b] = held'[b]]
        /\ access' = [access EXCEPT ![b] = access'[b]]
    BY <1>1 DEF Server!Deliver, BrowsersOK
  <2> HIDE DEF b
  <2>2. QED BY <1>2, <2>1 DEF BrowsersOK
<1> HIDE DEF b
<1>4. \A c \in Browsers : Holds(c, held'[c], access'[c], devices', sessions')
  BY <1>1, <1>2 DEF BrowsersOK
<1>5. QED BY <1>3, <1>4 DEF BrowsersOK

LEMMA OtherBrowsers ==
    ASSUME Server!Next, ~(\E s \in Slots : Server!Deliver(s))
    PROVE  UNCHANGED <<held, access>>
<1>1. CASE \E s \in Slots, b \in Browsers : Server!ArriveRefresh(s, b) \/ \E right \in BOOLEAN : Server!ArriveLogin(s, b, right)
  BY <1>1 DEF Server!ArriveRefresh, Server!ArriveLogin, Server!browser
<1>2. CASE \E b \in Browsers : Server!TooMany(b)
  BY <1>2 DEF Server!TooMany, Server!browser
<1>3. CASE \E s \in Slots : Server!LookUp(s) \/ Server!Register(s) \/ Server!SelectSessions(s) \/ Server!Evict(s) \/ Server!Insert(s)
  BY <1>3 DEF Server!LookUp, Server!Register, Server!SelectSessions, Server!Evict, Server!Insert, Server!browser
<1>4. CASE \E s \in Slots : Server!Select(s) \/ Server!Punish(s) \/ Server!Rotate(s) \/ Server!CheckAccount(s) \/ Server!Lose(s)
  BY <1>4 DEF Server!Select, Server!Punish, Server!Rotate, Server!CheckAccount, Server!Lose, Server!browser
<1>5. CASE \E r \in DOMAIN devices : Server!Unblock(r) \/ \E d \in Blocks : Server!Block(r, d)
  BY <1>5 DEF Server!Unblock, Server!Block, Server!browser
<1>6. CASE (\E status : Server!SetAccount(status) \/ Server!SetTenant(status)) \/ Server!Tick
  BY <1>6 DEF Server!SetAccount, Server!SetTenant, Server!Tick, Server!browser
<1>7. QED BY <1>1, <1>2, <1>3, <1>4, <1>5, <1>6 DEF Server!Next

LEMMA StepsBrowsers ==
    ASSUME SessionsOK, RequestsOK, BrowsersOK, LimiterOK, Server!Next
    PROVE  BrowsersOK'
BY StepsRequests, OtherBrowsers, KeepingBrowsers, DeliverBrowsers

-----------------------------------------------------------------------------
(* What they do to the limiter.                                             *)

(* A log-in that is refused and counted.                                    *)
Refusal(s) ==
    /\ req[s].at = "lookup" /\ Server!Ends(s) /\ log' = req[s].rec
    /\ records' = Server!Tidy([records EXCEPT ![req[s].rec] = Append(@, req[s].when)], log', req')
    /\ failures' = Append(Server!Pruned(failures), req[s].when)
    /\ UNCHANGED <<site, now, sessions, crowded, overlap, alone, heard, before>>

Limits == <<log, records, failures, crowded>>

LEMMA LookUpEither ==
    ASSUME NEW s \in Slots, Server!LookUp(s)
    PROVE  Refusal(s) \/ UNCHANGED Limits
BY DEF Server!LookUp, Refusal, Limits, Server!limiter, Server!tables

LEMMA LimiterStill ==
    ASSUME Server!Next
    PROVE  \/ \E s \in Slots, b \in Browsers, right \in BOOLEAN : Server!ArriveLogin(s, b, right)
           \/ \E b \in Browsers : Server!TooMany(b)
           \/ \E s \in Slots : Refusal(s) \/ Server!Insert(s) \/ Server!Lose(s)
           \/ UNCHANGED Limits
<1>1. CASE \E s \in Slots, b \in Browsers : Server!ArriveRefresh(s, b)
  BY <1>1 DEF Server!ArriveRefresh, Server!limiter, Limits
<1>2. CASE \E s \in Slots : Server!LookUp(s)
  BY <1>2, LookUpEither
<1>3. CASE \E s \in Slots : Server!Register(s) \/ Server!SelectSessions(s) \/ Server!Evict(s)
  BY <1>3 DEF Server!Register, Server!SelectSessions, Server!Evict, Server!limiter, Server!history, Limits
<1>4. CASE \E s \in Slots : Server!Select(s) \/ Server!Punish(s) \/ Server!Rotate(s) \/ Server!CheckAccount(s) \/ Server!Deliver(s)
  BY <1>4 DEF Server!Select, Server!Punish, Server!Rotate, Server!CheckAccount, Server!Deliver, Server!limiter, Server!history, Limits
<1>5. CASE \E r \in DOMAIN devices : Server!Unblock(r) \/ \E d \in Blocks : Server!Block(r, d)
  BY <1>5 DEF Server!Unblock, Server!Block, Server!limiter, Server!history, Limits
<1>6. CASE (\E status : Server!SetAccount(status) \/ Server!SetTenant(status)) \/ Server!Tick
  BY <1>6 DEF Server!SetAccount, Server!SetTenant, Server!Tick, Server!limiter, Server!history, Limits
<1>7. QED BY <1>1, <1>2, <1>3, <1>4, <1>5, <1>6 DEF Server!Next

LEMMA TidyRecords ==
    ASSUME NEW T, NEW rs \in [Server!Records -> Seq(T)], NEW l, NEW q
    PROVE  /\ Server!Tidy(rs, l, q) \in [Server!Records -> Seq(T)]
           /\ \A r \in Server!Records : /\ Server!Tidy(rs, l, q)[r] \in {rs[r], <<>>}
                                        /\ Len(Server!Tidy(rs, l, q)[r]) <= Len(rs[r])
                                        /\ r = l => Server!Tidy(rs, l, q)[r] = rs[r]
                                        /\ \A s \in Slots : q[s].rec = r => Server!Tidy(rs, l, q)[r] = rs[r]
<1> DEFINE t == Server!Tidy(rs, l, q)
<1>1. t = [r \in Server!Records |-> IF r = l \/ (\E s \in Slots : q[s].rec = r) THEN rs[r] ELSE <<>>]
  BY DEF Server!Tidy
<1> HIDE DEF t
<1>2. \A r \in Server!Records : rs[r] \in Seq(T) /\ Len(rs[r]) \in Nat
  BY LenProperties
<1>3. <<>> \in Seq(T) /\ Len(<<>>) = 0
  OBVIOUS
<1>4. t \in [Server!Records -> Seq(T)]
  BY <1>1, <1>2, <1>3
<1>5. \A r \in Server!Records : /\ t[r] \in {rs[r], <<>>} /\ Len(t[r]) <= Len(rs[r])
                                /\ r = l => t[r] = rs[r]
                                /\ \A s \in Slots : q[s].rec = r => t[r] = rs[r]
  BY <1>1, <1>2, <1>3
<1>6. QED BY <1>4, <1>5 DEF t

LEMMA LoggedType ==
    ASSUME SessionsOK, LimiterOK
    PROVE  /\ Server!Logged \in Seq(0..now) /\ Len(Server!Logged) \in Nat
           /\ log # 0 => Len(Server!Logged) <= Len(records[log])
           /\ log = 0 => Server!Logged = <<>>
           /\ Server!Pruned(failures) \in Seq(0..now)
<1>1. now \in Nat /\ 0..now \subseteq Nat
  BY Lengths
<1>2. log # 0 => records[log] \in Seq(0..now)
  BY DEF LimiterOK
<1>3. \A x \in Seq(0..now) : Server!PruneOld(x, now) \in Seq(0..now) /\ Len(Server!PruneOld(x, now)) <= Len(x)
  BY <1>1, PruneType
<1>4. CASE log = 0
  <2>1. Server!Logged = <<>>
    BY <1>4 DEF Server!Logged
  <2>2. QED BY <1>3, <1>4, <2>1 DEF LimiterOK, Server!Pruned
<1>5. CASE log # 0
  <2>1. Server!Logged = Server!PruneOld(records[log], now)
    BY <1>5 DEF Server!Logged, Server!Pruned
  <2>2. Len(Server!Logged) \in Nat
    BY <1>2, <1>3, <1>5, <2>1, LenProperties
  <2>3. QED BY <1>2, <1>3, <1>5, <2>1, <2>2 DEF LimiterOK, Server!Pruned
<1>6. QED BY <1>4, <1>5

(* How the records change.                                                  *)
LEMMA ArriveRecords ==
    ASSUME SessionsOK, RequestsOK, LimiterOK, NEW s \in Slots, NEW b \in Browsers, NEW right \in BOOLEAN,
           Server!ArriveLogin(s, b, right)
    PROVE  /\ records' \in [Server!Records -> Seq(0..now)] /\ ArrivalRecord \in Server!Records
           /\ records'[ArrivalRecord] = Server!Logged /\ Len(Server!Logged) < MaxAttempts
           /\ \A r \in Server!Records \ {ArrivalRecord} : records'[r] = records[r]
           /\ UNCHANGED <<log, failures>> /\ crowded' = (crowded \/ \E o \in Slots : req[o].rec # 0)
<1>1. ArrivalRecord \in Server!Records
  BY ArriveLoginRequests
<1>2. records' = [records EXCEPT ![ArrivalRecord] = Server!Logged] /\ Len(Server!Logged) < MaxAttempts
  BY DEF Server!ArriveLogin, ArrivalRecord
<1>3. UNCHANGED <<log, failures>> /\ crowded' = (crowded \/ \E o \in Slots : req[o].rec # 0)
  BY DEF Server!ArriveLogin
<1>4. QED BY <1>1, <1>2, <1>3, LoggedType DEF LimiterOK

LEMMA TooManyRecords ==
    ASSUME SessionsOK, LimiterOK, NEW b \in Browsers, Server!TooMany(b)
    PROVE  /\ records' \in [Server!Records -> Seq(0..now)] /\ log \in Server!Records
           /\ records'[log] = Server!Logged
           /\ \A r \in Server!Records \ {log} : records'[r] = records[r]
           /\ UNCHANGED <<site, now, devices, sessions, log, req, failures, crowded>>
<1>1. records' = [records EXCEPT ![log] = Server!Logged] /\ Len(Server!Logged) >= MaxAttempts
  BY DEF Server!TooMany
<1>2. log # 0
  <2>1. Len(<<>>) = 0
    OBVIOUS
  <2>2. QED BY <1>1, <2>1, LoggedType, Counts
<1>3. UNCHANGED <<site, now, devices, sessions, log, req, failures, crowded>>
  BY DEF Server!TooMany, Server!tables, Server!history
<1>4. QED BY <1>1, <1>2, <1>3, LoggedType DEF LimiterOK

LEMMA RefusalRecords ==
    ASSUME SessionsOK, RequestsOK, LimiterOK, NEW s \in Slots, Refusal(s)
    PROVE  /\ records' \in [Server!Records -> Seq(0..now)] /\ req[s].rec \in Server!Records
           /\ log' = req[s].rec /\ req[s].when \in 0..now
           /\ records'[req[s].rec] = Append(records[req[s].rec], req[s].when)
           /\ \A r \in Server!Records : r # req[s].rec => Len(records'[r]) <= Len(records[r])
           /\ failures' \in Seq(0..now) /\ failures' = Append(Server!Pruned(failures), req[s].when)
           /\ req'[s].rec = 0 /\ \A o \in Slots \ {s} : req'[o] = req[o]
<1> DEFINE k == req[s].rec
           x == Append(records[k], req[s].when)
           rs == [records EXCEPT ![k] = x]
<1>1. k \in Server!Records /\ req[s].when \in 0..now
  BY RequestFields, StepNames, Lengths DEF Refusal, Fits
<1>2. records[k] \in Seq(0..now)
  BY <1>1 DEF LimiterOK
<1>3. x \in Seq(0..now)
  BY <1>1, <1>2
<1>4. records' = Server!Tidy(rs, log', req') /\ log' = k
  BY DEF Refusal
<1> HIDE DEF k, x
<1>5. rs \in [Server!Records -> Seq(0..now)] /\ rs[k] = x /\ \A r \in Server!Records : r # k => rs[r] = records[r]
  BY <1>1, <1>3 DEF LimiterOK
<1> HIDE DEF rs
<1>6. /\ records' \in [Server!Records -> Seq(0..now)] /\ records'[k] = x
      /\ \A r \in Server!Records : r # k => Len(records'[r]) <= Len(records[r])
  BY <1>1, <1>4, <1>5, TidyRecords
<1>7. failures' \in Seq(0..now) /\ failures' = Append(Server!Pruned(failures), req[s].when)
  BY <1>1, LoggedType, AppendProperties DEF Refusal
<1>8. req'[s].rec = 0 /\ \A o \in Slots \ {s} : req'[o] = req[o]
  BY BlankRequest DEF Refusal, Server!Ends, RequestsOK
<1>9. QED BY <1>1, <1>4, <1>6, <1>7, <1>8 DEF k, x

LEMMA EndRecords ==
    ASSUME SessionsOK, RequestsOK, LimiterOK, NEW s \in Slots, Server!Insert(s) \/ Server!Lose(s)
    PROVE  /\ records' \in [Server!Records -> Seq(0..now)] /\ log' \in {0, log}
           /\ \A r \in Server!Records : Len(records'[r]) <= Len(records[r])
           /\ \A r \in Server!Records : r = log' => records'[r] = records[r]
           /\ \A r \in Server!Records, o \in Slots : req'[o].rec = r => records'[r] = records[r]
           /\ req'[s].rec = 0 /\ \A o \in Slots \ {s} : req'[o] = req[o]
           /\ crowded' = crowded
           /\ \/ log' = 0 /\ failures' = <<>> /\ Server!Insert(s)
              \/ log' = log /\ failures' = failures /\ UNCHANGED sessions
<1>1. records' = Server!Tidy(records, log', req')
  BY DEF Server!Insert, Server!Lose
<1>2. records \in [Server!Records -> Seq(0..now)]
  BY DEF LimiterOK
<1>3. /\ records' \in [Server!Records -> Seq(0..now)]
      /\ \A r \in Server!Records : Len(records'[r]) <= Len(records[r])
      /\ \A r \in Server!Records : r = log' => records'[r] = records[r]
      /\ \A r \in Server!Records, o \in Slots : req'[o].rec = r => records'[r] = records[r]
  <2> DEFINE t == Server!Tidy(records, log', req')
  <2>1. /\ t \in [Server!Records -> Seq(0..now)]
        /\ \A r \in Server!Records : /\ Len(t[r]) <= Len(records[r])
                                     /\ r = log' => t[r] = records[r]
                                     /\ \A o \in Slots : req'[o].rec = r => t[r] = records[r]
    BY <1>2, TidyRecords
  <2> HIDE DEF t
  <2>2. records' = t
    BY <1>1 DEF t
  <2>3. QED BY <2>1, <2>2
<1>4. CASE Server!Insert(s)
  <2>1. log' = 0 /\ failures' = <<>> /\ crowded' = crowded
    BY <1>4 DEF Server!Insert, Server!LogAfterSuccess
  <2>2. req'[s].rec = 0 /\ \A o \in Slots \ {s} : req'[o] = req[o]
    BY <1>4, InsertRequests DEF SameRequest
  <2>3. QED BY <1>3, <1>4, <2>1, <2>2
<1>5. CASE Server!Lose(s)
  <2>1. UNCHANGED <<log, failures, crowded, sessions>> /\ Server!Ends(s)
    BY <1>5 DEF Server!Lose, Server!tables
  <2>2. req'[s].rec = 0 /\ \A o \in Slots \ {s} : req'[o] = req[o]
    BY <2>1, BlankRequest DEF Server!Ends, RequestsOK
  <2>3. QED BY <1>3, <2>1, <2>2
<1>6. QED BY <1>4, <1>5

LEMMA StepsLimiter ==
    ASSUME SessionsOK, RequestsOK, BrowsersOK, LimiterOK, Server!Next
    PROVE  LimiterOK'
<1>0. \A T : Seq(0..now) \subseteq Seq(0..now')
  <2>1. now \in Nat /\ now' \in Int /\ now <= now'
    BY StepsRequests, Lengths DEF Grown, SessionsOK
  <2>2. 0..now \subseteq 0..now'
    BY <2>1
  <2>3. QED BY <2>2, SeqMonotonic
<1>1. /\ log' \in Server!Records \cup {0} /\ records' \in [Server!Records -> Seq(0..now)]
      /\ failures' \in Seq(0..now) /\ crowded' \in BOOLEAN
  <2>1. CASE \E s \in Slots, b \in Browsers, right \in BOOLEAN : Server!ArriveLogin(s, b, right)
    <3>1. PICK s \in Slots, b \in Browsers, right \in BOOLEAN : Server!ArriveLogin(s, b, right)
      BY <2>1
    <3>2. records' \in [Server!Records -> Seq(0..now)] /\ UNCHANGED <<log, failures>>
          /\ crowded' = (crowded \/ \E o \in Slots : req[o].rec # 0)
      BY <3>1, ArriveRecords
    <3>3. QED BY <3>2 DEF LimiterOK
  <2>2. CASE \E b \in Browsers : Server!TooMany(b)
    BY <2>2, TooManyRecords DEF LimiterOK
  <2>3. CASE \E s \in Slots : Refusal(s)
    BY <2>3, RefusalRecords DEF LimiterOK, Refusal
  <2>4. CASE \E s \in Slots : Server!Insert(s) \/ Server!Lose(s)
    <3>1. <<>> \in Seq(0..now)
      OBVIOUS
    <3>2. QED BY <2>4, <3>1, EndRecords DEF LimiterOK
  <2>5. CASE UNCHANGED Limits
    BY <2>5 DEF Limits, LimiterOK
  <2>6. QED BY <2>1, <2>2, <2>3, <2>4, <2>5, LimiterStill
<1>2. QED BY <1>0, <1>1 DEF LimiterOK

(* A handler that has not answered holds its record, and no other gets one  *)
(* but by arriving.                                                        *)
LEMMA RecordsHeld ==
    ASSUME SessionsOK, RequestsOK, BrowsersOK, LimiterOK, Server!Next,
           ~(\E s \in Slots, b \in Browsers, right \in BOOLEAN : Server!ArriveLogin(s, b, right))
    PROVE  \A o \in Slots : req'[o].rec \in {req[o].rec, 0}
<1>1. CASE \E s \in Slots, b \in Browsers : Server!ArriveRefresh(s, b)
  BY <1>1, ArriveRefreshRequests
<1>2. CASE \E b \in Browsers : Server!TooMany(b)
  BY <1>2 DEF Server!TooMany
<1>3. ASSUME NEW s \in Slots, Server!LookUp(s) PROVE \A o \in Slots : req'[o].rec \in {req[o].rec, 0}
  <2>1. CASE Server!Ends(s)
    BY <2>1, BlankRequest DEF Server!Ends, RequestsOK
  <2>2. CASE ~Server!Ends(s)
    BY <1>3, <2>2, LookUpRequests DEF SameRequest
  <2>3. QED BY <2>1, <2>2
<1>4. CASE \E s \in Slots : Server!Register(s) \/ Server!SelectSessions(s) \/ Server!Evict(s)
  BY <1>4, RegisterRequests, SelectRequests, EvictRequests DEF SameRequest
<1>5. CASE \E s \in Slots : Server!Select(s) \/ Server!Punish(s) \/ Server!Rotate(s) \/ Server!CheckAccount(s)
  BY <1>5, SelectRowRequests, PunishRequests, RotateRequests, CheckAccountRequests DEF SameRequest
<1>6. CASE \E s \in Slots : Server!Insert(s) \/ Server!Lose(s)
  BY <1>6, EndRecords
<1>7. ASSUME NEW s \in Slots, Server!Deliver(s) PROVE \A o \in Slots : req'[o].rec \in {req[o].rec, 0}
  <2>1. Server!Ends(s)
    BY <1>7 DEF Server!Deliver
  <2>2. QED BY <2>1, BlankRequest DEF Server!Ends, RequestsOK
<1>8. CASE \E r \in DOMAIN devices : Server!Unblock(r) \/ \E d \in Blocks : Server!Block(r, d)
  BY <1>8 DEF Server!Unblock, Server!Block
<1>9. CASE (\E status : Server!SetAccount(status) \/ Server!SetTenant(status)) \/ Server!Tick
  BY <1>9 DEF Server!SetAccount, Server!SetTenant, Server!Tick
<1>10. QED BY <1>1, <1>2, <1>3, <1>4, <1>5, <1>6, <1>7, <1>8, <1>9 DEF Server!Next

(* Only a log-in that has come to its end adds a session.                   *)
LEMMA SessionsAdded ==
    ASSUME SessionsOK, RequestsOK, BrowsersOK, LimiterOK, Server!Next, ~(\E s \in Slots : Server!Insert(s))
    PROVE  Len(sessions') = Len(sessions)
<1>1. CASE UNCHANGED sessions
  BY <1>1
<1>2. CASE \E S : sessions' = Server!Revoke(S)
  BY <1>2, Revoking
<1>3. CASE \E s \in Slots : Server!Rotate(s)
  BY <1>3, RotateTables
<1>4. CASE \E s \in Slots : Server!Evict(s) \/ Server!Punish(s)
  BY <1>2, <1>4 DEF Server!Evict, Server!Punish
<1>5. CASE \E r \in DOMAIN devices, d \in Blocks : Server!Block(r, d)
  BY <1>2, <1>5 DEF Server!Block, Server!BlockedSessions
<1>6. CASE \E s \in Slots, b \in Browsers : Server!ArriveRefresh(s, b) \/ \E right \in BOOLEAN : Server!ArriveLogin(s, b, right)
  BY <1>1, <1>6 DEF Server!ArriveRefresh, Server!ArriveLogin, Server!tables
<1>7. CASE \E b \in Browsers : Server!TooMany(b)
  BY <1>1, <1>7 DEF Server!TooMany, Server!tables
<1>8. CASE \E s \in Slots : Server!LookUp(s) \/ Server!Register(s) \/ Server!SelectSessions(s)
  BY <1>1, <1>8 DEF Server!LookUp, Server!Register, Server!SelectSessions, Server!tables
<1>9. CASE \E s \in Slots : Server!Select(s) \/ Server!CheckAccount(s) \/ Server!Deliver(s) \/ Server!Lose(s)
  BY <1>1, <1>9 DEF Server!Select, Server!CheckAccount, Server!Deliver, Server!Lose, Server!tables
<1>10. CASE \E r \in DOMAIN devices : Server!Unblock(r)
  BY <1>1, <1>10 DEF Server!Unblock
<1>11. CASE (\E status : Server!SetAccount(status) \/ Server!SetTenant(status)) \/ Server!Tick
  BY <1>1, <1>11 DEF Server!SetAccount, Server!SetTenant, Server!Tick, Server!tables
<1>12. QED BY <1>3, <1>4, <1>5, <1>6, <1>7, <1>8, <1>9, <1>10, <1>11 DEF Server!Next

-----------------------------------------------------------------------------
(* There is room for the failures and the sessions of the handlers under    *)
(* way: they passed the checks before they had theirs.                     *)
Holders(r, q) == {s \in Slots : q[s].rec = r}
LoggingIn(q)  == {s \in Slots : q[s].rec # 0}

RecordRoom  == \A r \in Server!Records :
                 Len(records[r]) + Cardinality(Holders(r, req)) < MaxAttempts + Cardinality(Slots)
SessionRoom == Len(sessions) + Cardinality(LoggingIn(req)) <= site.logins + Cardinality(Slots)

LEMMA FewSlots ==
    ASSUME NEW B, B \subseteq Slots, NEW A, A \subseteq B
    PROVE  /\ IsFiniteSet(A) /\ IsFiniteSet(B) /\ Cardinality(A) \in Nat /\ Cardinality(B) \in Nat
           /\ Cardinality(A) <= Cardinality(B) /\ Cardinality(B) <= Cardinality(Slots)
<1>1. IsFiniteSet(B) /\ Cardinality(B) <= Cardinality(Slots)
  BY Counts, FS_Subset
<1>2. IsFiniteSet(A) /\ Cardinality(A) <= Cardinality(B)
  BY <1>1, FS_Subset
<1>3. QED BY <1>1, <1>2, FS_CardinalityType

LEMMA OneFewer ==
    ASSUME NEW A, A \subseteq Slots, NEW s \in A
    PROVE  Cardinality(A \ {s}) = Cardinality(A) - 1 /\ Cardinality(A) \in Nat
BY FewSlots, FS_RemoveElement

LEMMA HoldersLeave ==
    ASSUME NEW r \in Server!Records, \A o \in Slots : req'[o].rec \in {req[o].rec, 0}
    PROVE  Holders(r, req') \subseteq Holders(r, req) /\ LoggingIn(req') \subseteq LoggingIn(req)
<1>1. r # 0
  BY Counts
<1>2. QED BY <1>1 DEF Holders, LoggingIn

LEMMA StepsRecordRoom ==
    ASSUME SessionsOK, RequestsOK, BrowsersOK, LimiterOK, RecordRoom, Server!Next
    PROVE  RecordRoom'
<1> SUFFICES ASSUME NEW r \in Server!Records
             PROVE  Len(records'[r]) + Cardinality(Holders(r, req')) < MaxAttempts + Cardinality(Slots)
  BY DEF RecordRoom
<1> DEFINE n == Cardinality(Holders(r, req))
           m == Cardinality(Holders(r, req'))
           c == Cardinality(Slots)
           x == Len(records[r])
           y == Len(records'[r])
<1>0. /\ n \in Nat /\ m \in Nat /\ m <= c /\ c \in Nat /\ x \in Nat /\ y \in Nat /\ x + n < MaxAttempts + c
      /\ MaxAttempts \in Nat
  <2>1. Holders(r, req) \subseteq Slots /\ Holders(r, req') \subseteq Slots
    BY DEF Holders
  <2>2. n \in Nat /\ m \in Nat /\ m <= c /\ c \in Nat /\ MaxAttempts \in Nat
    BY <2>1, FewSlots, Counts
  <2>3. records[r] \in Seq(0..now) /\ records'[r] \in Seq(0..now')
    BY StepsLimiter DEF LimiterOK
  <2>4. x \in Nat /\ y \in Nat
    BY <2>3, LenProperties
  <2>5. QED BY <2>2, <2>4 DEF RecordRoom
<1>1. CASE \E s \in Slots, b \in Browsers, right \in BOOLEAN : Server!ArriveLogin(s, b, right)
  <2>1. PICK s \in Slots, b \in Browsers, right \in BOOLEAN : Server!ArriveLogin(s, b, right)
    BY <1>1
  <2>2. CASE r = ArrivalRecord
    <3>1. y < MaxAttempts
      BY <2>1, <2>2, ArriveRecords
    <3>2. QED BY <1>0, <3>1
  <2>3. CASE r # ArrivalRecord
    <3>1. y = x
      BY <2>1, <2>3, ArriveRecords
    <3>2. Holders(r, req') \subseteq Holders(r, req)
      <4>1. req'[s].rec = ArrivalRecord /\ \A o \in Slots \ {s} : req'[o] = req[o]
        BY <2>1, ArriveLoginRequests
      <4>2. QED BY <2>3, <4>1 DEF Holders
    <3>3. m <= n
      BY <3>2, FewSlots DEF Holders
    <3>4. QED BY <1>0, <3>1, <3>3
  <2>4. QED BY <2>2, <2>3
<1>2. CASE ~(\E s \in Slots, b \in Browsers, right \in BOOLEAN : Server!ArriveLogin(s, b, right))
  <2>1. m <= n
    <3>1. Holders(r, req') \subseteq Holders(r, req)
      BY <1>2, RecordsHeld, HoldersLeave
    <3>2. QED BY <3>1, FewSlots DEF Holders
  <2>2. CASE y <= x
    BY <1>0, <2>1, <2>2
  <2>3. CASE \E b \in Browsers : Server!TooMany(b)
    <3>1. y <= x
      <4>1. log \in Server!Records /\ records'[log] = Server!Logged
            /\ \A k \in Server!Records \ {log} : records'[k] = records[k]
        BY <2>3, TooManyRecords
      <4>2. r = log => y <= x
        BY <4>1, LoggedType, Counts
      <4>3. r # log => y = x
        BY <4>1
      <4>4. QED BY <1>0, <4>2, <4>3
    <3>2. QED BY <2>2, <3>1
  <2>4. ASSUME NEW s \in Slots, Refusal(s) PROVE y + m < MaxAttempts + c
    <3>1. CASE r # req[s].rec
      <4>1. y <= x
        BY <2>4, <3>1, RefusalRecords
      <4>2. QED BY <2>2, <4>1
    <3>2. CASE r = req[s].rec
      <4>1. Holders(r, req') \subseteq Holders(r, req) \ {s} /\ s \in Holders(r, req) /\ Holders(r, req) \subseteq Slots
        <5>1. r # 0 /\ req'[s].rec = 0 /\ \A o \in Slots \ {s} : req'[o] = req[o]
          BY <2>4, RefusalRecords, Counts
        <5>2. QED BY <3>2, <5>1 DEF Holders
      <4>2. Cardinality(Holders(r, req) \ {s}) = n - 1
        BY <4>1, OneFewer
      <4>3. m <= n - 1
        <5> DEFINE D == Holders(r, req) \ {s}
        <5>1. D \subseteq Slots /\ Holders(r, req') \subseteq D /\ Cardinality(D) = n - 1
          BY <4>1, <4>2
        <5> HIDE DEF D
        <5>2. QED BY <5>1, FewSlots
      <4>4. y = x + 1
        <5>1. records'[r] = Append(records[r], req[s].when) /\ records[r] \in Seq(0..now) /\ req[s].when \in 0..now
          BY <2>4, <3>2, RefusalRecords DEF LimiterOK
        <5>2. QED BY <5>1
      <4>5. QED BY <1>0, <4>3, <4>4
    <3>3. QED BY <3>1, <3>2
  <2>5. CASE \E s \in Slots : Server!Insert(s) \/ Server!Lose(s)
    <3>1. y <= x
      BY <2>5, EndRecords
    <3>2. QED BY <2>2, <3>1
  <2>6. CASE UNCHANGED Limits
    <3>1. y <= x
      BY <1>0, <2>6 DEF Limits
    <3>2. QED BY <2>2, <3>1
  <2>7. QED BY <1>2, <2>3, <2>4, <2>5, <2>6, LimiterStill
<1>3. QED BY <1>1, <1>2

LEMMA StepsSessionRoom ==
    ASSUME SessionsOK, RequestsOK, BrowsersOK, LimiterOK, SessionRoom, Server!Next
    PROVE  SessionRoom'
<1> DEFINE n == Cardinality(LoggingIn(req))
           m == Cardinality(LoggingIn(req'))
           c == Cardinality(Slots)
           x == Len(sessions)
           y == Len(sessions')
<1>0. /\ n \in Nat /\ m \in Nat /\ m <= c /\ c \in Nat /\ x \in Nat /\ y \in Nat /\ x + n <= site.logins + c
      /\ site.logins \in Nat /\ site' = site
  <2>1. LoggingIn(req) \subseteq Slots /\ LoggingIn(req') \subseteq Slots
    BY DEF LoggingIn
  <2>2. n \in Nat /\ m \in Nat /\ m <= c /\ c \in Nat
    BY <2>1, FewSlots, Counts
  <2>3. site.logins \in Nat
    BY SiteTypes DEF SessionsOK
  <2>4. x \in Nat /\ y \in Nat /\ site' = site
    BY StepsRequests, LenProperties DEF SessionsOK, Grown
  <2>5. QED BY <2>2, <2>3, <2>4 DEF SessionRoom
<1>1. y + m <= site.logins + c
  <2>1. CASE \E s \in Slots, b \in Browsers, right \in BOOLEAN : Server!ArriveLogin(s, b, right)
    <3>1. x < site.logins /\ y = x
      BY <2>1 DEF Server!ArriveLogin, Server!tables
    <3>2. QED BY <1>0, <3>1
  <2>2. CASE ~(\E s \in Slots, b \in Browsers, right \in BOOLEAN : Server!ArriveLogin(s, b, right))
    <3>1. LoggingIn(req') \subseteq LoggingIn(req)
      BY <2>2, RecordsHeld, HoldersLeave DEF LoggingIn
    <3>2. CASE ~(\E s \in Slots : Server!Insert(s))
      <4>1. y = x /\ m <= n
        BY <3>1, <3>2, SessionsAdded, FewSlots DEF LoggingIn
      <4>2. QED BY <1>0, <4>1
    <3>3. ASSUME NEW s \in Slots, Server!Insert(s) PROVE y + m <= site.logins + c
      <4>1. s \in LoggingIn(req) /\ s \notin LoggingIn(req') /\ y = x + 1
        BY <3>3, InsertRequests, InsertTables, RequestFields, StepNames DEF Fits, LoggingIn
      <4>2. Cardinality(LoggingIn(req) \ {s}) = n - 1
        BY <4>1, OneFewer DEF LoggingIn
      <4>3. m <= n - 1
        <5> DEFINE D == LoggingIn(req) \ {s}
        <5>1. D \subseteq Slots /\ LoggingIn(req') \subseteq D /\ Cardinality(D) = n - 1
          BY <3>1, <4>1, <4>2 DEF LoggingIn
        <5> HIDE DEF D
        <5>2. QED BY <5>1, FewSlots
      <4>4. QED BY <1>0, <4>1, <4>3
    <3>4. QED BY <3>2, <3>3
  <2>3. QED BY <2>1, <2>2
<1>2. QED BY <1>0, <1>1 DEF SessionRoom

-----------------------------------------------------------------------------
(* The types together.                                                      *)

LEMMA StepsHistory ==
    ASSUME SessionsOK, RequestsOK, BrowsersOK, LimiterOK, HistoryOK, Server!Next
    PROVE  HistoryOK'
<1>0. Len(sessions) \in Nat /\ Len(sessions') \in Nat /\ Len(sessions) <= Len(sessions')
  BY StepsRequests, LenProperties DEF Grown, SessionsOK
<1>1. CASE UNCHANGED <<overlap, alone, heard, before>>
  <2>1. \A r \in 1..MaxRows : before[r] \in Nat /\ before[r] <= Len(sessions)
    BY DEF HistoryOK
  <2>2. \A r \in 1..MaxRows : before[r] <= Len(sessions')
    BY <1>0, <2>1
  <2>3. QED BY <1>1, <2>2 DEF HistoryOK
<1>2. ASSUME NEW b \in Browsers, Server!Notes(b), UNCHANGED <<overlap, heard, before, sessions>> PROVE HistoryOK'
  <2>1. alone' = [alone EXCEPT ![b] = @ /\ ~Server!Busy(b)]
    BY <1>2 DEF Server!Notes
  <2>2. alone[b] \in BOOLEAN
    BY DEF HistoryOK
  <2>3. (alone[b] /\ ~Server!Busy(b)) \in BOOLEAN
    OBVIOUS
  <2>4. alone' \in [Browsers -> BOOLEAN]
    BY <2>1, <2>3 DEF HistoryOK
  <2>5. QED BY <1>2, <2>4 DEF HistoryOK
<1>3. CASE \E s \in Slots, b \in Browsers : Server!ArriveRefresh(s, b)
  <2>1. PICK s \in Slots, b \in Browsers : Server!ArriveRefresh(s, b)
    BY <1>3
  <2>2. Server!Notes(b) /\ UNCHANGED <<overlap, heard, before, sessions>>
    BY <2>1 DEF Server!ArriveRefresh, Server!tables
  <2>3. QED BY <1>2, <2>2
<1>4. CASE \E s \in Slots, b \in Browsers, right \in BOOLEAN : Server!ArriveLogin(s, b, right)
  <2>1. PICK s \in Slots, b \in Browsers, right \in BOOLEAN : Server!ArriveLogin(s, b, right)
    BY <1>4
  <2>2. Server!Notes(b) /\ UNCHANGED <<overlap, heard, before, sessions>>
    BY <2>1 DEF Server!ArriveLogin, Server!tables
  <2>3. QED BY <1>2, <2>2
<1>5. ASSUME NEW s \in Slots, Server!SelectSessions(s) PROVE HistoryOK'
  <2> DEFINE C == {o \in Slots : req[o].at \in {"evict", "insert"}}
             n == 1 + Server!Cardinality(C)
  <2>1. overlap' = (IF n > overlap THEN n ELSE overlap) /\ UNCHANGED <<alone, heard, before, sessions>>
    BY <1>5 DEF Server!SelectSessions, Server!tables
  <2>2. n \in Nat \ {0}
    <3>1. Cardinality(C) \in Nat
      BY FewSlots
    <3> HIDE DEF C
    <3>2. QED BY <3>1, SameSizes
  <2> HIDE DEF n
  <2>3. QED BY <2>1, <2>2 DEF HistoryOK
<1>6. ASSUME NEW s \in Slots, Server!Lose(s) PROVE HistoryOK'
  <2>1. heard' = [heard EXCEPT ![req[s].by] = @ /\ req[s].op = "login"] /\ UNCHANGED <<overlap, alone, before, sessions>>
        /\ req[s].at # "idle"
    BY <1>6 DEF Server!Lose, Server!tables
  <2>2. req[s].by \in Browsers
    BY <2>1, RequestFields DEF Fits
  <2>3. (heard[req[s].by] /\ req[s].op = "login") \in BOOLEAN
    OBVIOUS
  <2>4. heard' \in [Browsers -> BOOLEAN]
    BY <2>1, <2>2, <2>3 DEF HistoryOK
  <2>5. QED BY <2>1, <2>4 DEF HistoryOK
<1>7. ASSUME NEW r \in DOMAIN devices, NEW d \in Blocks, Server!Block(r, d) PROVE HistoryOK'
  <2>1. before' = [before EXCEPT ![r] = Len(sessions)] /\ UNCHANGED <<overlap, alone, heard>>
    BY <1>7 DEF Server!Block
  <2>2. r \in 1..MaxRows
    BY Lengths, Counts DEF SessionsOK
  <2>3. /\ before' \in [1..MaxRows -> Nat]
        /\ \A x \in 1..MaxRows : before'[x] \in {before[x], Len(sessions)} /\ before[x] \in Nat
    BY <1>0, <2>1, <2>2 DEF HistoryOK
  <2>4. \A x \in 1..MaxRows : before'[x] <= Len(sessions')
    BY <1>0, <2>3 DEF HistoryOK
  <2>5. QED BY <2>1, <2>3, <2>4 DEF HistoryOK
<1>8. CASE \E b \in Browsers : Server!TooMany(b)
  BY <1>1, <1>8 DEF Server!TooMany, Server!history
<1>9. CASE \E s \in Slots : Server!LookUp(s) \/ Server!Register(s) \/ Server!Evict(s) \/ Server!Insert(s)
  BY <1>1, <1>9 DEF Server!LookUp, Server!Register, Server!Evict, Server!Insert, Server!history
<1>10. CASE \E s \in Slots : Server!Select(s) \/ Server!Punish(s) \/ Server!Rotate(s) \/ Server!CheckAccount(s) \/ Server!Deliver(s)
  BY <1>1, <1>10 DEF Server!Select, Server!Punish, Server!Rotate, Server!CheckAccount, Server!Deliver, Server!history
<1>11. CASE \E r \in DOMAIN devices : Server!Unblock(r)
  BY <1>1, <1>11 DEF Server!Unblock, Server!history
<1>12. CASE (\E status : Server!SetAccount(status) \/ Server!SetTenant(status)) \/ Server!Tick
  BY <1>1, <1>12 DEF Server!SetAccount, Server!SetTenant, Server!Tick, Server!history
<1>13. QED BY <1>3, <1>4, <1>5, <1>6, <1>7, <1>8, <1>9, <1>10, <1>11, <1>12 DEF Server!Next

ServerInv == ServerOK /\ RecordRoom /\ SessionRoom

LEMMA StepsServer == ASSUME ServerInv, Server!Next PROVE ServerInv' /\ Grown
<1>1. SessionsOK /\ RequestsOK /\ BrowsersOK /\ LimiterOK /\ HistoryOK /\ RecordRoom /\ SessionRoom
  BY DEF ServerInv, ServerOK
<1>2. SessionsOK' /\ RequestsOK' /\ BrowsersOK' /\ LimiterOK' /\ HistoryOK' /\ Grown
  BY <1>1, StepsRequests, StepsBrowsers, StepsLimiter, StepsHistory
<1>3. RecordRoom' /\ SessionRoom'
  BY <1>1, StepsRecordRoom, StepsSessionRoom
<1>4. QED BY <1>2, <1>3 DEF ServerInv, ServerOK

LEMMA InitServer == Server!Init => ServerInv
<1> SUFFICES ASSUME Server!Init PROVE ServerInv
  OBVIOUS
<1>0. /\ site \in Sites /\ now = 0 /\ devices = <<>> /\ sessions = <<>> /\ log = 0
      /\ records = [r \in Server!Records |-> <<>>] /\ req = [s \in Slots |-> Server!NoRequest]
      /\ held = [b \in Browsers |-> None] /\ access = [b \in Browsers |-> 0]
      /\ overlap = 1 /\ alone = [b \in Browsers |-> TRUE] /\ heard = [b \in Browsers |-> TRUE]
      /\ before = [r \in 1..MaxRows |-> 0] /\ failures = <<>> /\ crowded = FALSE
  BY DEF Server!Init
<1>1. \A T : <<>> \in Seq(T) /\ Len(<<>>) = 0 /\ DOMAIN <<>> = {}
  OBVIOUS
<1>2. SessionsOK
  BY <1>0, <1>1, SiteTypes, Counts DEF SessionsOK
<1>3. RequestsOK
  <2>1. \A s \in Slots : req[s] = Server!NoRequest
    BY <1>0
  <2>2. QED BY <1>0, <1>2, <2>1, BlankFits, BlankRequest DEF RequestsOK
<1>4. BrowsersOK
  BY <1>0, <1>1 DEF BrowsersOK, Holds
<1>5. LimiterOK
  BY <1>0, <1>1 DEF LimiterOK
<1>6. HistoryOK
  BY <1>0, <1>1 DEF HistoryOK
<1>7. \A s \in Slots : req[s].rec = 0
  BY <1>0, BlankRequest
<1>8. RecordRoom
  <2> SUFFICES ASSUME NEW r \in Server!Records
               PROVE  Len(records[r]) + Cardinality(Holders(r, req)) < MaxAttempts + Cardinality(Slots)
    BY DEF RecordRoom
  <2>1. Len(records[r]) = 0
    BY <1>0, <1>1
  <2>2. Cardinality(Holders(r, req)) \in Nat /\ Cardinality(Holders(r, req)) <= Cardinality(Slots)
    BY FewSlots DEF Holders
  <2>3. QED BY <2>1, <2>2, Counts
<1>9. SessionRoom
  <2>1. Cardinality(LoggingIn(req)) \in Nat /\ Cardinality(LoggingIn(req)) <= Cardinality(Slots)
    BY FewSlots DEF LoggingIn
  <2>2. Len(sessions) = 0 /\ site.logins \in Nat
    BY <1>0, <1>1, SiteTypes
  <2>3. QED BY <2>1, <2>2, Counts DEF SessionRoom
<1>10. QED BY <1>2, <1>3, <1>4, <1>5, <1>6, <1>8, <1>9 DEF ServerInv, ServerOK

LEMMA ServerTyped == ASSUME ServerInv, accounts[Member] \in {"active", "suspended"} PROVE Server!TypeOK
<1>1. SessionsOK /\ RequestsOK /\ BrowsersOK /\ LimiterOK /\ RecordRoom /\ SessionRoom
  BY DEF ServerInv, ServerOK
<1>2. Server!Cardinality(Slots) = Cardinality(Slots)
  BY SameSizes
<1>3. Len(sessions) <= site.logins + Cardinality(Slots)
  <2>1. Cardinality(LoggingIn(req)) \in Nat
    BY FewSlots DEF LoggingIn
  <2>2. Len(sessions) \in Nat /\ site.logins \in Nat
    BY <1>1, Lengths, SiteTypes DEF SessionsOK
  <2>3. QED BY <1>1, <2>1, <2>2, Counts DEF SessionRoom
<1>4. \A r \in Server!Records : Len(records[r]) < MaxAttempts + Cardinality(Slots)
  <2> SUFFICES ASSUME NEW r \in Server!Records PROVE Len(records[r]) < MaxAttempts + Cardinality(Slots)
    OBVIOUS
  <2>1. Cardinality(Holders(r, req)) \in Nat
    BY FewSlots DEF Holders
  <2>2. records[r] \in Seq(0..now)
    BY <1>1 DEF LimiterOK
  <2>3. Len(records[r]) \in Nat
    BY <2>2, LenProperties
  <2>4. QED BY <1>1, <2>1, <2>3, Counts DEF RecordRoom
<1>5. \A s \in Slots :
         /\ req[s].at \in Server!LoginSteps \cup Server!RefreshSteps \cup {"idle", "answer"}
         /\ req[s].by \in Browsers \cup {None} /\ req[s].rec \in Server!Records \cup {0}
         /\ req[s].row \in 0..Len(devices) /\ req[s].session \in 0..Len(sessions)
         /\ req[s].evict \subseteq DOMAIN sessions
  BY <1>1, RequestFields, Lengths DEF Fits, Steps
<1>6. held \in [Browsers -> [session: DOMAIN sessions, token: Nat] \cup {None}]
  <2>1. \A b \in Browsers : held[b] \in [session: DOMAIN sessions, token: Nat] \cup {None}
    <3> SUFFICES ASSUME NEW b \in Browsers, held[b] # None PROVE held[b] \in [session: DOMAIN sessions, token: Nat]
      OBVIOUS
    <3>1. held[b] \in Grant /\ held[b].session \in 1..Len(sessions)
      BY <1>1 DEF BrowsersOK, Holds
    <3>2. QED BY <1>1, <3>1, Lengths DEF Grant
  <2>2. QED BY <1>1, <2>1 DEF BrowsersOK
<1>7. access \in [Browsers -> 0..Len(devices)]
  BY <1>1 DEF BrowsersOK, Holds
<1>8. (IF tenants[Home] = "active" THEN "active" ELSE "inactive") \in {"active", "inactive"}
  OBVIOUS
<1>9. QED BY <1>1, <1>2, <1>3, <1>4, <1>5, <1>6, <1>7, <1>8 DEF Server!TypeOK, Server!Account, SessionsOK, LimiterOK

-----------------------------------------------------------------------------
(* Blocks.                                                                  *)

LEMMA Parts == ASSUME ServerInv PROVE SessionsOK /\ RequestsOK /\ BrowsersOK /\ LimiterOK /\ HistoryOK
BY DEF ServerInv, ServerOK

(* A browser begins a request, or every request under way is one that was.  *)
Begins(s, b) ==
    /\ Server!Notes(b) /\ req[s].at = "idle" /\ req'[s].by = b /\ req'[s].at \in {"lookup", "answer", "select"}
    /\ req'[s].row = 0
    /\ \A o \in Slots \ {s} : req'[o] = req[o]
    /\ UNCHANGED <<site, now, devices, sessions, held, access, heard, before, overlap>>
GoesOn ==
    /\ UNCHANGED alone
    /\ \A o \in Slots : req'[o].at # "idle" => req'[o].by = req[o].by /\ req[o].at # "idle"

LEMMA BeginsOrGoesOn ==
    ASSUME ServerInv, Server!Next
    PROVE  (\E s \in Slots, b \in Browsers : Begins(s, b)) \/ GoesOn
<1>0. SessionsOK /\ RequestsOK /\ BrowsersOK /\ LimiterOK
  BY Parts
<1>1. CASE \E s \in Slots, b \in Browsers : Server!ArriveRefresh(s, b)
  <2>1. PICK s \in Slots, b \in Browsers : Server!ArriveRefresh(s, b)
    BY <1>1
  <2>2. /\ Server!Notes(b) /\ req[s].at = "idle"
        /\ UNCHANGED <<site, now, devices, sessions, held, access, heard, before, overlap>>
    BY <2>1 DEF Server!ArriveRefresh, Server!tables, Server!browser
  <2>3. Begins(s, b)
    BY <1>0, <2>1, <2>2, ArriveRefreshRequests DEF Begins
  <2>4. QED BY <2>3
<1>2. CASE \E s \in Slots, b \in Browsers, right \in BOOLEAN : Server!ArriveLogin(s, b, right)
  <2>1. PICK s \in Slots, b \in Browsers, right \in BOOLEAN : Server!ArriveLogin(s, b, right)
    BY <1>2
  <2>2. /\ Server!Notes(b) /\ req[s].at = "idle"
        /\ UNCHANGED <<site, now, devices, sessions, held, access, heard, before, overlap>>
    BY <2>1 DEF Server!ArriveLogin, Server!tables, Server!browser
  <2>3. Begins(s, b)
    BY <1>0, <2>1, <2>2, ArriveLoginRequests DEF Begins
  <2>4. QED BY <2>3
<1>3. ASSUME NEW s \in Slots, Server!Ends(s), UNCHANGED alone PROVE GoesOn
  <2>1. req'[s] = Server!NoRequest /\ \A o \in Slots \ {s} : req'[o] = req[o]
    BY <1>0, <1>3 DEF Server!Ends, RequestsOK
  <2>2. QED BY <1>3, <2>1, BlankRequest DEF GoesOn
<1>4. ASSUME NEW s \in Slots, SameRequest(s), UNCHANGED alone, req[s].at # "idle" PROVE GoesOn
  BY <1>4 DEF SameRequest, GoesOn
<1>5. CASE UNCHANGED <<alone, req>>
  BY <1>5 DEF GoesOn
<1>6. CASE \E b \in Browsers : Server!TooMany(b)
  BY <1>5, <1>6 DEF Server!TooMany, Server!history
<1>7. ASSUME NEW s \in Slots, Server!LookUp(s) PROVE GoesOn
  <2>1. UNCHANGED alone /\ req[s].at = "lookup"
    BY <1>7 DEF Server!LookUp
  <2>2. CASE ~Server!Ends(s)
    BY <1>0, <1>4, <1>7, <2>1, <2>2, LookUpRequests
  <2>3. QED BY <1>3, <2>1, <2>2
<1>8. ASSUME NEW s \in Slots, Server!Register(s) \/ Server!SelectSessions(s) \/ Server!Evict(s) \/ Server!Insert(s) PROVE GoesOn
  <2>1. UNCHANGED alone
    BY <1>8 DEF Server!Register, Server!SelectSessions, Server!Evict, Server!Insert, Server!history
  <2>2. SameRequest(s) /\ req[s].at # "idle"
    BY <1>0, <1>8, RegisterRequests, SelectRequests, EvictRequests, InsertRequests
  <2>3. QED BY <1>4, <2>1, <2>2
<1>9. ASSUME NEW s \in Slots, Server!Select(s) \/ Server!Punish(s) \/ Server!Rotate(s) \/ Server!CheckAccount(s) PROVE GoesOn
  <2>1. UNCHANGED alone
    BY <1>9 DEF Server!Select, Server!Punish, Server!Rotate, Server!CheckAccount, Server!history
  <2>2. SameRequest(s) /\ req[s].at # "idle"
    BY <1>0, <1>9, SelectRowRequests, PunishRequests, RotateRequests, CheckAccountRequests
  <2>3. QED BY <1>4, <2>1, <2>2
<1>10. ASSUME NEW s \in Slots, Server!Deliver(s) \/ Server!Lose(s) PROVE GoesOn
  <2>1. UNCHANGED alone /\ Server!Ends(s)
    BY <1>10 DEF Server!Deliver, Server!Lose, Server!history
  <2>2. QED BY <1>3, <2>1
<1>11. CASE \E r \in DOMAIN devices : Server!Unblock(r) \/ \E d \in Blocks : Server!Block(r, d)
  BY <1>5, <1>11 DEF Server!Unblock, Server!Block, Server!history
<1>12. CASE (\E status : Server!SetAccount(status) \/ Server!SetTenant(status)) \/ Server!Tick
  BY <1>5, <1>12 DEF Server!SetAccount, Server!SetTenant, Server!Tick, Server!history
<1>13. QED BY <1>1, <1>2, <1>6, <1>7, <1>8, <1>9, <1>10, <1>11, <1>12 DEF Server!Next

(* Which rows are whose changes by registerDevice alone.                    *)
LEMMA RowsStay ==
    ASSUME ServerInv, Server!Next, ~(\E s \in Slots : Server!Register(s))
    PROVE  Len(devices') = Len(devices)
<1>1. CASE UNCHANGED devices
  BY <1>1
<1>2. CASE \E s \in Slots, b \in Browsers : Server!ArriveRefresh(s, b) \/ \E right \in BOOLEAN : Server!ArriveLogin(s, b, right)
  BY <1>1, <1>2 DEF Server!ArriveRefresh, Server!ArriveLogin, Server!tables
<1>3. CASE \E b \in Browsers : Server!TooMany(b)
  BY <1>1, <1>3 DEF Server!TooMany, Server!tables
<1>4. CASE \E s \in Slots : Server!LookUp(s) \/ Server!SelectSessions(s) \/ Server!Evict(s) \/ Server!Insert(s)
  BY <1>1, <1>4 DEF Server!LookUp, Server!SelectSessions, Server!Evict, Server!Insert, Server!tables
<1>5. CASE \E s \in Slots : Server!Select(s) \/ Server!Punish(s) \/ Server!Rotate(s) \/ Server!CheckAccount(s) \/ Server!Deliver(s) \/ Server!Lose(s)
  BY <1>1, <1>5 DEF Server!Select, Server!Punish, Server!Rotate, Server!CheckAccount, Server!Deliver, Server!Lose, Server!tables
<1>6. ASSUME NEW r \in DOMAIN devices, Server!Unblock(r) \/ \E d \in Blocks : Server!Block(r, d) PROVE Len(devices') = Len(devices)
  <2>1. PICK v : devices' = [devices EXCEPT ![r].until = v]
    BY <1>6 DEF Server!Unblock, Server!Block
  <2>2. SessionsOK' /\ SessionsOK
    BY <1>6, BlockTables, Parts
  <2>3. DOMAIN devices' = DOMAIN devices
    BY <2>1
  <2>4. devices \in Seq(Server!Device) /\ devices' \in Seq(Server!Device)
    BY <2>2 DEF SessionsOK
  <2>5. DOMAIN devices' = 1..Len(devices') /\ DOMAIN devices = 1..Len(devices) /\ Len(devices) \in Nat /\ Len(devices') \in Nat
    BY <2>4, LenProperties
  <2> DEFINE m == Len(devices)
             n == Len(devices')
  <2>6. 1..m = 1..n /\ m \in Nat /\ n \in Nat
    BY <2>3, <2>5
  <2> HIDE DEF m, n
  <2>7. (m # 0 => m \in 1..n) /\ (n # 0 => n \in 1..m)
    <3>1. (m # 0 => m \in 1..m) /\ (n # 0 => n \in 1..n)
      BY <2>6
    <3>2. QED BY <2>6, <3>1
  <2>8. m = n
    BY <2>6, <2>7
  <2>9. QED BY <2>8 DEF m, n
<1>7. CASE (\E status : Server!SetAccount(status) \/ Server!SetTenant(status)) \/ Server!Tick
  BY <1>1, <1>7 DEF Server!SetAccount, Server!SetTenant, Server!Tick, Server!tables
<1>8. QED BY <1>2, <1>3, <1>4, <1>5, <1>6, <1>7 DEF Server!Next

-----------------------------------------------------------------------------
(* A browser that never has two requests under way has one row at most.     *)
OneRow(b) ==
    alone[b] =>
      /\ \A s \in Slots, o \in Slots : req[s].at # "idle" /\ req[o].at # "idle" /\ req[s].by = b /\ req[o].by = b => s = o
      /\ \A r \in Server!RowsOf(b), x \in Server!RowsOf(b) : r = x
      /\ \A s \in Slots : req[s].by = b /\ req[s].at = "register" => Server!RowsOf(b) = {}

LEMMA SameRows ==
    ASSUME ServerInv, Grown, Len(devices') = Len(devices), DOMAIN devices' = 1..Len(devices')
    PROVE  \A b : Server!RowsOf(b)' = Server!RowsOf(b)
<1>1. \A r \in 1..Len(devices) : devices'[r].browser = devices[r].browser
  BY DEF Grown
<1>2. QED BY <1>1, Parts, Lengths DEF Server!RowsOf

LEMMA RegistersAnew ==
    ASSUME ServerInv, Server!Next, ~(\E s \in Slots : Server!Register(s)), NEW o \in Slots, req'[o].at = "register"
    PROVE  req'[o].by = req[o].by /\ (req[o].at = "register" \/ Server!RowsOf(req[o].by) = {})
<1>0. SessionsOK /\ RequestsOK /\ BrowsersOK /\ LimiterOK
  BY Parts
<1>1. CASE \E s \in Slots, b \in Browsers : Begins(s, b)
  BY <1>1 DEF Begins
<1>2. CASE req'[o] = req[o]
  BY <1>2
<1>3. ASSUME NEW s \in Slots, Server!Ends(s) PROVE req'[o] = req[o]
  BY <1>0, <1>3, BlankRequest DEF Server!Ends, RequestsOK
<1>4. ASSUME NEW s \in Slots, Server!LookUp(s)
      PROVE  req'[o].by = req[o].by /\ (req[o].at = "register" \/ Server!RowsOf(req[o].by) = {})
  <2>1. CASE ~Server!Ends(s)
    BY <1>0, <1>2, <1>4, <2>1, LookUpRequests DEF SameRequest
  <2>2. QED BY <1>2, <1>3, <2>1
<1>5. CASE \E s \in Slots : Server!SelectSessions(s) \/ Server!Evict(s) \/ Server!Insert(s)
  BY <1>0, <1>2, <1>5, SelectRequests, EvictRequests, InsertRequests DEF SameRequest
<1>6. CASE \E s \in Slots : Server!Select(s) \/ Server!Punish(s) \/ Server!Rotate(s) \/ Server!CheckAccount(s)
  BY <1>0, <1>2, <1>6, SelectRowRequests, PunishRequests, RotateRequests, CheckAccountRequests DEF SameRequest
<1>7. CASE \E s \in Slots : Server!Deliver(s) \/ Server!Lose(s)
  BY <1>2, <1>3, <1>7 DEF Server!Deliver, Server!Lose
<1>8. CASE \E s \in Slots, b \in Browsers : Server!ArriveRefresh(s, b) \/ \E right \in BOOLEAN : Server!ArriveLogin(s, b, right)
  <2>1. PICK s \in Slots, b \in Browsers : Server!ArriveRefresh(s, b) \/ \E right \in BOOLEAN : Server!ArriveLogin(s, b, right)
    BY <1>8
  <2>2. (\A p \in Slots \ {s} : req'[p] = req[p]) /\ req'[s].at \in {"lookup", "answer", "select"}
    BY <1>0, <2>1, ArriveRefreshRequests, ArriveLoginRequests
  <2>3. QED BY <1>2, <2>2
<1>9. CASE (\E b \in Browsers : Server!TooMany(b)) \/ \E r \in DOMAIN devices : Server!Unblock(r) \/ \E d \in Blocks : Server!Block(r, d)
  BY <1>2, <1>9 DEF Server!TooMany, Server!Unblock, Server!Block
<1>10. CASE (\E status : Server!SetAccount(status) \/ Server!SetTenant(status)) \/ Server!Tick
  BY <1>2, <1>10 DEF Server!SetAccount, Server!SetTenant, Server!Tick
<1>11. QED BY <1>4, <1>5, <1>6, <1>7, <1>8, <1>9, <1>10 DEF Server!Next

LEMMA StepsOneRow == ASSUME ServerInv, \A b \in Browsers : OneRow(b), Server!Next PROVE \A b \in Browsers : OneRow(b)'
<1> SUFFICES ASSUME NEW b \in Browsers PROVE OneRow(b)'
  OBVIOUS
<1>0. SessionsOK /\ RequestsOK /\ BrowsersOK /\ LimiterOK /\ OneRow(b) /\ SessionsOK' /\ Grown
  BY Parts, StepsServer DEF ServerInv, ServerOK
<1>1. DOMAIN devices' = 1..Len(devices')
  BY <1>0, LenProperties DEF SessionsOK
<1>2. alone'[b] => alone[b] /\ \A s \in Slots, o \in Slots :
                     req'[s].at # "idle" /\ req'[o].at # "idle" /\ req'[s].by = b /\ req'[o].by = b => s = o
  <2>1. CASE GoesOn
    BY <1>0, <2>1 DEF GoesOn, OneRow
  <2>2. ASSUME NEW s \in Slots, NEW c \in Browsers, Begins(s, c)
        PROVE  alone'[b] => alone[b] /\ \A x \in Slots, o \in Slots :
                     req'[x].at # "idle" /\ req'[o].at # "idle" /\ req'[x].by = b /\ req'[o].by = b => x = o
    <3>1. alone' = [alone EXCEPT ![c] = @ /\ ~Server!Busy(c)] /\ alone \in [Browsers -> BOOLEAN]
      BY <2>2, Parts DEF Begins, Server!Notes, HistoryOK
    <3>2. req'[s].by = c /\ \A o \in Slots \ {s} : req'[o] = req[o]
      BY <2>2 DEF Begins
    <3>3. CASE c = b
      <4>1. alone'[b] => alone[b] /\ ~Server!Busy(b)
        BY <3>1, <3>3
      <4>2. ~Server!Busy(b) => \A o \in Slots \ {s} : req'[o].by # b
        BY <3>2 DEF Server!Busy
      <4>3. QED BY <4>1, <4>2
    <3>4. CASE c # b
      <4>1. alone'[b] = alone[b]
        BY <3>1, <3>4
      <4>2. \A x \in Slots, o \in Slots :
              req'[x].at # "idle" /\ req'[o].at # "idle" /\ req'[x].by = b /\ req'[o].by = b => x # s /\ o # s
        BY <3>2, <3>4
      <4>3. QED BY <1>0, <3>2, <4>1, <4>2 DEF OneRow
    <3>5. QED BY <3>3, <3>4
  <2>3. QED BY <2>1, <2>2, BeginsOrGoesOn
<1>3. CASE ~(\E s \in Slots : Server!Register(s))
  <2>1. Server!RowsOf(b)' = Server!RowsOf(b)
    BY <1>0, <1>1, <1>3, RowsStay, SameRows
  <2>2. alone'[b] => \A s \in Slots : req'[s].by = b /\ req'[s].at = "register" => Server!RowsOf(b) = {}
    BY <1>0, <1>2, <1>3, RegistersAnew DEF OneRow
  <2>3. QED BY <1>0, <1>2, <2>1, <2>2 DEF OneRow
<1>4. ASSUME NEW s \in Slots, Server!Register(s) PROVE OneRow(b)'
  <2>1. /\ req[s].at = "register" /\ req'[s].at = "sessions" /\ req'[s].by = req[s].by
        /\ \A o \in Slots \ {s} : req'[o] = req[o]
    BY <1>0, <1>4, RegisterRequests DEF SameRequest
  <2>2. /\ Len(devices') = Len(devices) + 1 /\ devices'[Len(devices) + 1].browser = req[s].by
        /\ \A r \in 1..Len(devices) : devices'[r] = devices[r]
    BY <1>0, <1>4, RegisterTables
  <2>3. Server!RowsOf(b)' = IF req[s].by = b THEN Server!RowsOf(b) \cup {Len(devices) + 1} ELSE Server!RowsOf(b)
    <3>1. /\ Server!RowsOf(b)' = {r \in 1..Len(devices') : devices'[r].browser = b}
          /\ Server!RowsOf(b) = {r \in 1..Len(devices) : devices[r].browser = b}
      BY <1>0, <1>1, Lengths DEF Server!RowsOf
    <3>2. 1..Len(devices') = 1..Len(devices) \cup {Len(devices) + 1}
      BY <1>0, <2>2, Lengths
    <3>3. \A r \in 1..Len(devices) : r # Len(devices) + 1
      BY <1>0, Lengths
    <3>4. QED BY <2>2, <3>1, <3>2, <3>3
  <2>4. CASE req[s].by # b
    <3>1. \A o \in Slots : req'[o].by = b /\ req'[o].at = "register" => req[o].by = b /\ req[o].at = "register"
      BY <2>1
    <3>2. Server!RowsOf(b)' = Server!RowsOf(b)
      BY <2>3, <2>4
    <3>3. QED BY <1>0, <1>2, <3>1, <3>2 DEF OneRow
  <2>5. CASE req[s].by = b
    <3>1. alone'[b] => Server!RowsOf(b)' = {Len(devices) + 1}
      BY <1>0, <1>2, <2>1, <2>3, <2>5 DEF OneRow
    <3>2. alone'[b] => \A o \in Slots : ~(req'[o].by = b /\ req'[o].at = "register")
      BY <1>2, <2>1, <2>5
    <3>3. QED BY <1>2, <3>1, <3>2 DEF OneRow
  <2>6. QED BY <2>4, <2>5
<1>5. QED BY <1>3, <1>4

LEMMA BrowsersReached == ASSUME ServerInv, \A b \in Browsers : OneRow(b) PROVE Server!BlockReachesBrowser
<1> SUFFICES ASSUME NEW b \in Browsers, alone[b], NEW r \in Server!RowsOf(b)
             PROVE  /\ access[b] \in {0, r}
                    /\ \A s \in Slots : req[s].by = b /\ req[s].op = "login" => req[s].row \in {0, r}
  BY DEF Server!BlockReachesBrowser
<1>0. SessionsOK /\ RequestsOK /\ BrowsersOK
  BY Parts
<1>1. \A x \in Server!RowsOf(b) : x = r
  BY DEF OneRow
<1>2. access[b] # 0 => access[b] \in Server!RowsOf(b)
  BY <1>0, Lengths DEF BrowsersOK, Holds, Server!RowsOf
<1>3. \A s \in Slots : req[s].by = b /\ req[s].row # 0 => req[s].row \in Server!RowsOf(b)
  BY <1>0, Lengths, RequestFields DEF Fits, Server!RowsOf
<1>4. QED BY <1>1, <1>2, <1>3

-----------------------------------------------------------------------------
(* Sessions that were there when their device was blocked are dead.         *)
LEMMA BeforeStays ==
    ASSUME Server!Next, ~(\E r \in DOMAIN devices : \E d \in Blocks : Server!Block(r, d))
    PROVE  before' = before
<1>1. CASE \E s \in Slots, b \in Browsers : Server!ArriveRefresh(s, b) \/ \E right \in BOOLEAN : Server!ArriveLogin(s, b, right)
  BY <1>1 DEF Server!ArriveRefresh, Server!ArriveLogin
<1>2. CASE \E b \in Browsers : Server!TooMany(b)
  BY <1>2 DEF Server!TooMany, Server!history
<1>3. CASE \E s \in Slots : Server!LookUp(s) \/ Server!Register(s) \/ Server!SelectSessions(s) \/ Server!Evict(s) \/ Server!Insert(s)
  BY <1>3 DEF Server!LookUp, Server!Register, Server!SelectSessions, Server!Evict, Server!Insert, Server!history
<1>4. CASE \E s \in Slots : Server!Select(s) \/ Server!Punish(s) \/ Server!Rotate(s) \/ Server!CheckAccount(s) \/ Server!Deliver(s) \/ Server!Lose(s)
  BY <1>4 DEF Server!Select, Server!Punish, Server!Rotate, Server!CheckAccount, Server!Deliver, Server!Lose, Server!history
<1>5. CASE \E r \in DOMAIN devices : Server!Unblock(r)
  BY <1>5 DEF Server!Unblock, Server!history
<1>6. CASE (\E status : Server!SetAccount(status) \/ Server!SetTenant(status)) \/ Server!Tick
  BY <1>6 DEF Server!SetAccount, Server!SetTenant, Server!Tick, Server!history
<1>7. QED BY <1>1, <1>2, <1>3, <1>4, <1>5, <1>6 DEF Server!Next

LEMMA StepsBlockEnds == ASSUME ServerInv, Server!BlockEndsSessions, Server!Next PROVE Server!BlockEndsSessions'
<1>0. SessionsOK /\ RequestsOK /\ BrowsersOK /\ LimiterOK /\ HistoryOK /\ SessionsOK' /\ HistoryOK' /\ Grown
  BY Parts, StepsServer DEF ServerInv, ServerOK
<1>1. DOMAIN sessions' = 1..Len(sessions') /\ DOMAIN sessions = 1..Len(sessions) /\ Len(sessions) \in Nat
  BY <1>0, LenProperties DEF SessionsOK
<1>2. \A i \in 1..Len(sessions) : sessions'[i].row = sessions[i].row /\ (Server!Live(i)' => Server!Live(i))
  <2> SUFFICES ASSUME NEW i \in 1..Len(sessions) PROVE sessions'[i].row = sessions[i].row /\ (Server!Live(i)' => Server!Live(i))
    OBVIOUS
  <2>1. /\ sessions'[i].row = sessions[i].row /\ sessions'[i].expires = sessions[i].expires
        /\ (sessions[i].revoked => sessions'[i].revoked) /\ now <= now'
    BY <1>0 DEF Grown
  <2>2. now \in Int /\ now' \in Int /\ sessions[i].expires \in Int
    BY <1>0, Lengths DEF SessionsOK
  <2>3. QED BY <2>1, <2>2 DEF Server!Live
<1>3. \A i \in 1..Len(sessions) : sessions[i].row \in 1..MaxRows
  BY <1>0, Lengths, Counts DEF SessionsOK
<1>4. CASE before' = before
  <2> SUFFICES ASSUME NEW i \in 1..Len(sessions'), i <= before[sessions'[i].row], Server!Live(i)' PROVE FALSE
    BY <1>1, <1>4 DEF Server!BlockEndsSessions
  <2>1. CASE i \in 1..Len(sessions)
    BY <1>1, <1>2, <2>1 DEF Server!BlockEndsSessions
  <2>2. CASE i \notin 1..Len(sessions)
    <3>1. i > Len(sessions) /\ i \in Nat
      BY <1>1, <2>2
    <3>2. sessions'[i].row \in 1..MaxRows
      <4>1. sessions'[i].row \in DOMAIN devices' /\ DOMAIN devices' = 1..Len(devices') /\ Len(devices') <= MaxRows
            /\ Len(devices') \in Nat
        BY <1>0, <1>1, LenProperties DEF SessionsOK
      <4>2. QED BY <4>1, Counts
    <3>3. before[sessions'[i].row] <= Len(sessions) /\ before[sessions'[i].row] \in Nat
      BY <1>0, <3>2 DEF HistoryOK
    <3>4. QED BY <1>1, <3>1, <3>3
  <2>3. QED BY <2>1, <2>2
<1>5. ASSUME NEW r \in DOMAIN devices, NEW d \in Blocks, Server!Block(r, d) PROVE Server!BlockEndsSessions'
  <2>1. /\ sessions' = Server!Revoke(Server!LiveOf(r)) /\ before' = [before EXCEPT ![r] = Len(sessions)]
        /\ now' = now
    BY <1>5 DEF Server!Block, Server!BlockedSessions
  <2>2. Len(sessions') = Len(sessions) /\ \A i \in 1..Len(sessions) : i \in Server!LiveOf(r) => sessions'[i].revoked
    BY <1>0, <2>1, Revoking
  <2> SUFFICES ASSUME NEW i \in 1..Len(sessions), i <= before'[sessions'[i].row], Server!Live(i)' PROVE FALSE
    BY <1>1, <2>2 DEF Server!BlockEndsSessions
  <2>3. CASE sessions[i].row = r
    <3>1. i \in Server!LiveOf(r)
      BY <1>1, <1>2, <2>3 DEF Server!LiveOf
    <3>2. QED BY <2>2, <3>1 DEF Server!Live
  <2>4. CASE sessions[i].row # r
    <3>1. before'[sessions'[i].row] = before[sessions[i].row]
      BY <1>0, <1>2, <1>3, <2>1, <2>4 DEF HistoryOK
    <3>2. QED BY <1>1, <1>2, <3>1 DEF Server!BlockEndsSessions
  <2>5. QED BY <2>3, <2>4
<1>6. CASE ~(\E r \in DOMAIN devices : \E d \in Blocks : Server!Block(r, d))
  BY <1>4, <1>6, BeforeStays
<1>7. QED BY <1>5, <1>6

-----------------------------------------------------------------------------
(* The limiter's count.                                                    *)

(* While attempts do not meet, one handler at most holds a record, the one  *)
(* of the map or a new one, and the map's has the failures in it.           *)
Counted ==
    ~crowded =>
      /\ \A s \in Slots, o \in Slots : req[s].rec # 0 /\ req[o].rec # 0 => s = o
      /\ \A s \in Slots : req[s].rec # 0 => log = req[s].rec \/ (log = 0 /\ records[req[s].rec] = <<>>)
      /\ Server!Logged = Server!Pruned(failures)

LEMMA TimesAreNumbers ==
    ASSUME SessionsOK, LimiterOK
    PROVE  now \in Nat /\ failures \in Seq(Nat) /\ \A r \in Server!Records : records[r] \in Seq(Nat)
<1>1. now \in Nat /\ 0..now \subseteq Nat
  BY Lengths
<1>2. failures \in Seq(0..now) /\ \A r \in Server!Records : records[r] \in Seq(0..now)
  BY DEF LimiterOK
<1>3. QED BY <1>1, <1>2, SeqMonotonic

LEMMA PrunedTwice == ASSUME NEW t \in Nat PROVE \A x \in Seq(Nat) : Server!PruneOld(Server!PruneOld(x, t), t) = Server!PruneOld(x, t)
BY PruneTwice

(* Two logs that are alike once pruned are alike after a failure, and later. *)
LEMMA AlikeAppended ==
    ASSUME NEW t \in Nat, NEW w \in Nat, NEW x \in Seq(Nat), NEW y \in Seq(Nat),
           Server!PruneOld(x, t) = Server!PruneOld(y, t)
    PROVE  Server!PruneOld(Append(x, w), t) = Server!PruneOld(Append(Server!PruneOld(y, t), w), t)
<1> DEFINE p == Server!PruneOld(y, t)
<1>1. p \in Seq(Nat)
  BY PruneType
<1>2. Server!PruneOld(p, t) = p
  BY PrunedTwice
<1> HIDE DEF p
<1>3. Server!PruneOld(Append(x, w), t) = IF w + Window > t THEN Append(Server!PruneOld(x, t), w) ELSE Server!PruneOld(x, t)
  BY PruneAppend
<1>4. Server!PruneOld(Append(p, w), t) = IF w + Window > t THEN Append(Server!PruneOld(p, t), w) ELSE Server!PruneOld(p, t)
  BY <1>1, PruneAppend
<1>5. Server!PruneOld(x, t) = p
  BY DEF p
<1>6. QED BY <1>2, <1>3, <1>4, <1>5 DEF p

LEMMA AlikeLater ==
    ASSUME NEW t \in Nat, NEW u \in Nat, t <= u, NEW x \in Seq(Nat), NEW y \in Seq(Nat),
           Server!PruneOld(x, t) = Server!PruneOld(y, t)
    PROVE  Server!PruneOld(x, u) = Server!PruneOld(y, u)
<1>1. Server!PruneOld(Server!PruneOld(x, t), u) = Server!PruneOld(x, u)
  BY PruneTwice
<1>2. Server!PruneOld(Server!PruneOld(y, t), u) = Server!PruneOld(y, u)
  BY PruneTwice
<1>3. QED BY <1>1, <1>2

(* What is logged, as a pruned sequence.                                    *)
Source == IF log = 0 THEN <<>> ELSE records[log]

LEMMA LoggedSource ==
    ASSUME SessionsOK, LimiterOK
    PROVE  Source \in Seq(Nat) /\ Server!Logged = Server!PruneOld(Source, now)
<1>1. <<>> \in Seq(Nat) /\ Server!PruneOld(<<>>, now) = <<>>
  BY PruneEmpty
<1>2. log # 0 => records[log] \in Seq(Nat)
  BY TimesAreNumbers DEF LimiterOK
<1>3. QED BY <1>1, <1>2 DEF Source, Server!Logged, Server!Pruned

LEMMA StepsCounted == ASSUME ServerInv, Counted, Server!Next PROVE Counted'
<1>0. /\ SessionsOK /\ RequestsOK /\ BrowsersOK /\ LimiterOK
      /\ SessionsOK' /\ LimiterOK' /\ Grown
  BY Parts, StepsServer DEF ServerInv, ServerOK
<1>a. now \in Nat /\ now' \in Nat /\ now <= now' /\ failures \in Seq(Nat) /\ Source \in Seq(Nat)
      /\ \A r \in Server!Records : records[r] \in Seq(Nat)
  <2>1. site' \in Sites /\ now' \in 0..site'.till
    BY <1>0 DEF SessionsOK
  <2>2. now' \in Nat
    BY <2>1, SiteTypes
  <2>3. QED BY <1>0, <2>2, TimesAreNumbers, LoggedSource DEF Grown
<1>b. Server!Logged = Server!PruneOld(Source, now) /\ Server!Pruned(failures) = Server!PruneOld(failures, now)
  BY <1>0, LoggedSource DEF Server!Pruned
<1>c. Server!Logged' = Server!PruneOld(Source', now') /\ Server!Pruned(failures)' = Server!PruneOld(failures', now')
  <2>1. Server!PruneOld(<<>>, now') = <<>>
    BY PruneEmpty
  <2>2. Server!Logged' = Server!PruneOld(Source', now')
    BY <2>1 DEF Source, Server!Logged, Server!Pruned
  <2>3. QED BY <2>2 DEF Server!Pruned
<1>d. 0 \notin Server!Records
  BY Counts
<1>1. ASSUME NEW s \in Slots, NEW b \in Browsers, NEW right \in BOOLEAN, Server!ArriveLogin(s, b, right), ~crowded'
      PROVE  Counted'
  <2>1. /\ ArrivalRecord \in Server!Records
        /\ records'[ArrivalRecord] = Server!Logged
        /\ UNCHANGED <<log, failures>> /\ ~crowded /\ \A o \in Slots : req[o].rec = 0
    BY <1>0, <1>1, ArriveRecords
  <2>2. req'[s].rec = ArrivalRecord /\ \A o \in Slots \ {s} : req'[o] = req[o]
    BY <1>0, <1>1, ArriveLoginRequests
  <2>3. now' = now
    BY <1>1 DEF Server!ArriveLogin
  <2>4. \A o \in Slots : req'[o].rec # 0 => o = s
    BY <2>1, <2>2
  <2>5. log' = ArrivalRecord \/ (log' = 0 /\ records'[ArrivalRecord] = <<>>)
    BY <2>1 DEF ArrivalRecord, Server!Logged
  <2>6. Server!Logged' = Server!Logged
    <3>1. CASE log = 0
      BY <2>1, <3>1 DEF Server!Logged
    <3>2. CASE log # 0
      <4>1. Source' = Server!PruneOld(Source, now)
        BY <1>b, <2>1, <3>2 DEF Source, ArrivalRecord
      <4>2. QED BY <1>a, <1>b, <1>c, <2>3, <4>1, PrunedTwice
    <3>3. QED BY <3>1, <3>2
  <2>7. Server!Logged' = Server!Pruned(failures)'
    BY <1>b, <1>c, <2>1, <2>3, <2>6 DEF Counted
  <2>8. QED BY <2>2, <2>4, <2>5, <2>7 DEF Counted
<1>2. ASSUME NEW b \in Browsers, Server!TooMany(b), ~crowded' PROVE Counted'
  <2>1. /\ log \in Server!Records /\ records'[log] = Server!Logged
        /\ \A r \in Server!Records \ {log} : records'[r] = records[r]
        /\ UNCHANGED <<now, log, req, failures, crowded>>
    BY <1>0, <1>2, TooManyRecords
  <2>2. Source' = Server!PruneOld(Source, now)
    BY <1>b, <1>d, <2>1 DEF Source
  <2>3. Server!Logged' = Server!Logged
    BY <1>a, <1>b, <1>c, <2>1, <2>2, PrunedTwice
  <2>4. Server!Logged' = Server!Pruned(failures)'
    BY <1>2, <1>b, <1>c, <2>1, <2>3 DEF Counted
  <2>5. \A o \in Slots : req'[o].rec # 0 => log' = req'[o].rec \/ (log' = 0 /\ records'[req'[o].rec] = <<>>)
    BY <1>2, <1>d, <2>1 DEF Counted
  <2>6. QED BY <1>2, <2>1, <2>4, <2>5 DEF Counted
<1>3. ASSUME NEW s \in Slots, Refusal(s), ~crowded' PROVE Counted'
  <2>1. /\ req[s].rec \in Server!Records /\ log' = req[s].rec /\ req[s].when \in 0..now
        /\ records'[req[s].rec] = Append(records[req[s].rec], req[s].when)
        /\ failures' = Append(Server!Pruned(failures), req[s].when)
        /\ req'[s].rec = 0 /\ \A o \in Slots \ {s} : req'[o] = req[o]
    BY <1>0, <1>3, RefusalRecords
  <2>2. now' = now /\ ~crowded
    BY <1>3 DEF Refusal
  <2>3. \A o \in Slots : req'[o].rec = 0
    BY <1>d, <2>1, <2>2 DEF Counted
  <2> DEFINE x == records[req[s].rec]
             w == req[s].when
  <2>4. x = Source
    <3>1. log = req[s].rec \/ (log = 0 /\ records[req[s].rec] = <<>>)
      BY <1>d, <2>1, <2>2 DEF Counted
    <3>2. QED BY <1>d, <2>1, <3>1 DEF Source
  <2>5. Source' = Append(x, w)
    BY <1>d, <2>1 DEF Source
  <2>6. w \in Nat /\ Server!PruneOld(x, now) = Server!PruneOld(failures, now)
    BY <1>a, <1>b, <2>1, <2>2, <2>4 DEF Counted
  <2>7. Server!PruneOld(Append(x, w), now) = Server!PruneOld(Append(Server!PruneOld(failures, now), w), now)
    <3>1. x \in Seq(Nat)
      BY <1>a, <2>1
    <3> HIDE DEF x, w
    <3>2. QED BY <1>a, <2>6, <3>1, AlikeAppended
  <2>8. Server!Logged' = Server!Pruned(failures)'
    BY <1>b, <1>c, <2>1, <2>2, <2>5, <2>7
  <2>9. QED BY <2>3, <2>8 DEF Counted
<1>4. ASSUME NEW s \in Slots, Server!Insert(s) \/ Server!Lose(s), ~crowded' PROVE Counted'
  <2>1. /\ log' \in {0, log}
        /\ \A r \in Server!Records : r = log' => records'[r] = records[r]
        /\ \A r \in Server!Records, o \in Slots : req'[o].rec = r => records'[r] = records[r]
        /\ req'[s].rec = 0 /\ \A o \in Slots \ {s} : req'[o] = req[o]
        /\ crowded' = crowded
        /\ \/ log' = 0 /\ failures' = <<>> /\ Server!Insert(s)
           \/ log' = log /\ failures' = failures /\ UNCHANGED sessions
    BY <1>0, <1>4, EndRecords
  <2>2. now' = now
    BY <1>4 DEF Server!Insert, Server!Lose
  <2>3. \A o \in Slots, p \in Slots : req'[o].rec # 0 /\ req'[p].rec # 0 => o = p
    BY <1>4, <2>1 DEF Counted
  <2>4. CASE log' = 0 /\ failures' = <<>> /\ Server!Insert(s)
    <3>1. req[s].rec # 0
      BY <1>0, <2>4, InsertRequests, RequestFields, StepNames DEF Fits
    <3>2. \A o \in Slots : req'[o].rec = 0
      BY <1>4, <2>1, <3>1 DEF Counted
    <3>3. Server!Logged' = Server!Pruned(failures)'
      BY <1>c, <2>4, PruneEmpty DEF Source
    <3>4. QED BY <3>2, <3>3 DEF Counted
  <2>5. CASE log' = log /\ failures' = failures
    <3>1. Source' = Source
      BY <1>0, <2>1, <2>5 DEF Source, LimiterOK
    <3>2. Server!Logged' = Server!Pruned(failures)'
      BY <1>4, <1>b, <1>c, <2>1, <2>2, <2>5, <3>1 DEF Counted
    <3>3. \A o \in Slots : req'[o].rec # 0 => log' = req'[o].rec \/ (log' = 0 /\ records'[req'[o].rec] = <<>>)
      <4> SUFFICES ASSUME NEW o \in Slots, req'[o].rec # 0
                   PROVE  log' = req'[o].rec \/ (log' = 0 /\ records'[req'[o].rec] = <<>>)
        OBVIOUS
      <4>1. req'[o] = req[o] /\ req[o].rec \in Server!Records
        BY <1>0, <2>1, RequestFields
      <4>2. QED BY <1>4, <2>1, <2>5, <4>1 DEF Counted
    <3>4. QED BY <2>3, <3>2, <3>3 DEF Counted
  <2>6. QED BY <2>1, <2>4, <2>5
<1>5. ASSUME UNCHANGED Limits, ~crowded',
             ~(\E s \in Slots, b \in Browsers, right \in BOOLEAN : Server!ArriveLogin(s, b, right))
      PROVE  Counted'
  <2>1. \A o \in Slots : req'[o].rec \in {req[o].rec, 0}
    BY <1>0, <1>5, RecordsHeld
  <2>2. log' = log /\ records' = records /\ failures' = failures /\ ~crowded /\ Source' = Source
    BY <1>5 DEF Limits, Source
  <2>3. Server!PruneOld(Source, now) = Server!PruneOld(failures, now)
    BY <1>b, <2>2 DEF Counted
  <2>4. Server!PruneOld(Source, now') = Server!PruneOld(failures, now')
    BY <1>a, <2>3, AlikeLater
  <2>5. Server!Logged' = Server!Pruned(failures)'
    BY <1>c, <2>2, <2>4
  <2>6. QED BY <2>1, <2>2, <2>5 DEF Counted
<1>6. CASE crowded'
  BY <1>6 DEF Counted
<1>7. QED BY <1>1, <1>2, <1>3, <1>4, <1>5, <1>6, LimiterStill

-----------------------------------------------------------------------------
(* The number of sessions.                                                  *)

(* Who is creating a session: it has counted the sessions, and its own is   *)
(* to come.                                                                 *)
Creating(q) == {s \in Slots : q[s].at \in {"evict", "insert"}}

(* P[s]: those whose session may still come on top of what s has counted.   *)
(* Of two of them, one has counted with the other or knows of fewer.        *)
Counting(P, q, lives, most) ==
    /\ \A s \in Creating(q) :
         /\ P[s] \subseteq Creating(q) /\ s \in P[s]
         /\ Cardinality(lives \ q[s].evict) + Cardinality(P[s]) <= MaxSessions - 1 + most
    /\ \A s \in Creating(q), o \in Creating(q) : s \in P[o] \/ P[o] \subseteq P[s]
CreatorsOK ==
    /\ \A s \in Slots : req[s].at = "insert" => req[s].evict = {}
    /\ \E P \in [Slots -> SUBSET Slots] : Counting(P, req, Server!Lives, overlap)
    /\ Cardinality(Server!Lives) <= MaxSessions - 1 + overlap

LEMMA LivesFinite ==
    ASSUME SessionsOK
    PROVE  /\ Server!Lives \subseteq 1..Len(sessions) /\ IsFiniteSet(Server!Lives)
           /\ Cardinality(Server!Lives) \in Nat
<1>1. Server!Lives \subseteq 1..Len(sessions) /\ Len(sessions) \in Nat
  BY Lengths DEF Server!Lives
<1>2. IsFiniteSet(1..Len(sessions))
  BY <1>1, FS_Interval
<1>3. QED BY <1>1, <1>2, FS_Subset, FS_CardinalityType

LEMMA Fewer ==
    ASSUME NEW B, IsFiniteSet(B), NEW A, A \subseteq B
    PROVE  Cardinality(A) <= Cardinality(B) /\ Cardinality(A) \in Nat /\ Cardinality(B) \in Nat /\ IsFiniteSet(A)
BY FS_Subset, FS_CardinalityType

(* A session does not come back to life.                                    *)
LEMMA LivesFall ==
    ASSUME ServerInv, Server!Next
    PROVE  /\ Server!Lives' \cap 1..Len(sessions) \subseteq Server!Lives
           /\ Server!Lives' \subseteq 1..Len(sessions') /\ IsFiniteSet(Server!Lives')
<1>1. SessionsOK /\ SessionsOK' /\ Grown
  BY Parts, StepsServer DEF ServerInv, ServerOK
<1>2. DOMAIN sessions' = 1..Len(sessions') /\ DOMAIN sessions = 1..Len(sessions) /\ Len(sessions') \in Nat
  BY <1>1, LenProperties DEF SessionsOK
<1>3. Server!Lives' \subseteq 1..Len(sessions')
  BY <1>2 DEF Server!Lives
<1>4. ASSUME NEW i \in 1..Len(sessions), i \in Server!Lives' PROVE i \in Server!Lives
  <2>1. /\ sessions'[i].expires = sessions[i].expires
        /\ (sessions[i].revoked => sessions'[i].revoked) /\ now <= now'
    BY <1>1 DEF Grown
  <2>2. ~sessions'[i].revoked /\ sessions'[i].expires > now'
    BY <1>4 DEF Server!Lives, Server!Live
  <2>3. now \in Int /\ now' \in Int /\ sessions[i].expires \in Int
    BY <1>1, Lengths DEF SessionsOK
  <2>4. ~sessions[i].revoked /\ sessions[i].expires > now
    BY <2>1, <2>2, <2>3
  <2>5. QED BY <1>2, <2>4 DEF Server!Lives, Server!Live
<1>5. IsFiniteSet(1..Len(sessions'))
  BY <1>2, FS_Interval
<1>6. QED BY <1>3, <1>4, <1>5, FS_Subset

LEMMA OverlapStays ==
    ASSUME Server!Next, ~(\E s \in Slots : Server!SelectSessions(s))
    PROVE  overlap' = overlap
<1>1. CASE \E s \in Slots, b \in Browsers : Server!ArriveRefresh(s, b) \/ \E right \in BOOLEAN : Server!ArriveLogin(s, b, right)
  BY <1>1 DEF Server!ArriveRefresh, Server!ArriveLogin
<1>2. CASE \E b \in Browsers : Server!TooMany(b)
  BY <1>2 DEF Server!TooMany, Server!history
<1>3. CASE \E s \in Slots : Server!LookUp(s) \/ Server!Register(s) \/ Server!Evict(s) \/ Server!Insert(s)
  BY <1>3 DEF Server!LookUp, Server!Register, Server!Evict, Server!Insert, Server!history
<1>4. CASE \E s \in Slots : Server!Select(s) \/ Server!Punish(s) \/ Server!Rotate(s) \/ Server!CheckAccount(s) \/ Server!Deliver(s) \/ Server!Lose(s)
  BY <1>4 DEF Server!Select, Server!Punish, Server!Rotate, Server!CheckAccount, Server!Deliver, Server!Lose, Server!history
<1>5. CASE \E r \in DOMAIN devices : Server!Unblock(r) \/ \E d \in Blocks : Server!Block(r, d)
  BY <1>5 DEF Server!Unblock, Server!Block, Server!history
<1>6. CASE (\E status : Server!SetAccount(status) \/ Server!SetTenant(status)) \/ Server!Tick
  BY <1>6 DEF Server!SetAccount, Server!SetTenant, Server!Tick, Server!history
<1>7. QED BY <1>1, <1>2, <1>3, <1>4, <1>5, <1>6 DEF Server!Next

(* What becomes of those who create, but by counting and by inserting.      *)
Creators ==
    \A o \in Slots : req'[o].at \in {"evict", "insert"} =>
      /\ req[o].at \in {"evict", "insert"} /\ Server!Lives' \ req'[o].evict \subseteq Server!Lives \ req[o].evict
      /\ req'[o].at = "insert" => req'[o].evict = {} \/ req'[o] = req[o]

LEMMA CreatorsStay ==
    ASSUME ServerInv, Server!Next, ~(\E s \in Slots : Server!SelectSessions(s) \/ Server!Insert(s))
    PROVE  Creators
<1>0. SessionsOK /\ RequestsOK /\ BrowsersOK /\ LimiterOK
  BY Parts
<1>a. Server!Lives' \subseteq Server!Lives
  <2>1. Len(sessions') = Len(sessions)
    BY <1>0, SessionsAdded
  <2>2. QED BY <2>1, LivesFall
<1>1. ASSUME NEW s \in Slots, \A o \in Slots \ {s} : req'[o] = req[o], req'[s].at \notin {"evict", "insert"}
      PROVE  Creators
  BY <1>a, <1>1 DEF Creators
<1>2. CASE req' = req
  BY <1>a, <1>2 DEF Creators
<1>3. ASSUME NEW s \in Slots, Server!Ends(s) PROVE Creators
  <2>1. req'[s].at = "idle" /\ \A o \in Slots \ {s} : req'[o] = req[o]
    BY <1>0, <1>3, BlankRequest DEF Server!Ends, RequestsOK
  <2>2. QED BY <1>1, <2>1
<1>4. ASSUME NEW s \in Slots, NEW b \in Browsers,
             Server!ArriveRefresh(s, b) \/ \E right \in BOOLEAN : Server!ArriveLogin(s, b, right)
      PROVE  Creators
  <2>1. (\A o \in Slots \ {s} : req'[o] = req[o]) /\ req'[s].at \in {"lookup", "answer", "select"}
    BY <1>0, <1>4, ArriveRefreshRequests, ArriveLoginRequests
  <2>2. QED BY <1>1, <2>1
<1>5. ASSUME NEW s \in Slots, Server!LookUp(s) PROVE Creators
  <2>1. CASE ~Server!Ends(s)
    <3>1. (\A o \in Slots \ {s} : req'[o] = req[o]) /\ req'[s].at \in {"register", "sessions"}
      BY <1>0, <1>5, <2>1, LookUpRequests DEF SameRequest
    <3>2. QED BY <1>1, <3>1
  <2>2. QED BY <1>3, <2>1
<1>6. ASSUME NEW s \in Slots, Server!Register(s) \/ Server!Punish(s) \/ Server!Rotate(s) \/ Server!CheckAccount(s)
      PROVE  Creators
  <2>1. (\A o \in Slots \ {s} : req'[o] = req[o]) /\ req'[s].at \in {"sessions", "answer", "account"}
    BY <1>0, <1>6, RegisterRequests, PunishRequests, RotateRequests, CheckAccountRequests DEF SameRequest
  <2>2. QED BY <1>1, <2>1
<1>7. ASSUME NEW s \in Slots, Server!Select(s) PROVE Creators
  <2>1. (\A o \in Slots \ {s} : req'[o] = req[o]) /\ req'[s].at \in {"punish", "answer", "rotate"}
    BY <1>0, <1>7, SelectRowRequests DEF SameRequest
  <2>2. QED BY <1>1, <2>1
<1>8. ASSUME NEW s \in Slots, Server!Evict(s) PROVE Creators
  <2>1. PICK i \in req[s].evict : sessions' = Server!Revoke({i}) /\ req'[s].evict = req[s].evict \ {i}
    BY <1>0, <1>8, EvictRequests
  <2>2. /\ req[s].at = "evict" /\ req'[s].at = (IF req'[s].evict = {} THEN "insert" ELSE "evict")
        /\ \A o \in Slots \ {s} : req'[o] = req[o]
    BY <1>0, <1>8, EvictRequests DEF SameRequest
  <2>3. i \notin Server!Lives'
    <3>1. i \in 1..Len(sessions)
      BY <1>0, RequestFields DEF Fits
    <3>2. sessions'[i].revoked
      BY <1>0, <2>1, <3>1, Revoking
    <3>3. QED BY <3>2 DEF Server!Lives, Server!Live
  <2>4. Server!Lives' \ req'[s].evict \subseteq Server!Lives \ req[s].evict
    BY <1>a, <2>1, <2>3
  <2>5. QED BY <1>a, <2>2, <2>4 DEF Creators
<1>9. CASE \E s \in Slots : Server!Deliver(s) \/ Server!Lose(s)
  BY <1>3, <1>9 DEF Server!Deliver, Server!Lose
<1>10. CASE (\E b \in Browsers : Server!TooMany(b)) \/ \E r \in DOMAIN devices : Server!Unblock(r) \/ \E d \in Blocks : Server!Block(r, d)
  BY <1>2, <1>10 DEF Server!TooMany, Server!Unblock, Server!Block
<1>11. CASE (\E status : Server!SetAccount(status) \/ Server!SetTenant(status)) \/ Server!Tick
  BY <1>2, <1>11 DEF Server!SetAccount, Server!SetTenant, Server!Tick
<1>12. QED BY <1>4, <1>5, <1>6, <1>7, <1>8, <1>9, <1>10, <1>11 DEF Server!Next

LEMMA StepsOthers ==
    ASSUME ServerInv, CreatorsOK, Server!Next, ~(\E s \in Slots : Server!SelectSessions(s) \/ Server!Insert(s))
    PROVE  CreatorsOK'
<1>0. SessionsOK /\ Creators /\ overlap' = overlap /\ overlap \in Nat
  BY Parts, CreatorsStay, OverlapStays DEF HistoryOK
<1>a. Server!Lives' \subseteq Server!Lives /\ IsFiniteSet(Server!Lives)
  <2>1. Len(sessions') = Len(sessions)
    BY Parts, SessionsAdded
  <2>2. QED BY <1>0, <2>1, LivesFall, LivesFinite
<1>1. \A s \in Slots : req'[s].at = "insert" => req'[s].evict = {}
  BY <1>0 DEF Creators, CreatorsOK
<1>2. Cardinality(Server!Lives') <= MaxSessions - 1 + overlap'
  <2>1. Cardinality(Server!Lives') <= Cardinality(Server!Lives) /\ Cardinality(Server!Lives) \in Nat
        /\ Cardinality(Server!Lives') \in Nat
    BY <1>a, Fewer
  <2>2. QED BY <1>0, <2>1, Counts DEF CreatorsOK
<1>3. PICK P \in [Slots -> SUBSET Slots] : Counting(P, req, Server!Lives, overlap)
  BY DEF CreatorsOK
<1> DEFINE C == Creating(req')
           Q == [s \in Slots |-> P[s] \cap C]
<1>4. C \subseteq Creating(req)
  BY <1>0 DEF Creators, Creating
<1>5. \A s \in C : Q[s] \subseteq C /\ s \in Q[s] /\ Q[s] \subseteq P[s]
  BY <1>3, <1>4 DEF Counting, Creating
<1>6. ASSUME NEW s \in C
      PROVE  Cardinality(Server!Lives' \ req'[s].evict) + Cardinality(Q[s]) <= MaxSessions - 1 + overlap'
  <2>1. s \in Slots /\ s \in Creating(req) /\ Server!Lives' \ req'[s].evict \subseteq Server!Lives \ req[s].evict
    BY <1>0, <1>4 DEF Creators, Creating
  <2> DEFINE A == Server!Lives' \ req'[s].evict
             B == Server!Lives \ req[s].evict
             X == Q[s]
             Y == P[s]
  <2>2. Cardinality(B) + Cardinality(Y) <= MaxSessions - 1 + overlap
    BY <1>3, <2>1 DEF Counting
  <2>3. IsFiniteSet(B) /\ A \subseteq B /\ Y \subseteq Slots /\ X \subseteq Y
    BY <1>a, <1>5, <2>1, FS_Subset
  <2> HIDE DEF A, B, X, Y, C
  <2>4. Cardinality(A) <= Cardinality(B) /\ Cardinality(A) \in Nat /\ Cardinality(B) \in Nat
    BY <2>3, Fewer
  <2>5. Cardinality(X) <= Cardinality(Y) /\ Cardinality(X) \in Nat /\ Cardinality(Y) \in Nat
    BY <2>3, FewSlots
  <2>6. Cardinality(A) + Cardinality(X) <= MaxSessions - 1 + overlap'
    BY <1>0, <2>2, <2>4, <2>5, Counts
  <2>7. QED BY <2>6 DEF A, X
<1>7. \A s \in C, o \in C : s \in Q[o] \/ Q[o] \subseteq Q[s]
  BY <1>3, <1>4 DEF Counting, Creating
<1>8. Q \in [Slots -> SUBSET Slots]
  OBVIOUS
<1> HIDE DEF Q
<1>9. Counting(Q, req', Server!Lives', overlap')
  BY <1>5, <1>6, <1>7 DEF Counting
<1>10. QED BY <1>1, <1>2, <1>8, <1>9 DEF CreatorsOK

(* It counts with all who are creating, and with its own.                   *)
LEMMA StepsSelecting == ASSUME ServerInv, CreatorsOK, NEW s \in Slots, Server!SelectSessions(s) PROVE CreatorsOK'
<1>0. SessionsOK /\ RequestsOK /\ overlap \in Nat
  BY Parts DEF HistoryOK
<1> DEFINE C == Creating(req)
           D == C \cup {s}
           E == req'[s].evict
           c == Cardinality(C)
           l == Cardinality(Server!Lives)
<1>1. /\ req[s].at = "sessions" /\ E \subseteq Server!Lives /\ req'[s].at = (IF E = {} THEN "insert" ELSE "evict")
      /\ Cardinality(E) = Server!Excess(l)
      /\ \A o \in Slots \ {s} : req'[o] = req[o]
      /\ UNCHANGED <<site, now, devices, sessions>>
  <2>1. Server!Cardinality(E) = Cardinality(E) /\ Server!Cardinality(Server!Lives) = l
    BY SameSizes
  <2>2. QED BY <1>0, <2>1, SelectRequests DEF SameRequest
<1>2. Server!Lives' = Server!Lives
  BY <1>1 DEF Server!Lives, Server!Live
<1>3. c \in Nat /\ Cardinality(D) = c + 1 /\ C \subseteq Slots
  <2>1. C \subseteq Slots /\ s \notin C
    BY <1>1 DEF Creating
  <2>2. IsFiniteSet(C) /\ c \in Nat
    BY <2>1, FewSlots
  <2> HIDE DEF C
  <2>3. QED BY <2>1, <2>2, FS_AddElement
<1>4. overlap' = IF 1 + c > overlap THEN 1 + c ELSE overlap
  <2>1. Server!Cardinality(C) = c
    BY SameSizes
  <2>2. C = {o \in Slots : req[o].at \in {"evict", "insert"}}
    BY DEF Creating
  <2>3. QED BY <2>1, <2>2 DEF Server!SelectSessions
<1>5. overlap <= overlap' /\ 1 + c <= overlap' /\ overlap' \in Nat
  BY <1>0, <1>3, <1>4
<1>6. l \in Nat /\ Cardinality(Server!Lives \ E) = l - Cardinality(E) /\ Cardinality(E) \in Nat
  <2>1. IsFiniteSet(Server!Lives) /\ l \in Nat
    BY <1>0, LivesFinite
  <2>2. Server!Lives \cap E = E
    BY <1>1
  <2>3. Cardinality(E) \in Nat
    BY <1>1, <2>1, Fewer
  <2>4. Cardinality(Server!Lives \ E) = l - Cardinality(Server!Lives \cap E)
    BY <2>1, FS_Difference
  <2>5. QED BY <2>1, <2>2, <2>3, <2>4
<1>7. Cardinality(Server!Lives \ E) <= MaxSessions - 1
  BY <1>1, <1>6, Counts DEF Server!Excess
<1>8. Creating(req') = D
  BY <1>1 DEF Creating
<1>9. PICK P \in [Slots -> SUBSET Slots] : Counting(P, req, Server!Lives, overlap)
  BY DEF CreatorsOK
<1> DEFINE Q == [o \in Slots |-> IF o = s THEN D ELSE P[o]]
<1>10. Q \in [Slots -> SUBSET Slots]
  BY <1>3
<1>11. \A o \in C : o # s /\ Q[o] = P[o] /\ req'[o] = req[o] /\ P[o] \subseteq C /\ o \in P[o]
  BY <1>1, <1>9 DEF Creating, Counting
<1>12. ASSUME NEW o \in D
       PROVE  /\ Q[o] \subseteq D /\ o \in Q[o]
              /\ Cardinality(Server!Lives' \ req'[o].evict) + Cardinality(Q[o]) <= MaxSessions - 1 + overlap'
  <2>1. CASE o = s
    <3>1. Q[o] = D
      BY <2>1
    <3>2. Cardinality(Server!Lives' \ req'[o].evict) = Cardinality(Server!Lives \ E)
      BY <1>2, <2>1
    <3>3. Cardinality(Server!Lives \ E) \in Int
      BY <1>6
    <3> HIDE DEF E, D, Q, c
    <3>4. Cardinality(Server!Lives' \ req'[o].evict) + Cardinality(Q[o]) <= MaxSessions - 1 + overlap'
      BY <1>3, <1>5, <1>7, <3>1, <3>2, <3>3, Counts
    <3>5. QED BY <2>1, <3>1, <3>4 DEF D
  <2>2. CASE o # s
    <3>1. o \in C
      BY <2>2
    <3>2. Cardinality(Server!Lives \ req[o].evict) + Cardinality(P[o]) <= MaxSessions - 1 + overlap
      BY <1>9, <3>1 DEF Counting
    <3>3. Cardinality(Server!Lives \ req[o].evict) \in Nat /\ Cardinality(P[o]) \in Nat
      <4>1. IsFiniteSet(Server!Lives) /\ P[o] \subseteq Slots
        BY <1>0, <1>3, <1>11, <3>1, LivesFinite
      <4>2. Cardinality(P[o]) \in Nat
        BY <4>1, FewSlots
      <4>3. Cardinality(Server!Lives \ req[o].evict) \in Nat
        BY <4>1, Fewer
      <4>4. QED BY <4>2, <4>3
    <3>4. Q[o] = P[o] /\ req'[o] = req[o] /\ P[o] \subseteq C /\ o \in P[o]
      BY <1>11, <3>1
    <3> HIDE DEF E, Q, c, C
    <3>5. QED BY <1>0, <1>2, <1>5, <3>2, <3>3, <3>4, Counts
  <2>3. QED BY <2>1, <2>2
<1>13. \A x \in D, o \in D : x \in Q[o] \/ Q[o] \subseteq Q[x]
  <2> SUFFICES ASSUME NEW x \in D, NEW o \in D PROVE x \in Q[o] \/ Q[o] \subseteq Q[x]
    OBVIOUS
  <2>1. CASE o = s
    BY <2>1
  <2>2. CASE o # s /\ x = s
    BY <1>11, <2>2
  <2>3. CASE o # s /\ x # s
    <3>1. o \in C /\ x \in C
      BY <2>3
    <3>2. x \in P[o] \/ P[o] \subseteq P[x]
      BY <1>9, <3>1 DEF Counting
    <3>3. QED BY <1>11, <3>1, <3>2
  <2>4. QED BY <2>1, <2>2, <2>3
<1> HIDE DEF Q, D
<1>14. Counting(Q, req', Server!Lives', overlap')
  BY <1>8, <1>12, <1>13 DEF Counting
<1>15. \A o \in Slots : req'[o].at = "insert" => req'[o].evict = {}
  BY <1>1 DEF CreatorsOK
<1>16. Cardinality(Server!Lives') <= MaxSessions - 1 + overlap'
  BY <1>0, <1>2, <1>5, <1>6, Counts DEF CreatorsOK
<1>17. QED BY <1>10, <1>14, <1>15, <1>16 DEF CreatorsOK

(* Its session comes: the others who had not counted it knew of fewer.      *)
LEMMA StepsInserting == ASSUME ServerInv, CreatorsOK, NEW s \in Slots, Server!Insert(s) PROVE CreatorsOK'
<1>0. SessionsOK /\ RequestsOK /\ overlap \in Nat /\ Server!Next
  BY Parts DEF HistoryOK, Server!Next
<1> DEFINE C == Creating(req)
           D == C \ {s}
           n == Len(sessions) + 1
           l == Cardinality(Server!Lives)
<1>1. /\ req[s].at = "insert" /\ req'[s].at = "answer" /\ \A o \in Slots \ {s} : req'[o] = req[o]
      /\ Len(sessions') = n
  BY <1>0, InsertRequests, InsertTables DEF SameRequest
<1>2. Server!Lives' \subseteq Server!Lives \cup {n}
  <2>1. Len(sessions) \in Nat
    BY <1>0, Lengths
  <2>2. 1..Len(sessions') = 1..Len(sessions) \cup {n}
    BY <1>1, <2>1
  <2>3. QED BY <1>0, <2>2, LivesFall
<1>3. IsFiniteSet(Server!Lives) /\ l \in Nat
  BY <1>0, LivesFinite
<1>4. overlap' = overlap
  BY DEF Server!Insert
<1>5. Creating(req') = D /\ s \in C
  BY <1>1 DEF Creating
<1>6. PICK P \in [Slots -> SUBSET Slots] : Counting(P, req, Server!Lives, overlap)
  BY DEF CreatorsOK
<1>7. \A o \in C : P[o] \subseteq C /\ o \in P[o] /\ P[o] \subseteq Slots /\ Cardinality(P[o]) \in Nat
  <2> SUFFICES ASSUME NEW o \in C PROVE P[o] \subseteq C /\ o \in P[o] /\ P[o] \subseteq Slots /\ Cardinality(P[o]) \in Nat
    OBVIOUS
  <2>1. P[o] \subseteq C /\ o \in P[o]
    BY <1>6 DEF Counting
  <2>2. P[o] \subseteq Slots
    BY <1>6 DEF Creating
  <2>3. QED BY <2>1, <2>2, FewSlots
<1>8. l + Cardinality(P[s]) <= MaxSessions - 1 + overlap
  <2>1. req[s].evict = {}
    BY <1>1 DEF CreatorsOK
  <2>2. Server!Lives \ req[s].evict = Server!Lives
    BY <2>1
  <2>3. QED BY <1>5, <1>6, <2>2 DEF Counting
<1>9. Cardinality(Server!Lives') <= MaxSessions - 1 + overlap'
  <2>1. Cardinality(Server!Lives') <= l + 1 /\ Cardinality(Server!Lives') \in Nat
    <3> DEFINE U == Server!Lives \cup {n}
               A == Server!Lives'
    <3>1. IsFiniteSet(U) /\ Cardinality(U) = IF n \in Server!Lives THEN l ELSE l + 1
      BY <1>3, FS_AddElement
    <3>2. A \subseteq U
      BY <1>2
    <3> HIDE DEF U, A, l
    <3>3. Cardinality(A) <= Cardinality(U) /\ Cardinality(A) \in Nat /\ Cardinality(U) \in Nat
      BY <3>1, <3>2, Fewer
    <3>4. Cardinality(A) <= l + 1 /\ Cardinality(A) \in Nat
      BY <1>3, <3>1, <3>3
    <3>5. QED BY <3>4 DEF A
  <2>2. Cardinality(P[s]) >= 1
    <3>1. P[s] \subseteq Slots /\ {s} \subseteq P[s] /\ Cardinality({s}) = 1
      BY <1>5, <1>7, FS_Singleton
    <3>2. QED BY <3>1, FewSlots
  <2> HIDE DEF l
  <2>3. QED BY <1>0, <1>3, <1>4, <1>5, <1>7, <1>8, <2>1, <2>2, Counts
<1> DEFINE Q == [o \in Slots |-> P[o] \ {s}]
<1>10. Q \in [Slots -> SUBSET Slots]
  OBVIOUS
<1>11. ASSUME NEW o \in D
       PROVE  /\ Q[o] \subseteq D /\ o \in Q[o]
              /\ Cardinality(Server!Lives' \ req'[o].evict) + Cardinality(Q[o]) <= MaxSessions - 1 + overlap'
  <2>1. o \in Slots /\ o \in C /\ o # s /\ req'[o] = req[o] /\ Q[o] = P[o] \ {s}
    BY <1>1 DEF Creating
  <2>2. Q[o] \subseteq D /\ o \in Q[o]
    BY <1>7, <2>1
  <2> DEFINE A == Server!Lives' \ req'[o].evict
             B == Server!Lives \ req[o].evict
             X == Q[o]
             Y == P[o]
  <2>3. A \subseteq B \cup {n} /\ A \subseteq Server!Lives \cup {n} /\ B \subseteq Server!Lives
    BY <1>2, <2>1
  <2>4. Cardinality(B) + Cardinality(Y) <= MaxSessions - 1 + overlap
    BY <1>6, <2>1 DEF Counting
  <2>5. Y \subseteq Slots /\ X = Y \ {s}
    BY <1>7, <2>1
  <2>6. s \in Y \/ (Y \subseteq P[s] \ {s} /\ X = Y)
    BY <1>5, <1>6, <2>1 DEF Counting
  <2> HIDE DEF A, B, X, Y, Q, l
  <2>7. /\ Cardinality(A) <= Cardinality(B) + 1 /\ Cardinality(A) <= l + 1
        /\ Cardinality(A) \in Nat /\ Cardinality(B) \in Nat
    <3> DEFINE U == B \cup {n}
               W == Server!Lives \cup {n}
    <3>1. IsFiniteSet(B) /\ Cardinality(B) \in Nat
      BY <1>3, <2>3, Fewer
    <3>2. IsFiniteSet(U) /\ Cardinality(U) = IF n \in B THEN Cardinality(B) ELSE Cardinality(B) + 1
      BY <3>1, FS_AddElement
    <3>3. IsFiniteSet(W) /\ Cardinality(W) = IF n \in Server!Lives THEN l ELSE l + 1
      BY <1>3, FS_AddElement DEF l
    <3>4. A \subseteq U /\ A \subseteq W
      BY <2>3
    <3> HIDE DEF U, W
    <3>5. Cardinality(A) <= Cardinality(U) /\ Cardinality(A) <= Cardinality(W) /\ Cardinality(A) \in Nat
      BY <3>2, <3>3, <3>4, Fewer
    <3>6. QED BY <1>3, <3>1, <3>2, <3>3, <3>5
  <2>8. Cardinality(X) \in Nat /\ Cardinality(Y) \in Nat
    BY <2>5, FewSlots
  <2>9. CASE s \in Y
    <3>1. Cardinality(X) = Cardinality(Y) - 1
      BY <2>5, <2>9, OneFewer
    <3>2. Cardinality(A) + Cardinality(X) <= MaxSessions - 1 + overlap'
      BY <1>0, <1>4, <2>4, <2>7, <2>8, <3>1, Counts
    <3>3. QED BY <2>2, <3>2 DEF A, X
  <2>10. CASE s \notin Y
    <3> DEFINE Z == P[s]
               V == Z \ {s}
    <3>1. Z \subseteq Slots /\ s \in Z /\ Y \subseteq V /\ X = Y /\ l + Cardinality(Z) <= MaxSessions - 1 + overlap
      BY <1>5, <1>7, <1>8, <2>6, <2>10
    <3> HIDE DEF Z
    <3>2. Cardinality(V) = Cardinality(Z) - 1 /\ Cardinality(Z) \in Nat
      BY <3>1, OneFewer
    <3>3. V \subseteq Slots
      BY <3>1
    <3> HIDE DEF V
    <3>4. Cardinality(Y) <= Cardinality(V)
      BY <3>1, <3>3, FewSlots
    <3>5. Cardinality(A) + Cardinality(X) <= MaxSessions - 1 + overlap'
      BY <1>0, <1>3, <1>4, <2>7, <2>8, <3>1, <3>2, <3>4, Counts
    <3>6. QED BY <2>2, <3>5 DEF A, X
  <2>11. QED BY <2>9, <2>10
<1>12. \A x \in D, o \in D : x \in Q[o] \/ Q[o] \subseteq Q[x]
  <2> SUFFICES ASSUME NEW x \in D, NEW o \in D PROVE x \in Q[o] \/ Q[o] \subseteq Q[x]
    OBVIOUS
  <2>1. x \in C /\ o \in C /\ x \in Slots /\ o \in Slots /\ x # s
    BY DEF Creating
  <2>2. x \in P[o] \/ P[o] \subseteq P[x]
    BY <1>6, <2>1 DEF Counting
  <2>3. QED BY <2>1, <2>2
<1> HIDE DEF Q, D
<1>13. Counting(Q, req', Server!Lives', overlap')
  BY <1>5, <1>11, <1>12 DEF Counting
<1>14. \A o \in Slots : req'[o].at = "insert" => req'[o].evict = {}
  BY <1>1 DEF CreatorsOK
<1>15. QED BY <1>9, <1>10, <1>13, <1>14 DEF CreatorsOK

LEMMA StepsCreators == ASSUME ServerInv, CreatorsOK, Server!Next PROVE CreatorsOK'
BY StepsOthers, StepsSelecting, StepsInserting

LEMMA InitCreators == Server!Init => CreatorsOK
<1> SUFFICES ASSUME Server!Init PROVE CreatorsOK
  OBVIOUS
<1>1. \A s \in Slots : req[s] = Server!NoRequest
  BY DEF Server!Init
<1>2. \A s \in Slots : req[s].at = "idle"
  BY <1>1, BlankRequest
<1>3. Creating(req) = {}
  BY <1>2 DEF Creating
<1> DEFINE P == [s \in Slots |-> {}]
<1>4. P \in [Slots -> SUBSET Slots] /\ Counting(P, req, Server!Lives, overlap)
  BY <1>3 DEF Counting
<1> HIDE DEF P
<1>5. Server!Lives = {}
  BY DEF Server!Lives, Server!Init
<1>6. Cardinality(Server!Lives) = 0 /\ overlap = 1
  BY <1>5, FS_EmptySet DEF Server!Init
<1>7. QED BY <1>2, <1>4, <1>6, Counts DEF CreatorsOK

LEMMA WithinLimit == ASSUME ServerInv, CreatorsOK PROVE Server!SessionsWithinLimit
<1>1. Server!Cardinality(Server!Lives) = Cardinality(Server!Lives)
  BY SameSizes
<1>2. overlap \in Nat
  BY Parts DEF HistoryOK
<1>3. Cardinality(Server!Lives) \in Nat
  BY Parts, LivesFinite
<1>4. QED BY <1>1, <1>2, <1>3, Counts DEF CreatorsOK, Server!SessionsWithinLimit

-----------------------------------------------------------------------------
(* Refresh tokens.                                                          *)

(* A browser that makes one request at a time and hears every answer has    *)
(* the token that counts, or is about to be given it.                       *)
Vouched(q, grants) ==
    /\ q.at \in {"select", "account"} \/ (q.at = "answer" /\ q.ok) => grants[q.session].token = q.token
    /\ q.at \in {"select", "punish"} => ~q.ok
Awaits(b, q) == q.by = b /\ q.op = "refresh" /\ q.at \in {"account", "answer"}
Trusted(b) ==
    alone[b] /\ heard[b] =>
      /\ \A s \in Slots : req[s].by = b => Vouched(req[s], sessions)
      /\ held[b] # None => \/ sessions[held[b].session].token = held[b].token
                           \/ \E s \in Slots : Awaits(b, req[s])

LEMMA TokensStay ==
    ASSUME ServerInv, Server!Next, ~(\E s \in Slots : Server!Rotate(s)), NEW i \in 1..Len(sessions)
    PROVE  sessions'[i].token = sessions[i].token
<1>0. SessionsOK /\ RequestsOK
  BY Parts
<1>1. CASE UNCHANGED sessions
  BY <1>1
<1>2. CASE \E S : sessions' = Server!Revoke(S)
  BY <1>0, <1>2, Revoking
<1>3. CASE \E s \in Slots : Server!Insert(s)
  BY <1>0, <1>3, InsertTables
<1>4. CASE \E s \in Slots : Server!Evict(s) \/ Server!Punish(s)
  BY <1>2, <1>4 DEF Server!Evict, Server!Punish
<1>5. CASE \E r \in DOMAIN devices, d \in Blocks : Server!Block(r, d)
  BY <1>2, <1>5 DEF Server!Block, Server!BlockedSessions
<1>6. CASE \E s \in Slots, b \in Browsers : Server!ArriveRefresh(s, b) \/ \E right \in BOOLEAN : Server!ArriveLogin(s, b, right)
  BY <1>1, <1>6 DEF Server!ArriveRefresh, Server!ArriveLogin, Server!tables
<1>7. CASE \E b \in Browsers : Server!TooMany(b)
  BY <1>1, <1>7 DEF Server!TooMany, Server!tables
<1>8. CASE \E s \in Slots : Server!LookUp(s) \/ Server!Register(s) \/ Server!SelectSessions(s)
  BY <1>1, <1>8 DEF Server!LookUp, Server!Register, Server!SelectSessions, Server!tables
<1>9. CASE \E s \in Slots : Server!Select(s) \/ Server!CheckAccount(s) \/ Server!Deliver(s) \/ Server!Lose(s)
  BY <1>1, <1>9 DEF Server!Select, Server!CheckAccount, Server!Deliver, Server!Lose, Server!tables
<1>10. CASE \E r \in DOMAIN devices : Server!Unblock(r)
  BY <1>1, <1>10 DEF Server!Unblock
<1>11. CASE (\E status : Server!SetAccount(status) \/ Server!SetTenant(status)) \/ Server!Tick
  BY <1>1, <1>11 DEF Server!SetAccount, Server!SetTenant, Server!Tick, Server!tables
<1>12. QED BY <1>3, <1>4, <1>5, <1>6, <1>7, <1>8, <1>9, <1>10, <1>11 DEF Server!Next

LEMMA HeardStays == ASSUME Server!Next, ~(\E s \in Slots : Server!Lose(s)) PROVE heard' = heard
<1>1. CASE \E s \in Slots, b \in Browsers : Server!ArriveRefresh(s, b) \/ \E right \in BOOLEAN : Server!ArriveLogin(s, b, right)
  BY <1>1 DEF Server!ArriveRefresh, Server!ArriveLogin
<1>2. CASE \E b \in Browsers : Server!TooMany(b)
  BY <1>2 DEF Server!TooMany, Server!history
<1>3. CASE \E s \in Slots : Server!LookUp(s) \/ Server!Register(s) \/ Server!SelectSessions(s) \/ Server!Evict(s) \/ Server!Insert(s)
  BY <1>3 DEF Server!LookUp, Server!Register, Server!SelectSessions, Server!Evict, Server!Insert, Server!history
<1>4. CASE \E s \in Slots : Server!Select(s) \/ Server!Punish(s) \/ Server!Rotate(s) \/ Server!CheckAccount(s) \/ Server!Deliver(s)
  BY <1>4 DEF Server!Select, Server!Punish, Server!Rotate, Server!CheckAccount, Server!Deliver, Server!history
<1>5. CASE \E r \in DOMAIN devices : Server!Unblock(r) \/ \E d \in Blocks : Server!Block(r, d)
  BY <1>5 DEF Server!Unblock, Server!Block, Server!history
<1>6. CASE (\E status : Server!SetAccount(status) \/ Server!SetTenant(status)) \/ Server!Tick
  BY <1>6 DEF Server!SetAccount, Server!SetTenant, Server!Tick, Server!history
<1>7. QED BY <1>1, <1>2, <1>3, <1>4, <1>5, <1>6 DEF Server!Next

(* Two requests that have met, and an answer that was lost, are not undone; *)
(* a browser does not hear of its refreshes when one is lost.               *)
LEMMA OnceMet ==
    ASSUME ServerInv, Server!Next, NEW b \in Browsers, alone'[b], heard'[b]
    PROVE  /\ alone[b] /\ heard[b]
           /\ \A s \in Slots : Server!Lose(s) /\ req[s].by = b => req[s].op = "login"
           /\ \A s \in Slots : Server!ArriveRefresh(s, b) => \A o \in Slots : req[o].by # b
<1>0. alone \in [Browsers -> BOOLEAN] /\ heard \in [Browsers -> BOOLEAN] /\ RequestsOK
  BY Parts DEF HistoryOK
<1>1. ASSUME NEW c \in Browsers, Server!Notes(c)
      PROVE  alone[b] /\ (c = b => \A o \in Slots : req[o].by # b)
  <2>1. alone' = [alone EXCEPT ![c] = @ /\ ~Server!Busy(c)]
    BY <1>1 DEF Server!Notes
  <2>2. CASE c = b
    <3>1. alone[b] /\ ~Server!Busy(b)
      BY <1>0, <2>1, <2>2
    <3>2. QED BY <3>1 DEF Server!Busy
  <2>3. CASE c # b
    BY <1>0, <2>1, <2>3
  <2>4. QED BY <2>2, <2>3
<1>2. alone[b]
  <2>1. CASE \E s \in Slots, c \in Browsers : Begins(s, c)
    BY <1>1, <2>1 DEF Begins
  <2>2. CASE GoesOn
    BY <2>2 DEF GoesOn
  <2>3. QED BY <2>1, <2>2, BeginsOrGoesOn
<1>3. ASSUME NEW s \in Slots, Server!Lose(s) PROVE heard[b] /\ (req[s].by = b => req[s].op = "login")
  <2>1. heard' = [heard EXCEPT ![req[s].by] = @ /\ req[s].op = "login"] /\ req[s].at # "idle"
    BY <1>3 DEF Server!Lose
  <2>2. req[s].by \in Browsers
    BY <1>0, <2>1, RequestFields DEF Fits
  <2>3. CASE req[s].by = b
    <3>1. heard'[b] = (heard[b] /\ req[s].op = "login")
      BY <1>0, <2>1, <2>3
    <3>2. QED BY <3>1
  <2>4. CASE req[s].by # b
    <3>1. heard'[b] = heard[b]
      BY <1>0, <2>1, <2>2, <2>4
    <3>2. QED BY <2>4, <3>1
  <2>5. QED BY <2>3, <2>4
<1>4. heard[b]
  <2>1. CASE \E s \in Slots : Server!Lose(s)
    BY <1>3, <2>1
  <2>2. CASE ~(\E s \in Slots : Server!Lose(s))
    BY <2>2, HeardStays
  <2>3. QED BY <2>1, <2>2
<1>5. ASSUME NEW s \in Slots, Server!ArriveRefresh(s, b) PROVE \A o \in Slots : req[o].by # b
  <2>1. Server!Notes(b)
    BY <1>5 DEF Server!ArriveRefresh
  <2>2. QED BY <1>1, <2>1
<1>6. QED BY <1>2, <1>3, <1>4, <1>5

(* A request that stays as it is stays vouched for, and so does what is held.*)
LEMMA StillVouched ==
    ASSUME ServerInv, Server!Next, NEW b \in Browsers, alone[b], heard[b], Trusted(b), NEW q \in Request,
           Fits(q, devices, sessions, now), Vouched(q, sessions),
           q.session # 0 => sessions'[q.session].token = sessions[q.session].token
    PROVE  Vouched(q, sessions')
BY StepNames DEF Vouched, Fits

LEMMA TrustStays ==
    ASSUME ServerInv, Server!Next, NEW b \in Browsers, Trusted(b), alone'[b], heard'[b],
           ~(\E s \in Slots : Server!Rotate(s)), held'[b] = held[b], NEW s \in Slots,
           \A o \in Slots \ {s} : req'[o] = req[o],
           req'[s].by = b => Vouched(req'[s], sessions'),
           Awaits(b, req[s]) => Awaits(b, req'[s])
    PROVE  Trusted(b)'
<1>0. SessionsOK /\ RequestsOK /\ BrowsersOK /\ alone[b] /\ heard[b]
  BY Parts, OnceMet
<1>1. \A o \in Slots \ {s} : req'[o].by = b => Vouched(req'[o], sessions')
  <2> SUFFICES ASSUME NEW o \in Slots \ {s}, req[o].by = b PROVE Vouched(req[o], sessions')
    OBVIOUS
  <2> DEFINE q == req[o]
  <2>1. q \in Request /\ Fits(q, devices, sessions, now) /\ Vouched(q, sessions)
    BY <1>0, RequestFields DEF Trusted
  <2>2. q.session # 0 => q.session \in 1..Len(sessions)
    BY <1>0, <2>1, Lengths DEF Fits
  <2> HIDE DEF q
  <2>3. Vouched(q, sessions')
    BY <1>0, <2>1, <2>2, TokensStay, StillVouched
  <2>4. QED BY <2>3 DEF q
<1>2. (\E o \in Slots : Awaits(b, req[o])) => \E o \in Slots : Awaits(b, req'[o])
  OBVIOUS
<1>3. held[b] # None => sessions'[held[b].session].token = sessions[held[b].session].token
  <2>1. held[b] # None => held[b].session \in 1..Len(sessions)
    BY <1>0 DEF BrowsersOK, Holds
  <2>2. QED BY <2>1, TokensStay
<1>4. QED BY <1>0, <1>1, <1>2, <1>3 DEF Trusted

LEMMA TrustRotated ==
    ASSUME ServerInv, Server!Next, NEW b \in Browsers, Trusted(b), OneRow(b), alone[b], heard[b],
           NEW s \in Slots, Server!Rotate(s)
    PROVE  Trusted(b)'
<1>0. SessionsOK /\ RequestsOK /\ BrowsersOK
  BY Parts
<1> DEFINE k == req[s].session
<1>1. /\ req[s].at = "rotate" /\ req'[s].at = "account" /\ req'[s].by = req[s].by /\ req'[s].op = req[s].op
      /\ req'[s].session = k /\ req'[s].token = Server!Fresh(k)
      /\ \A o \in Slots \ {s} : req'[o] = req[o]
  BY <1>0, RotateRequests DEF SameRequest
<1>2. /\ k \in 1..Len(sessions) /\ sessions'[k].token = Server!Fresh(k)
      /\ \A i \in 1..Len(sessions) : i # k => sessions'[i].token = sessions[i].token
  BY <1>0, RotateTables
<1>3. held' = held
  BY DEF Server!Rotate, Server!browser
<1>4. req[s].op = "refresh" /\ req[s].at # "idle" /\ devices[sessions[k].row].browser = req[s].by
  BY <1>0, <1>1, <1>2, RequestFields, StepNames DEF Fits
<1>5. Vouched(req'[s], sessions')
  BY <1>1, <1>2 DEF Vouched
<1>6. CASE req[s].by = b
  <2>1. \A o \in Slots \ {s} : req'[o].by = b => Vouched(req'[o], sessions')
    <3>1. \A o \in Slots \ {s} : req[o].by = b => req[o].at = "idle"
      BY <1>4, <1>6 DEF OneRow
    <3>2. QED BY <1>1, <3>1 DEF Vouched
  <2>2. Awaits(b, req'[s])
    BY <1>1, <1>4, <1>6 DEF Awaits
  <2>3. QED BY <1>3, <1>5, <2>1, <2>2 DEF Trusted
<1>7. CASE req[s].by # b
  <2>1. \A o \in Slots : req'[o].by = b => Vouched(req'[o], sessions')
    <3> SUFFICES ASSUME NEW o \in Slots, req'[o].by = b PROVE Vouched(req'[o], sessions')
      OBVIOUS
    <3>1. o # s /\ req'[o] = req[o]
      BY <1>1, <1>7
    <3> DEFINE q == req[o]
    <3>2. q \in Request /\ Fits(q, devices, sessions, now) /\ Vouched(q, sessions) /\ q.by = b
      BY <1>0, <3>1, RequestFields DEF Trusted
    <3> HIDE DEF q
    <3>3. q.session # 0 => q.session \in 1..Len(sessions) /\ q.session # k
      BY <1>0, <1>4, <1>7, <3>2, Lengths DEF Fits
    <3>4. Vouched(q, sessions')
      BY <1>2, <3>2, <3>3, StillVouched
    <3>5. QED BY <3>1, <3>4 DEF q
  <2>2. held[b] # None => sessions'[held[b].session].token = sessions[held[b].session].token
    <3>1. held[b] # None => held[b].session \in 1..Len(sessions) /\ held[b].session # k
      BY <1>0, <1>4, <1>7 DEF BrowsersOK, Holds
    <3>2. QED BY <1>2, <3>1
  <2>3. (\E o \in Slots : Awaits(b, req[o])) => \E o \in Slots : Awaits(b, req'[o])
    BY <1>1, <1>7 DEF Awaits
  <2>4. QED BY <1>3, <2>1, <2>2, <2>3 DEF Trusted
<1>8. QED BY <1>6, <1>7

LEMMA TrustDelivered ==
    ASSUME ServerInv, Server!Next, NEW b \in Browsers, Trusted(b), alone'[b], heard'[b],
           ~(\E s \in Slots : Server!Rotate(s)), NEW s \in Slots, Server!Deliver(s)
    PROVE  Trusted(b)'
<1>0. SessionsOK /\ RequestsOK /\ BrowsersOK /\ alone[b] /\ heard[b]
  BY Parts, OnceMet
<1>1. req'[s] = Server!NoRequest /\ \A o \in Slots \ {s} : req'[o] = req[o]
  BY <1>0 DEF Server!Deliver, Server!Ends, RequestsOK
<1>2. Vouched(req'[s], sessions')
  BY <1>1, BlankRequest DEF Vouched
<1>3. CASE req[s].by # b
  <2>1. held'[b] = held[b]
    BY <1>0, <1>3, DeliverEffect
  <2>2. ~Awaits(b, req[s])
    BY <1>3 DEF Awaits
  <2>3. QED BY <1>1, <1>2, <2>1, <2>2, TrustStays
<1>4. CASE req[s].by = b
  <2>1. /\ req[s].at = "answer" /\ sessions' = sessions
        /\ IF req[s].ok THEN held'[b] = [session |-> req[s].session, token |-> req[s].token] ELSE held'[b] = None
    BY <1>0, <1>4, DeliverEffect
  <2>2. Vouched(req[s], sessions)
    BY <1>0, <1>4 DEF Trusted
  <2>3. held'[b] # None => sessions'[held'[b].session].token = held'[b].token
    <3>1. CASE req[s].ok
      BY <2>1, <2>2, <3>1 DEF Vouched
    <3>2. CASE ~req[s].ok
      BY <2>1, <3>2
    <3>3. QED BY <3>1, <3>2
  <2>4. \A o \in Slots : req'[o].by = b => Vouched(req'[o], sessions')
    BY <1>0, <1>1, <1>2, <2>1 DEF Trusted
  <2>5. QED BY <2>3, <2>4 DEF Trusted
<1>5. QED BY <1>3, <1>4

LEMMA TrustArriving ==
    ASSUME ServerInv, Server!Next, NEW b \in Browsers, Trusted(b), alone'[b], heard'[b],
           ~(\E s \in Slots : Server!Rotate(s)), NEW s \in Slots, NEW c \in Browsers, Server!ArriveRefresh(s, c)
    PROVE  Trusted(b)'
<1>0. SessionsOK /\ RequestsOK /\ BrowsersOK /\ alone[b] /\ heard[b]
  BY Parts, OnceMet
<1>1. /\ \A o \in Slots \ {s} : req'[o] = req[o]
      /\ req'[s].at \in {"answer", "select"} /\ req'[s].by = c
      /\ req'[s].session = held[c].session /\ req'[s].token = held[c].token /\ ~req'[s].ok
      /\ sessions' = sessions
  BY <1>0, ArriveRefreshRequests
<1>2. held' = held /\ req[s].at = "idle" /\ held[c] # None
  BY DEF Server!ArriveRefresh, Server!browser
<1>3. req'[s].by = b => Vouched(req'[s], sessions')
  <2> SUFFICES ASSUME c = b PROVE Vouched(req'[s], sessions')
    BY <1>1
  <2>1. \A o \in Slots : req[o].by # b
    BY OnceMet
  <2>2. \A o \in Slots : ~Awaits(b, req[o])
    BY <2>1 DEF Awaits
  <2>3. sessions[held[b].session].token = held[b].token
    BY <1>0, <1>2, <2>2 DEF Trusted
  <2>4. QED BY <1>1, <2>3 DEF Vouched
<1>4. ~Awaits(b, req[s])
  BY <1>2 DEF Awaits
<1>5. QED BY <1>1, <1>2, <1>3, <1>4, TrustStays

LEMMA StepsTrusted ==
    ASSUME ServerInv, \A b \in Browsers : OneRow(b), \A b \in Browsers : Trusted(b), Server!Next
    PROVE  \A b \in Browsers : Trusted(b)'
<1> SUFFICES ASSUME NEW b \in Browsers, alone'[b], heard'[b] PROVE Trusted(b)'
  BY DEF Trusted
<1>0. SessionsOK /\ RequestsOK /\ BrowsersOK /\ LimiterOK /\ alone[b] /\ heard[b] /\ Trusted(b) /\ OneRow(b)
  BY Parts, OnceMet
<1>1. CASE \E s \in Slots : Server!Rotate(s)
  BY <1>0, <1>1, TrustRotated
<1> SUFFICES ASSUME ~(\E s \in Slots : Server!Rotate(s)) PROVE Trusted(b)'
  BY <1>1
<1>2. CASE \E s \in Slots : Server!Deliver(s)
  BY <1>0, <1>2, TrustDelivered
<1>3. CASE \E s \in Slots, c \in Browsers : Server!ArriveRefresh(s, c)
  BY <1>0, <1>3, TrustArriving
<1> SUFFICES ASSUME ~(\E s \in Slots : Server!Deliver(s)) PROVE Trusted(b)'
  BY <1>2
<1>4. held'[b] = held[b]
  BY OtherBrowsers
<1>5. ASSUME NEW s \in Slots, \A o \in Slots \ {s} : req'[o] = req[o],
             req'[s].by = b => Vouched(req'[s], sessions'), Awaits(b, req[s]) => Awaits(b, req'[s])
      PROVE  Trusted(b)'
  BY <1>0, <1>4, <1>5, TrustStays
<1>6. CASE req' = req
  <2>1. \A o \in Slots : req[o].by = b /\ req[o].session # 0 =>
                           sessions'[req[o].session].token = sessions[req[o].session].token
    <3> SUFFICES ASSUME NEW o \in Slots, req[o].session # 0
                 PROVE  sessions'[req[o].session].token = sessions[req[o].session].token
      OBVIOUS
    <3>1. req[o].session \in 1..Len(sessions)
      BY <1>0, RequestFields, Lengths DEF Fits
    <3>2. QED BY <3>1, TokensStay
  <2>2. \A o \in Slots : req'[o].by = b => Vouched(req'[o], sessions')
    <3> SUFFICES ASSUME NEW o \in Slots, req[o].by = b PROVE Vouched(req[o], sessions')
      BY <1>6
    <3> DEFINE q == req[o]
    <3>1. q \in Request /\ Fits(q, devices, sessions, now) /\ Vouched(q, sessions)
          /\ (q.session # 0 => sessions'[q.session].token = sessions[q.session].token)
      BY <1>0, <2>1, RequestFields DEF Trusted
    <3> HIDE DEF q
    <3>2. Vouched(q, sessions')
      BY <1>0, <3>1, StillVouched
    <3>3. QED BY <3>2 DEF q
  <2>3. held[b] # None => sessions'[held[b].session].token = sessions[held[b].session].token
    <3>1. held[b] # None => held[b].session \in 1..Len(sessions)
      BY <1>0 DEF BrowsersOK, Holds
    <3>2. QED BY <3>1, TokensStay
  <2>4. QED BY <1>0, <1>4, <1>6, <2>2, <2>3 DEF Trusted
<1>7. CASE \E s \in Slots, c \in Browsers, right \in BOOLEAN : Server!ArriveLogin(s, c, right)
  <2>1. PICK s \in Slots, c \in Browsers, right \in BOOLEAN : Server!ArriveLogin(s, c, right)
    BY <1>7
  <2>2. (\A o \in Slots \ {s} : req'[o] = req[o]) /\ req'[s].at = "lookup" /\ req[s].at = "idle"
    BY <1>0, <2>1, ArriveLoginRequests DEF Server!ArriveLogin
  <2>3. QED BY <1>5, <2>2 DEF Vouched, Awaits
<1>8. ASSUME NEW s \in Slots, Server!Ends(s), Awaits(b, req[s]) => FALSE PROVE Trusted(b)'
  <2>1. req'[s] = Server!NoRequest /\ \A o \in Slots \ {s} : req'[o] = req[o]
    BY <1>0, <1>8 DEF Server!Ends, RequestsOK
  <2>2. QED BY <1>5, <1>8, <2>1, BlankRequest DEF Vouched
<1>9. ASSUME NEW s \in Slots, Server!LookUp(s) PROVE Trusted(b)'
  <2>1. req[s].at = "lookup"
    BY <1>9 DEF Server!LookUp
  <2>2. CASE Server!Ends(s)
    BY <1>8, <2>1, <2>2 DEF Awaits
  <2>3. CASE ~Server!Ends(s)
    <3>1. (\A o \in Slots \ {s} : req'[o] = req[o]) /\ req'[s].at \in {"register", "sessions"}
      BY <1>0, <1>9, <2>3, LookUpRequests DEF SameRequest
    <3>2. QED BY <1>5, <2>1, <3>1 DEF Vouched, Awaits
  <2>4. QED BY <2>2, <2>3
<1>10. ASSUME NEW s \in Slots, Server!Register(s) \/ Server!SelectSessions(s) \/ Server!Evict(s) PROVE Trusted(b)'
  <2>1. /\ \A o \in Slots \ {s} : req'[o] = req[o]
        /\ req[s].at \in {"register", "sessions", "evict"} /\ req'[s].at \in {"sessions", "evict", "insert"}
    BY <1>0, <1>10, RegisterRequests, SelectRequests, EvictRequests DEF SameRequest
  <2>2. QED BY <1>5, <2>1 DEF Vouched, Awaits
<1>11. ASSUME NEW s \in Slots, Server!Insert(s) PROVE Trusted(b)'
  <2>1. /\ \A o \in Slots \ {s} : req'[o] = req[o]
        /\ req[s].at = "insert" /\ req'[s].at = "answer" /\ req'[s].session = Len(sessions) + 1 /\ req'[s].token = 0
    BY <1>0, <1>11, InsertRequests DEF SameRequest
  <2>2. sessions'[Len(sessions) + 1].token = 0
    BY <1>0, <1>11, InsertTables
  <2>3. QED BY <1>5, <2>1, <2>2 DEF Vouched, Awaits
<1>12. ASSUME NEW s \in Slots, Server!Select(s) PROVE Trusted(b)'
  <2>1. /\ \A o \in Slots \ {s} : req'[o] = req[o]
        /\ req[s].at = "select" /\ req'[s].at \in {"punish", "answer", "rotate"} /\ req'[s].by = req[s].by
        /\ req'[s].session = req[s].session /\ req'[s].token = req[s].token /\ req'[s].ok = req[s].ok
        /\ sessions' = sessions
    BY <1>0, <1>12, SelectRowRequests DEF SameRequest
  <2>2. req[s].by = b => Vouched(req[s], sessions)
    BY <1>0 DEF Trusted
  <2>3. req'[s].by = b => Vouched(req'[s], sessions')
    BY <2>1, <2>2 DEF Vouched
  <2>4. QED BY <1>5, <2>1, <2>3 DEF Awaits
<1>13. ASSUME NEW s \in Slots, Server!Punish(s) PROVE Trusted(b)'
  <2>1. /\ \A o \in Slots \ {s} : req'[o] = req[o]
        /\ req[s].at = "punish" /\ req'[s].at = "answer" /\ req'[s].by = req[s].by /\ req'[s].ok = req[s].ok
    BY <1>0, <1>13, PunishRequests DEF SameRequest
  <2>2. req[s].by = b => ~req[s].ok
    BY <1>0, <2>1 DEF Trusted, Vouched
  <2>3. req'[s].by = b => Vouched(req'[s], sessions')
    BY <2>1, <2>2 DEF Vouched
  <2>4. QED BY <1>5, <2>1, <2>3 DEF Awaits
<1>14. ASSUME NEW s \in Slots, Server!CheckAccount(s) PROVE Trusted(b)'
  <2>1. /\ \A o \in Slots \ {s} : req'[o] = req[o]
        /\ req[s].at = "account" /\ req'[s].at = "answer" /\ req'[s].by = req[s].by /\ req'[s].op = req[s].op
        /\ req'[s].session = req[s].session /\ req'[s].token = req[s].token
        /\ sessions' = sessions
    BY <1>0, <1>14, CheckAccountRequests DEF SameRequest
  <2>2. req[s].by = b => Vouched(req[s], sessions)
    BY <1>0 DEF Trusted
  <2>3. req'[s].by = b => Vouched(req'[s], sessions')
    BY <2>1, <2>2 DEF Vouched
  <2>4. QED BY <1>5, <2>1, <2>3 DEF Awaits
<1>15. ASSUME NEW s \in Slots, Server!Lose(s) PROVE Trusted(b)'
  <2>1. Server!Ends(s)
    BY <1>15 DEF Server!Lose
  <2>2. Awaits(b, req[s]) => FALSE
    BY <1>15, OnceMet DEF Awaits
  <2>3. QED BY <1>8, <2>1, <2>2
<1>16. CASE (\E c \in Browsers : Server!TooMany(c)) \/ \E r \in DOMAIN devices : Server!Unblock(r) \/ \E d \in Blocks : Server!Block(r, d)
  BY <1>6, <1>16 DEF Server!TooMany, Server!Unblock, Server!Block
<1>17. CASE (\E status : Server!SetAccount(status) \/ Server!SetTenant(status)) \/ Server!Tick
  BY <1>6, <1>17 DEF Server!SetAccount, Server!SetTenant, Server!Tick
<1>18. QED BY <1>3, <1>7, <1>9, <1>10, <1>11, <1>12, <1>13, <1>14, <1>15, <1>16, <1>17 DEF Server!Next

(* So it is not accused.                                                    *)
LEMMA NotAccused ==
    ASSUME ServerInv, Server!Next, \A b \in Browsers : Trusted(b), NEW s \in Slots
    PROVE  ~Server!FalseAlarm(s)
<1> SUFFICES ASSUME req[s].at = "select", req'[s].at = "punish", ~sessions[req[s].session].revoked,
                    alone[req[s].by], heard[req[s].by]
             PROVE  FALSE
  BY DEF Server!FalseAlarm
<1>0. SessionsOK /\ RequestsOK /\ BrowsersOK /\ LimiterOK
  BY Parts
<1>1. req[s].by \in Browsers
  BY <1>0, RequestFields DEF Fits
<1>2. sessions[req[s].session].token = req[s].token
  BY <1>1 DEF Trusted, Vouched
<1>3. ~Server!Select(s)
  BY <1>0, <1>2, SelectRowRequests
<1>4. CASE \E o \in Slots, b \in Browsers : Server!ArriveRefresh(o, b) \/ \E right \in BOOLEAN : Server!ArriveLogin(o, b, right)
  <2>1. PICK o \in Slots, b \in Browsers : Server!ArriveRefresh(o, b) \/ \E right \in BOOLEAN : Server!ArriveLogin(o, b, right)
    BY <1>4
  <2>2. (\A p \in Slots \ {o} : req'[p] = req[p]) /\ req'[o].at \in {"lookup", "answer", "select"}
    BY <1>0, <2>1, ArriveRefreshRequests, ArriveLoginRequests
  <2>3. QED BY <2>2
<1>5. ASSUME NEW o \in Slots, Server!Ends(o) PROVE FALSE
  BY <1>0, <1>5, BlankRequest DEF Server!Ends, RequestsOK
<1>6. ASSUME NEW o \in Slots, Server!LookUp(o) PROVE FALSE
  <2>1. ~Server!Ends(o)
    BY <1>5
  <2>2. (\A p \in Slots \ {o} : req'[p] = req[p]) /\ req'[o].at \in {"register", "sessions"}
    BY <1>0, <1>6, <2>1, LookUpRequests DEF SameRequest
  <2>3. QED BY <2>2
<1>7. ASSUME NEW o \in Slots, Server!Register(o) \/ Server!SelectSessions(o) \/ Server!Evict(o) \/ Server!Insert(o) PROVE FALSE
  <2>1. (\A p \in Slots \ {o} : req'[p] = req[p]) /\ req'[o].at \in {"sessions", "evict", "insert", "answer"}
    BY <1>0, <1>7, RegisterRequests, SelectRequests, EvictRequests, InsertRequests DEF SameRequest
  <2>2. QED BY <2>1
<1>8. ASSUME NEW o \in Slots, Server!Punish(o) \/ Server!Rotate(o) \/ Server!CheckAccount(o) PROVE FALSE
  <2>1. (\A p \in Slots \ {o} : req'[p] = req[p]) /\ req'[o].at \in {"answer", "account"}
    BY <1>0, <1>8, PunishRequests, RotateRequests, CheckAccountRequests DEF SameRequest
  <2>2. QED BY <2>1
<1>9. ASSUME NEW o \in Slots, Server!Select(o) PROVE FALSE
  <2>1. \A p \in Slots \ {o} : req'[p] = req[p]
    BY <1>0, <1>9, SelectRowRequests DEF SameRequest
  <2>2. QED BY <1>3, <1>9, <2>1
<1>10. CASE \E o \in Slots : Server!Deliver(o) \/ Server!Lose(o)
  BY <1>5, <1>10 DEF Server!Deliver, Server!Lose
<1>11. CASE (\E c \in Browsers : Server!TooMany(c)) \/ \E r \in DOMAIN devices : Server!Unblock(r) \/ \E d \in Blocks : Server!Block(r, d)
  BY <1>11 DEF Server!TooMany, Server!Unblock, Server!Block
<1>12. CASE (\E status : Server!SetAccount(status) \/ Server!SetTenant(status)) \/ Server!Tick
  BY <1>12 DEF Server!SetAccount, Server!SetTenant, Server!Tick
<1>13. QED BY <1>4, <1>6, <1>7, <1>8, <1>9, <1>10, <1>11, <1>12 DEF Server!Next

-----------------------------------------------------------------------------
(* All together, beside the page.                                           *)

SessionsInv ==
    /\ ServerInv /\ AccountOK /\ Server!BlockEndsSessions /\ Counted /\ CreatorsOK
    /\ \A b \in Browsers : OneRow(b)
    /\ \A b \in Browsers : Trusted(b)

LEMMA InitSessions == Init => SessionsInv
<1> SUFFICES ASSUME Server!Init PROVE SessionsInv
  BY DEF Init
<1>1. ServerInv /\ CreatorsOK
  BY InitServer, InitCreators
<1>2. AccountOK
  BY DEF AccountOK, Server!Init
<1>3. sessions = <<>> /\ devices = <<>> /\ log = 0 /\ failures = <<>>
  BY DEF Server!Init
<1>4. \A s \in Slots : req[s] = Server!NoRequest /\ req[s].at = "idle" /\ req[s].rec = 0
  BY BlankRequest DEF Server!Init
<1>5. Server!BlockEndsSessions
  BY <1>3 DEF Server!BlockEndsSessions
<1>6. Counted
  <2>1. Server!Logged = <<>> /\ Server!Pruned(failures) = <<>>
    BY <1>3, PruneEmpty DEF Server!Logged, Server!Pruned
  <2>2. QED BY <1>4, <2>1 DEF Counted
<1>7. \A b \in Browsers : OneRow(b)
  BY <1>3, <1>4 DEF OneRow, Server!RowsOf
<1>8. \A b \in Browsers : held[b] = None
  BY DEF Server!Init
<1>9. \A b \in Browsers : Trusted(b)
  BY <1>4, <1>8 DEF Trusted, Vouched
<1>10. QED BY <1>1, <1>2, <1>5, <1>6, <1>7, <1>9 DEF SessionsInv

(* The pages write rows of the server by their handlers alone.              *)
LEMMA RowsWritten == ASSUME PageSteps PROVE UNCHANGED server
<1>1. CASE \E k \in visit.keys : Fetch(k) \/ ServeFetch(k) \/ EndFetch(k) \/ LoseFetch(k) \/ Age(k)
  BY <1>1 DEF Fetch, ServeFetch, EndFetch, LoseFetch, Age
<1>2. CASE \/ \E tok \in old : EndOld(tok)
           \/ SignIn \/ BackToList \/ CancelStatus \/ Reopen \/ Expire
           \/ \E s \in {"tenants", "accounts"} : GoTo(s)
           \/ \E t \in Tenants : SelectTenant(t)
           \/ \E to \in DOMAIN Transitions : AskStatus(to)
  BY <1>2 DEF EndOld, SignIn, BackToList, CancelStatus, Reopen, Expire, GoTo, SelectTenant, AskStatus
<1>3. CASE \/ \E op \in Ops : Dismiss(op)
           \/ CreateTenant \/ CreateAccount \/ \E a \in Accounts : ChangePassword(a) \/ ToggleStatus(a)
  BY <1>3 DEF Dismiss, CreateTenant, CreateAccount, ChangePassword, ToggleStatus, Opens
<1>4. CASE \E s \in Slots : \/ ConfirmStatus(s) \/ SubmitPassword(s) \/ SubmitToggle(s)
                            \/ (\E t \in Tenants : SubmitTenant(s, t)) \/ \E a \in Accounts : SubmitAccount(s, a)
  BY <1>4 DEF ConfirmStatus, SubmitPassword, SubmitToggle, SubmitTenant, SubmitAccount, Submit
<1>5. CASE \E s \in Slots : Check(s) \/ Answer(s) \/ Lose(s)
  BY <1>5 DEF Check, Answer, Lose
<1>6. CASE \E s \in Slots, t \in Tenants, to \in visit.aims : Other(s, "tenantStatus", t, to)
  BY <1>6 DEF Other
<1>7. QED BY <1>1, <1>2, <1>3, <1>4, <1>5, <1>6 DEF PageSteps

(* A step of both is one of the log-ins and sessions, or none of theirs.    *)
LEMMA NextServer ==
    ASSUME AccountOK, [Next]_vars
    PROVE  AccountOK' /\ (Server!Next \/ UNCHANGED sessionVars)
<1>1. CASE PageSteps /\ UNCHANGED sessionVars
  BY <1>1, RowsWritten DEF AccountOK, server
<1>2. CASE PageWrites /\ StatusStep
  <2>1. CASE \E status \in {"active", "suspended"} : Server!SetAccount(status)
    BY <2>1 DEF Server!Next, Server!SetAccount, AccountOK
  <2>2. CASE \E status \in {"active", "inactive"} : Server!SetTenant(status)
    BY <2>2 DEF Server!Next, Server!SetTenant, AccountOK
  <2>3. QED BY <1>2, <2>1, <2>2 DEF StatusStep
<1>3. CASE PageWrites /\ SameForServer /\ UNCHANGED sessionVars
  BY <1>3 DEF SameForServer, AccountOK
<1>4. CASE UNCHANGED pageVars /\ Server!Next
  BY <1>4 DEF pageVars, server, AccountOK
<1>5. CASE UNCHANGED vars
  BY <1>5 DEF vars, pageVars, server, AccountOK
<1>6. QED BY <1>1, <1>2, <1>3, <1>4, <1>5 DEF Next

LEMMA StepSessions == ASSUME SessionsInv, [Next]_vars PROVE SessionsInv'
<1>0. /\ ServerInv /\ AccountOK /\ Server!BlockEndsSessions /\ Counted /\ CreatorsOK
      /\ \A b \in Browsers : OneRow(b)
      /\ \A b \in Browsers : Trusted(b)
  BY DEF SessionsInv
<1>1. AccountOK' /\ (Server!Next \/ UNCHANGED sessionVars)
  BY <1>0, NextServer
<1>2. CASE Server!Next
  <2>1. ServerInv' /\ Server!BlockEndsSessions' /\ Counted' /\ CreatorsOK'
    BY <1>0, <1>2, StepsServer, StepsBlockEnds, StepsCounted, StepsCreators
  <2>2. \A b \in Browsers : OneRow(b)'
    BY <1>0, <1>2, StepsOneRow
  <2>3. \A b \in Browsers : Trusted(b)'
    BY <1>0, <1>2, StepsTrusted
  <2>4. QED BY <1>1, <2>1, <2>2, <2>3 DEF SessionsInv
<1>3. CASE UNCHANGED sessionVars
  <2>1. ServerInv'
    <3>1. SessionsOK' /\ RequestsOK' /\ BrowsersOK'
      BY <1>0, <1>3 DEF ServerInv, ServerOK, sessionVars, SessionsOK, RequestsOK, BrowsersOK
    <3>2. LimiterOK' /\ HistoryOK'
      BY <1>0, <1>3 DEF ServerInv, ServerOK, sessionVars, LimiterOK, HistoryOK
    <3>3. RecordRoom' /\ SessionRoom'
      BY <1>0, <1>3 DEF ServerInv, sessionVars, RecordRoom, SessionRoom, Holders, LoggingIn
    <3>4. QED BY <3>1, <3>2, <3>3 DEF ServerInv, ServerOK
  <2>2. Server!Lives' = Server!Lives /\ Server!BlockEndsSessions'
    BY <1>0, <1>3 DEF sessionVars, Server!BlockEndsSessions, Server!Lives, Server!Live
  <2>3. Counted'
    BY <1>0, <1>3 DEF sessionVars, Counted, Server!Logged, Server!Pruned
  <2>4. CreatorsOK'
    BY <1>0, <1>3, <2>2 DEF sessionVars, CreatorsOK
  <2>5. \A b \in Browsers : OneRow(b)'
    BY <1>0, <1>3 DEF sessionVars, OneRow, Server!RowsOf
  <2>6. \A b \in Browsers : Trusted(b)'
    BY <1>0, <1>3 DEF sessionVars, Trusted
  <2>7. QED BY <1>1, <2>1, <2>2, <2>3, <2>4, <2>5, <2>6 DEF SessionsInv
<1>4. QED BY <1>1, <1>2, <1>3

(* A device block ends every session of its device and reaches its browser, *)
(* an account has no more live sessions than log-ins that meet can make, and*)
(* the limiter counts the failures of attempts that do not meet             *)
(* (session-service.ts, superadmin routes, auth-rate-limiter.ts).           *)
THEOREM SessionRulesHold == Spec => []SessionRules
<1>1. SessionsInv => SessionRules
  <2> SUFFICES ASSUME SessionsInv PROVE SessionRules
    OBVIOUS
  <2>1. Server!TypeOK
    BY ServerTyped DEF SessionsInv, AccountOK
  <2>2. Server!BlockEndsSessions /\ Server!BlockReachesBrowser
    BY BrowsersReached DEF SessionsInv
  <2>3. Server!SessionsWithinLimit
    BY WithinLimit DEF SessionsInv
  <2>4. Server!FailuresAreCounted
    BY DEF SessionsInv, Counted, Server!FailuresAreCounted
  <2>5. QED BY <2>1, <2>2, <2>3, <2>4 DEF SessionRules, Server!BlockHolds, Server!LimitsHold
<1>2. QED BY <1>1, InitSessions, StepSessions, PTL DEF Spec

(* A browser that makes one request at a time and hears every answer always *)
(* comes with the token that the server has, so that a refresh of its own   *)
(* does not end its device's sessions (refreshSession).                     *)
THEOREM NobodyAccused == Spec => NoFalseAlarm
<1>1. ASSUME SessionsInv, [Next]_vars PROVE [\A s \in Slots : ~Server!FalseAlarm(s)]_vars
  <2>1. CASE Server!Next
    BY <1>1, <2>1, NotAccused DEF SessionsInv
  <2>2. CASE UNCHANGED sessionVars
    BY <2>2 DEF sessionVars, Server!FalseAlarm
  <2>3. QED BY <1>1, <2>1, <2>2, NextServer DEF SessionsInv
<1>2. QED BY <1>1, InitSessions, StepSessions, PTL DEF Spec, NoFalseAlarm
==============================================================================

---------------------------- MODULE Administration ----------------------------
(* The superadmin's pages beside the log-ins and sessions of the server: an  *)
(* account or a tenant changes its status for AuthSessions when a handler    *)
(* that a page has called writes it, and not otherwise.  (The superadmin's   *)
(* own log-in, which is an account's like any other, is SignIn; blocks are   *)
(* set by calls that no page of the repository makes.)                       *)
EXTENDS SuperadminPages

CONSTANTS
    Member, Home,   \* the account and the tenant of AuthSessions
    Browsers, MaxSessions, MaxAttempts, Window, Duration, Blocks, Sites, MaxRows,
    Scenes          \* which visits and which sites go together

VARIABLES
    site, now, devices, sessions, log, records, req, held, access, overlap, alone, heard, before, failures, crowded

Server == INSTANCE AuthSessions
            WITH account <- accounts[Member],
                 tenant  <- IF tenants[Home] = "active" THEN "active" ELSE "inactive"

ASSUME SceneAssumption ==
    Server!AuthBounds /\ Member \in Accounts /\ Home \in Tenants /\ Scenes \subseteq Visits \X Sites

sessionVars == <<site, now, devices, sessions, log, records, req, held, access, overlap, alone, heard, before,
                 failures, crowded>>
vars == <<pageVars, sessionVars>>

Init == PagesInit /\ Server!Init /\ <<visit, site>> \in Scenes

(* A handler's write is a change of status for the server's log-ins if it   *)
(* is about their account or tenant.                                        *)
SameForServer ==
    /\ accounts'[Member] = accounts[Member]
    /\ tenants'[Home] = "active" <=> tenants[Home] = "active"

StatusStep ==
    \/ \E status \in {"active", "suspended"} : Server!SetAccount(status)
    \/ \E status \in {"active", "inactive"} : Server!SetTenant(status)

Next ==
    \/ PageSteps /\ UNCHANGED sessionVars
    \/ PageWrites /\ (StatusStep \/ (SameForServer /\ UNCHANGED sessionVars))
    \/ UNCHANGED pageVars /\ Server!Next

Spec == Init /\ [][Next]_vars

-----------------------------------------------------------------------------
(* While the pages change accounts and tenants, a device block ends every   *)
(* session and reaches the browser, and the limits of sessions and of failed*)
(* attempts hold as far as a log-in's statements allow (AuthSessions).      *)
SessionRules == Server!BlockHolds /\ Server!LimitsHold

(* A browser that makes one request at a time and hears every answer is not *)
(* taken for a thief, even while its account or its tenant is suspended and *)
(* restored (AuthSessions).                                                 *)
NoFalseAlarm == [][\A s \in Slots : ~Server!FalseAlarm(s)]_vars
=============================================================================

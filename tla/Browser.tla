------------------------------- MODULE Browser -------------------------------
(***************************************************************************)
(* One browser: what it keeps of tenants and accounts and how one gets in, *)
(* LocalTenants, and what happens to those who are in, DeviceAccess.  The  *)
(* second knows of the first only whether a tenant's credentials are here; *)
(* a behaviour shows one of the two.                                       *)
(***************************************************************************)
EXTENDS DeviceAccess

CONSTANTS Servers, Fresh, Users, Passwords, Slugs, Jobs, Plans

VARIABLES
    part,   \* which of the two this behaviour shows
    plan, left, connected, people, accounts, configs, screen, form, jobs, entered, disputed

Nothing == None

Local == INSTANCE LocalTenants

ASSUME BrowserAssumption == Local!LocalBounds

localVars == <<plan, left, connected, people, accounts, configs, screen, form, jobs, entered, disputed>>

LocalRests == left = [c \in Local!Counts |-> 0]

BrowserInit ==
    /\ AccessInit /\ Local!Init
    /\ \/ part = "access" /\ LocalRests
       \/ part = "local" /\ ~LocalRests /\ site = CHOOSE s \in Sites : TRUE

BrowserNext ==
    /\ \/ part = "access" /\ AccessNext /\ UNCHANGED localVars
       \/ part = "local" /\ Local!Next /\ UNCHANGED accessVars
    /\ UNCHANGED part

BrowserSpec == BrowserInit /\ [][BrowserNext]_<<accessVars, localVars, part>> /\ AccessFairness

-----------------------------------------------------------------------------
(* The tables of local tenants and accounts agree with one another and with *)
(* what was stored (LocalTenants).                                          *)
LocalBooksAgree == Local!LocalBooksAgree

(* What comments say of the tables and the code does not do (LocalTenants). *)
StaysOffline    == Local!StaysOffline
NobodyIsShutOut == Local!NobodyIsShutOut
SlugWasChecked  == Local!SlugWasChecked
=============================================================================

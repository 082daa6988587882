--------------------------- MODULE MCAdministration ---------------------------
(* Small instances of Administration: the pages by themselves, the log-ins   *)
(* by themselves, and both while a superadmin suspends the account or the    *)
(* tenant of somebody who is logged in.                                      *)
EXTENDS Administration

CONSTANTS t1, t2, root, member, b1, b2

Nobody == [ops |-> {}, keys |-> {}, aims |-> {}, there |-> {root, member}, loses |-> FALSE, others |-> FALSE, expires |-> FALSE, leaves |-> FALSE]
Basic  == [Nobody EXCEPT !.ops = {"tenantStatus"}, !.keys = {t1}, !.aims = {"suspended", "archived"}]

(* Two details; a detail and the list; a bad connection; a second           *)
(* superadmin; a page that is left; a token that expires.                   *)
Details  == [Basic EXCEPT !.keys = {t1, t2}, !.aims = {"archived"}]
Listing  == [Basic EXCEPT !.keys = {t1, "tenants"}, !.aims = {"active", "suspended"}]
Failing  == [Basic EXCEPT !.loses = TRUE]
Crowded  == [Basic EXCEPT !.others = TRUE]
Leaving  == [Basic EXCEPT !.leaves = TRUE]
Expiring == [Basic EXCEPT !.expires = TRUE]
(* New tenants and accounts; the accounts there are.                        *)
Tenancy  == [Basic EXCEPT !.ops = {"createTenant"}, !.keys = {"tenants"}, !.others = TRUE, !.loses = TRUE]
Hiring   == [Basic EXCEPT !.ops = {"createAccount"}, !.keys = {"tenants", "accounts", "options"}]
People   == [Basic EXCEPT !.ops = {"accountStatus"}, !.keys = {"accounts"}]
Secrets  == [Basic EXCEPT !.ops = {"changePassword"}, !.keys = {"accounts"}]
(* Suspending and restoring a tenant.                                       *)
Toggling == [Basic EXCEPT !.aims = {"active", "suspended"}]

AllVisits == {Nobody, Details, Listing, Failing, Crowded, Leaving, Expiring, Tenancy, Hiring, People, Secrets, Toggling}

Calm == [mistakes |-> FALSE, refreshes |-> FALSE, tabs |-> FALSE, loses |-> FALSE, admin |-> {}, browsers |-> {b1},
         till |-> 0, logins |-> 2]
NoLogins == [Calm EXCEPT !.admin = {"status"}, !.logins = 0]

(* Log-ins from two browsers, and two at a time from one.                   *)
Crowd   == [Calm EXCEPT !.browsers = {b1, b2}, !.tabs = TRUE, !.till = 1, !.logins = 3]
(* One browser that refreshes, over a network that fails.                   *)
Chain   == [Calm EXCEPT !.refreshes = TRUE, !.loses = TRUE, !.tabs = TRUE, !.logins = 1]
(* Blocks.                                                                  *)
Blocking == [Calm EXCEPT !.refreshes = TRUE, !.admin = {"block"}, !.till = 2]
Doubles  == [Calm EXCEPT !.admin = {"block"}, !.tabs = TRUE, !.till = 1, !.logins = 1]
(* A browser that logs in and refreshes while statuses change.              *)
Suspending == [Calm EXCEPT !.refreshes = TRUE, !.admin = {"status"}, !.logins = 1]
(* Mistyped passwords.                                                      *)
Typing  == [Calm EXCEPT !.mistakes = TRUE, !.tabs = TRUE, !.till = 3, !.logins = 1]

AllSites == {NoLogins, Crowd, Chain, Blocking, Doubles, Suspending, Typing}

AllScenes ==
    ((AllVisits \ {Nobody, Toggling}) \X {NoLogins})
    \cup ({Nobody} \X (AllSites \ {NoLogins, Suspending}))
    \cup ({People, Toggling} \X {Suspending})
===============================================================================

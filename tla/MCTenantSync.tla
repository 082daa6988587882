---------------------------- MODULE MCTenantSync ----------------------------
(* Small instances of TenantSync: one or two new tenants and an old one.   *)
EXTENDS TenantSync, TLC

CONSTANTS t1, t2, o1, o2

Calm == [who |-> {t1}, slug |-> t1 :> "s1" @@ t2 :> "s1", user |-> t1 :> "u1" @@ t2 :> "u1", hooks |-> {"setup", "settings"},
         old |-> {}, held |-> {}, loses |-> FALSE, refuses |-> FALSE, kinds |-> {}, late |-> FALSE, maxPresses |-> 2,
         admin |-> {}, patchers |-> 0]
Coop == [id |-> o1, slug |-> "s1", user |-> "u1"]

(* Two tenants that want one slug and one name.                            *)
Rivals   == [Calm EXCEPT !.who = {t1, t2}, !.maxPresses = 3]
(* One device whose network fails, with every part of the pages in use.    *)
Flaky    == [Calm EXCEPT !.hooks = Hooks, !.loses = TRUE, !.kinds = {"member"}, !.late = TRUE, !.maxPresses = 3]
(* The rows of a new tenant, some of which are lost or refused.            *)
Strict   == [Calm EXCEPT !.kinds = Kinds, !.refuses = TRUE, !.loses = TRUE, !.hooks = {"settings"}, !.maxPresses = 1]
(* The superadmin at work.                                                 *)
Managed  == [Calm EXCEPT !.old = {Coop}, !.admin = {"tenant", "account"}, !.kinds = {"member"}]
Statuses == [Calm EXCEPT !.old = {Coop}, !.admin = {"status"}, !.hooks = {}, !.patchers = 1]
(* A device that was logged in to another tenant.                          *)
SecondHand == [Calm EXCEPT !.old = {Coop}, !.held = {t1}, !.kinds = {"member"}, !.hooks = {}]

AllSites == {Rivals, Flaky, Strict, Managed, Statuses, SecondHand}
=============================================================================

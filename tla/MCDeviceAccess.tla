---- MODULE MCDeviceAccess ----
EXTENDS Browser, TLC
CONSTANTS t1, t2, slotG, slotS, s1, s2, f1, f2

Quiet == [tenants |-> {t1}, slots |-> {slotG, slotS}, offline |-> FALSE, loses |-> FALSE, bare |-> FALSE, device |-> FALSE,
          cards |-> FALSE, reloads |-> FALSE, blocks |-> {}]

(* Blocks of both lengths; two tenants; a page that reads cards, of a       *)
(* device that is blocked; a kiosk that is set up; one that is offline now  *)
(* and then.                                                                *)
Long    == [Quiet EXCEPT !.blocks = {1, Cap + 1}]
Shared  == [Quiet EXCEPT !.tenants = {t1, t2}, !.slots = {slotS}, !.bare = TRUE, !.blocks = {1}]
Card    == [Quiet EXCEPT !.cards = TRUE, !.slots = {slotG}, !.blocks = {1}]
Kiosk   == [Quiet EXCEPT !.device = TRUE, !.cards = TRUE, !.slots = {slotG}, !.loses = TRUE]
Remote  == [Quiet EXCEPT !.offline = TRUE, !.cards = TRUE, !.reloads = TRUE]

Places   == {Long, Shared, Card, Kiosk, Remote}
OnePlace == {Quiet}

(* Who is at the server, and what happens: a tenant is set up here while    *)
(* another logs in; two tenants with the same name, passwords and failures; *)
(* a device is set up and a superadmin logs in.                             *)
Whom(t, u, r) == [tenant |-> t, user |-> u, pass |-> "p", role |-> r]
SlugOf  == [t \in Servers |-> IF t = s1 THEN "x" ELSE "y"]
None0 == [c \in {"logins", "setups", "edits", "scouts", "faults", "changes"} |-> 0]
Typed(users, passes) == [user : users, pass : passes]
Rest     == [people |-> {}, slugOf |-> SlugOf, types |-> Typed({"ann"}, {"p"}), left |-> None0]
Setting  == [Rest EXCEPT !.people = {Whom(s1, "ann", "admin")},
                         !.left = [None0 EXCEPT !.setups = 1, !.edits = 1, !.logins = 1, !.faults = 1]]
Twice    == [Rest EXCEPT !.types = Typed({"ann", "ben"}, {"p"}), !.left = [None0 EXCEPT !.setups = 2, !.edits = 2, !.faults = 1]]
Sharing  == [Rest EXCEPT !.people = {Whom(s1, "ann", "admin"), Whom(s2, "ann", "gate")}, !.types = Typed({"ann"}, {"p", "q"}),
                         !.left = [None0 EXCEPT !.logins = 2, !.faults = 1, !.changes = 1]]
Passing  == [Rest EXCEPT !.people = {Whom(s1, "ann", "admin"), Whom(s2, "ben", "superadmin")},
                         !.types = Typed({"ann", "ben"}, {"p"}),
                         !.left = [None0 EXCEPT !.setups = 1, !.edits = 1, !.scouts = 1, !.logins = 1]]
AllPlans == {Rest, Setting, Twice, Sharing, Passing}
====

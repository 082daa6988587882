-------------------------- MODULE EntitySync_proofs --------------------------
(***************************************************************************)
(* Proofs about the rows of a member and a card, for any number of devices *)
(* and any of the sites: NoEditIsLost, AgreesUnlessSkipped and             *)
(* ServerNeverGoesBack.  The inductive invariant says what a request on    *)
(* its way and an answer that has been pulled know of the server's rows:   *)
(* Alone (requests are handled one after the other), MemberInv (an edit is *)
(* in the device's row, then in the request, then on the server),          *)
(* StatusInv and CardInv.                                                  *)
(***************************************************************************)
EXTENDS EntitySync, WellFoundedInduction, TLAPS

Places == {"idle", "member", "memberRead", "card", "cardRead", "answer", "pulled"}
Jobs   == [at: Places, m: SrvMember \cup {None}, c: SrvCard \cup WireCard \cup {None},
           seen: SrvMember \cup SrvCard \cup {None}, refused: SUBSET {"m", "c"}, tries: Nat]

(* A request on its way carries something, and what is handled is there.   *)
JobOK(j) ==
    /\ j.at \notin {"idle", "pulled"} => j.c \in WireCard \cup {None}
    /\ j.at \in {"member", "memberRead"} => j.m # None
    /\ j.at \in {"card", "cardRead"} => j.c # None
    /\ j.at = "answer" => j.m # None \/ j.c # None
    /\ j.at = "memberRead" => j.seen \in SrvMember \cup {None}
    /\ j.at = "cardRead" => j.seen \in SrvCard \cup {None} /\ (j.seen # None => srvC # None)
    /\ j.at = "pulled" => j.c \in SrvCard \cup {None}
    /\ j.tries <= site.maxTries

TypeInv ==
    /\ site \in Sites /\ now \in 0..MaxTime /\ edits \in 0..site.maxEdits
    /\ chip \in [counter: Counters, frozen: BOOLEAN]
    /\ srvM \in SrvMember /\ srvC \in SrvCard \cup {None}
    /\ locM \in [Devices -> LocMember] /\ locC \in [Devices -> LocCard \cup {None}]
    /\ outbox \in [Devices -> SUBSET Counters] /\ job \in [Devices -> Jobs]
    /\ cursor \in [Devices -> [m: Nat, c: Nat]] /\ stampOf \in [Devices -> Nat]
    /\ skipped \in [Devices -> BOOLEAN]

JobsOK == \A d \in Devices : JobOK(job[d]) /\ (OnItsWay(d) /\ job[d].c # None => locC[d] # None)

(* One request is handled at a time, and what it has read is still so.     *)
Alone == ~site.overlap =>
    /\ \A d, e \in Devices : Handling(d) /\ Handling(e) => d = e
    /\ \A d \in Devices : /\ job[d].at = "memberRead" => job[d].seen = srvM
                          /\ job[d].at = "cardRead" => job[d].seen = srvC

(* A pulled member is the server's, or an earlier one.                     *)
Pulled == ~site.overlap => \A d \in Devices :
    /\ cursor[d].m <= srvM.at
    /\ job[d].at = "pulled" /\ job[d].m # None =>
          job[d].m.at <= srvM.at /\ (job[d].m.at = srvM.at => job[d].m = srvM)

Stamps == \A d \in Devices : stampOf[d] <= Clock(d)

(* The last edit of the member on d, from d's row to the server.           *)
Kept(d) ==
    /\ locM[d].at >= stampOf[d]
    /\ locM[d].sync = "synced" => srvM.at >= stampOf[d]
    /\ job[d].at = "pulled" /\ job[d].m # None /\ locM[d].sync = "synced" => job[d].m.at >= stampOf[d]
    /\ OnItsWay(d) /\ job[d].m # None => job[d].m.at >= stampOf[d]
    /\ job[d].at \in {"card", "cardRead", "answer"} /\ job[d].m # None /\ "m" \notin job[d].refused
          => srvM.at >= stampOf[d]
MemberInv == ~site.editsInPush /\ ~site.overlap => \A d \in Devices : Kept(d)

(* With clocks that are not ahead, a device that has pulled the server's   *)
(* member shows it, or has a later edit.                                   *)
Dated(d) ==
    /\ locM[d].at <= now /\ (job[d].m # None => job[d].m.at <= now)
    /\ cursor[d].m = srvM.at /\ ~skipped[d] => locM[d].status = srvM.status \/ stampOf[d] >= srvM.at
StatusInv == ~site.editsInPush /\ ~site.overlap /\ ~Ahead => srvM.at <= now /\ \A d \in Devices : Dated(d)

(* Nothing counts further than the card itself.                            *)
Counted(c) == c # None => c.counter <= chip.counter
CountInv ==
    /\ Counted(srvC)
    /\ \A d \in Devices : /\ Counted(locC[d]) /\ Counted(job[d].c)
                          /\ \A n \in outbox[d] : n <= chip.counter

(* A row that is newer than the server's by its date is so by its counter. *)
Fresh(c) == c # None => c.created <= now /\ (c.created > srvC.at => c.counter >= srvC.counter)
CardInv == ~site.overlap /\ ~Ahead /\ site.known =>
    /\ srvC # None /\ srvC.bal = srvC.counter /\ srvC.at <= now /\ srvC.created = 0
    /\ \A d \in Devices : /\ locC[d] # None /\ Fresh(locC[d]) /\ Fresh(job[d].c)
                          /\ job[d].at = "pulled" /\ job[d].c # None => job[d].c.created = 0

EntityInv ==
    TypeInv /\ JobsOK /\ Alone /\ Pulled /\ Stamps /\ MemberInv /\ StatusInv /\ CountInv /\ CardInv
-----------------------------------------------------------------------------
LEMMA Facts ==
    EntityInv =>
       /\ TypeInv /\ JobsOK /\ Alone /\ Pulled /\ Stamps /\ MemberInv /\ StatusInv /\ CountInv /\ CardInv
       /\ now \in Nat /\ site \in Site /\ MaxCounter \in Nat /\ MaxTime \in Nat
       /\ \A d \in Devices : Clock(d) \in Nat /\ now <= Clock(d) /\ (~Ahead => Clock(d) = now)
<1> SUFFICES ASSUME EntityInv
             PROVE  /\ TypeInv /\ JobsOK /\ Alone /\ Pulled /\ Stamps /\ MemberInv /\ StatusInv /\ CountInv /\ CardInv
                    /\ now \in Nat /\ site \in Site /\ MaxCounter \in Nat /\ MaxTime \in Nat
                    /\ \A d \in Devices : Clock(d) \in Nat /\ now <= Clock(d) /\ (~Ahead => Clock(d) = now)
  OBVIOUS
<1>1. TypeInv /\ now \in Nat /\ site \in Site /\ MaxCounter \in Nat /\ MaxTime \in Nat
  BY EntityAssumption DEF EntityInv, TypeInv
<1>2. site.ahead \in [Devices -> Nat]
  BY <1>1 DEF Site
<1>3. \A d \in Devices : Clock(d) \in Nat /\ now <= Clock(d) /\ (~Ahead => Clock(d) = now)
  BY <1>1, <1>2 DEF Clock, Ahead
<1>4. QED BY <1>1, <1>3 DEF EntityInv

-----------------------------------------------------------------------------
(* An edit on d: the member's row becomes x, the card's y.                 *)
MemberEdit(d, x) ==
    /\ x \in LocMember /\ locM' = [locM EXCEPT ![d] = x]
    /\ \/ stampOf' = [stampOf EXCEPT ![d] = Clock(d)] /\ x.at = Clock(d) /\ x.sync = "pending"
       \/ /\ stampOf' = stampOf /\ x.at \in {locM[d].at, Clock(d)}
          /\ x.sync = locM[d].sync /\ x.status = locM[d].status
CardEdit(d, y) ==
    /\ y \in LocCard \cup {None} /\ locC' = [locC EXCEPT ![d] = y]
    /\ y = None => locC[d] = None
    /\ y # None => y.counter <= chip'.counter
    /\ locC[d] # None => \/ y.created = locC[d].created /\ y.counter \in {locC[d].counter, chip'.counter}
                         \/ y.created = Clock(d) /\ y.counter = chip'.counter
Edited(d) ==
    /\ UNCHANGED <<site, now, server, job, cursor, skipped>>
    /\ OnItsWay(d) => site.editsInPush
    /\ edits' \in 0..site.maxEdits
    /\ chip' \in [counter: Counters, frozen: BOOLEAN] /\ chip.counter <= chip'.counter
    /\ outbox' \in [Devices -> SUBSET Counters]
    /\ \A e \in Devices : \A n \in outbox'[e] : n <= chip'.counter

LEMMA EditKeeps ==
    ASSUME EntityInv, NEW d \in Devices, NEW x, NEW y, MemberEdit(d, x), CardEdit(d, y), Edited(d)
    PROVE  EntityInv'
<1>0. /\ TypeInv /\ JobsOK /\ Alone /\ Pulled /\ Stamps /\ MemberInv /\ StatusInv /\ CountInv /\ CardInv
      /\ now \in Nat /\ Clock(d) \in Nat /\ now <= Clock(d) /\ (~Ahead => Clock(d) = now)
  BY Facts
<1>u. UNCHANGED <<site, now, srvM, srvC, job, cursor, skipped>>
  BY DEF Edited, server
<1>1. /\ locM' \in [Devices -> LocMember] /\ locM'[d] = x
      /\ locC' \in [Devices -> LocCard \cup {None}] /\ locC'[d] = y
      /\ \A e \in Devices \ {d} : locM'[e] = locM[e] /\ locC'[e] = locC[e]
  BY <1>0 DEF TypeInv, MemberEdit, CardEdit
<1>2. /\ stampOf' \in [Devices -> Nat]
      /\ \A e \in Devices \ {d} : stampOf'[e] = stampOf[e]
      /\ stampOf'[d] <= Clock(d)
  BY <1>0 DEF TypeInv, MemberEdit, Stamps
<1>3. TypeInv'
  BY <1>0, <1>1, <1>2, <1>u DEF TypeInv, Edited
<1>4. JobsOK' /\ Alone' /\ Pulled'
  <2>1. y = None => locC[d] = None
    BY DEF CardEdit
  <2>2. JobsOK'
    BY <1>0, <1>1, <1>u, <2>1 DEF JobsOK, JobOK, OnItsWay
  <2>3. QED BY <1>0, <1>u, <2>2 DEF Alone, Handling, Pulled
<1>5. Stamps'
  BY <1>0, <1>2, <1>u DEF Stamps, Clock
<1>6. MemberInv'
  <2>1. SUFFICES ASSUME ~site.editsInPush, ~site.overlap, NEW e \in Devices
                 PROVE  Kept(e)'
    BY <1>u DEF MemberInv
  <2>2. Kept(e)
    BY <1>0, <2>1 DEF MemberInv
  <2>3. CASE e # d
    BY <1>1, <1>2, <1>u, <2>2, <2>3 DEF Kept, OnItsWay
  <2>4. CASE e = d
    <3>1. ~OnItsWay(d)
      BY <2>1 DEF Edited
    <3>2. x.at \in Nat /\ stampOf[d] \in Nat /\ stampOf[d] <= Clock(d)
      BY <1>0 DEF MemberEdit, LocMember, TypeInv, Stamps
    <3>3. CASE stampOf' = [stampOf EXCEPT ![d] = Clock(d)] /\ x.at = Clock(d) /\ x.sync = "pending"
      <4>1. stampOf'[d] = Clock(d)
        BY <1>0, <3>3 DEF TypeInv
      <4>2. QED BY <1>0, <1>1, <1>u, <2>4, <3>1, <3>3, <4>1 DEF Kept, OnItsWay
    <3>4. CASE stampOf' = stampOf /\ x.at \in {locM[d].at, Clock(d)} /\ x.sync = locM[d].sync
      BY <1>0, <1>1, <1>u, <2>2, <2>4, <3>1, <3>2, <3>4 DEF Kept, OnItsWay
    <3>5. QED BY <3>3, <3>4 DEF MemberEdit
  <2>5. QED BY <2>3, <2>4
<1>7. StatusInv'
  <2>1. SUFFICES ASSUME ~site.editsInPush, ~site.overlap, ~Ahead, NEW e \in Devices
                 PROVE  Dated(e)'
    BY <1>0, <1>u DEF StatusInv, Ahead
  <2>2. Dated(e) /\ srvM.at <= now /\ srvM.at \in Nat
    BY <1>0, <2>1 DEF StatusInv, TypeInv, SrvMember
  <2>3. CASE e # d
    BY <1>1, <1>2, <1>u, <2>2, <2>3 DEF Dated
  <2>4. CASE e = d
    <3>1. Clock(d) = now
      BY <1>0, <2>1
    <3>2. CASE stampOf' = [stampOf EXCEPT ![d] = Clock(d)] /\ x.at = Clock(d)
      <4>1. stampOf'[d] = now
        BY <1>0, <3>1, <3>2 DEF TypeInv
      <4>2. QED BY <1>0, <1>1, <1>u, <2>2, <2>4, <3>1, <3>2, <4>1 DEF Dated
    <3>3. CASE stampOf' = stampOf /\ x.at \in {locM[d].at, Clock(d)} /\ x.status = locM[d].status
      BY <1>0, <1>1, <1>u, <2>2, <2>4, <3>1, <3>3 DEF Dated
    <3>4. QED BY <3>2, <3>3 DEF MemberEdit
  <2>5. QED BY <2>3, <2>4
<1>8. CountInv'
  <2>1. chip.counter \in Nat /\ chip'.counter \in Nat /\ chip.counter <= chip'.counter
    BY <1>0 DEF TypeInv, Edited, Counters
  <2>2. ASSUME NEW c, c \in SrvCard \cup WireCard \cup LocCard \cup {None}, Counted(c)
        PROVE  Counted(c)'
    <3>1. c # None => c.counter \in Nat
      BY <2>2 DEF SrvCard, WireCard, LocCard, Counters
    <3>2. QED BY <2>1, <2>2, <3>1 DEF Counted
  <2>3. Counted(srvC)'
    BY <1>0, <1>u, <2>2 DEF CountInv, TypeInv
  <2>4. ASSUME NEW e \in Devices
        PROVE  Counted(job[e].c)' /\ Counted(locC[e])'
    <3>1. Counted(job[e].c)'
      BY <1>0, <1>u, <2>2 DEF CountInv, TypeInv, Jobs
    <3>2. CASE e # d
      BY <1>0, <1>1, <2>2, <3>1, <3>2 DEF CountInv, TypeInv
    <3>3. CASE e = d
      BY <1>1, <3>1, <3>3 DEF CardEdit, Counted
    <3>4. QED BY <3>2, <3>3
  <2>5. QED BY <2>3, <2>4 DEF CountInv, Edited
<1>9. CardInv'
  <2>1. SUFFICES ASSUME ~site.overlap, ~Ahead, site.known
                 PROVE  \A e \in Devices : locC'[e] # None /\ Fresh(locC[e])'
    BY <1>0, <1>u DEF CardInv, Ahead, Fresh
  <2>2. /\ srvC # None /\ srvC.at <= now /\ Clock(d) = now
        /\ \A e \in Devices : locC[e] # None /\ Fresh(locC[e])
    BY <1>0, <2>1 DEF CardInv
  <2>3. srvC.counter \in Nat /\ srvC.at \in Nat /\ chip'.counter \in Nat /\ srvC.counter <= chip'.counter
    BY <1>0, <2>2 DEF TypeInv, SrvCard, Counters, CountInv, Counted, Edited
  <2>4. y # None /\ Fresh(y)
    <3>1. y # None
      BY <2>2 DEF CardEdit
    <3>2. locC[d].created \in Nat /\ locC[d].counter \in Nat /\ Fresh(locC[d]) /\ locC[d] # None
      BY <1>0, <2>2 DEF TypeInv, LocCard, Counters
    <3>3. CASE y.created = locC[d].created /\ y.counter = locC[d].counter
      BY <3>1, <3>2, <3>3 DEF Fresh
    <3>4. CASE y.created = locC[d].created /\ y.counter = chip'.counter
      BY <2>3, <3>1, <3>2, <3>4 DEF Fresh
    <3>5. CASE y.created = Clock(d) /\ y.counter = chip'.counter
      BY <1>0, <2>2, <2>3, <3>1, <3>5 DEF Fresh
    <3>6. QED BY <2>2, <3>1, <3>3, <3>4, <3>5 DEF CardEdit
  <2>5. QED BY <1>1, <1>u, <2>2, <2>4 DEF Fresh
<1>10. QED BY <1>3, <1>4, <1>5, <1>6, <1>7, <1>8, <1>9 DEF EntityInv

(* The rows that the edits make.                                           *)
LEMMA RowFacts ==
    EntityInv =>
       /\ chip.counter \in Counters /\ chip.frozen \in BOOLEAN
       /\ \A d \in Devices :
             /\ Clock(d) \in Nat
             /\ locM[d] \in LocMember /\ Touched(d) \in LocMember /\ Touched(d).at = Clock(d)
             /\ Touched(d).sync = locM[d].sync /\ Touched(d).status = locM[d].status
             /\ locC[d] \in LocCard \cup {None} /\ (locC[d] # None => locC[d].counter <= chip.counter)
       /\ \A k \in LocCard : k # None /\ k.counter \in Counters /\ k.created \in Nat
       /\ locM \in [Devices -> LocMember] /\ locC \in [Devices -> LocCard \cup {None}]
       /\ outbox \in [Devices -> SUBSET Counters] /\ edits \in 0..site.maxEdits /\ site.maxEdits \in Nat
<1> SUFFICES ASSUME EntityInv
             PROVE  /\ chip.counter \in Counters /\ chip.frozen \in BOOLEAN
                    /\ \A d \in Devices :
                          /\ Clock(d) \in Nat
                          /\ locM[d] \in LocMember /\ Touched(d) \in LocMember /\ Touched(d).at = Clock(d)
                          /\ Touched(d).sync = locM[d].sync /\ Touched(d).status = locM[d].status
                          /\ locC[d] \in LocCard \cup {None} /\ (locC[d] # None => locC[d].counter <= chip.counter)
                    /\ \A k \in LocCard : k # None /\ k.counter \in Counters /\ k.created \in Nat
                    /\ locM \in [Devices -> LocMember] /\ locC \in [Devices -> LocCard \cup {None}]
                    /\ outbox \in [Devices -> SUBSET Counters] /\ edits \in 0..site.maxEdits /\ site.maxEdits \in Nat
  OBVIOUS
<1>1. /\ chip.counter \in Counters /\ chip.frozen \in BOOLEAN /\ site.maxEdits \in Nat
      /\ locM \in [Devices -> LocMember] /\ locC \in [Devices -> LocCard \cup {None}]
      /\ outbox \in [Devices -> SUBSET Counters] /\ edits \in 0..site.maxEdits
  BY Facts DEF TypeInv, Site
<1>2. ASSUME NEW d \in Devices
      PROVE  /\ Clock(d) \in Nat /\ locM[d] \in LocMember /\ Touched(d) \in LocMember /\ Touched(d).at = Clock(d)
             /\ Touched(d).sync = locM[d].sync /\ Touched(d).status = locM[d].status
             /\ locC[d] \in LocCard \cup {None} /\ (locC[d] # None => locC[d].counter <= chip.counter)
  <2>1. Clock(d) \in Nat /\ locM[d] \in LocMember
    BY <1>1, Facts
  <2>2. /\ Touched(d) \in LocMember /\ Touched(d).at = Clock(d)
        /\ Touched(d).sync = locM[d].sync /\ Touched(d).status = locM[d].status
    BY <2>1 DEF Touched, LocMember
  <2>3. QED BY <1>1, <2>1, <2>2, Facts DEF CountInv, Counted
<1>3. \A k \in LocCard : k # None /\ k.counter \in Counters /\ k.created \in Nat
  BY NoneAssumption DEF LocCard
<1>4. QED BY <1>1, <1>2, <1>3

LEMMA CascadeFacts ==
    ASSUME NEW status \in MemberStatus, NEW c \in LocCard
    PROVE  /\ Cascade(status, c) \in LocCard
           /\ Cascade(status, c).created = c.created /\ Cascade(status, c).counter = c.counter
<1>1. c # None
  BY NoneAssumption
<1>2. QED BY <1>1 DEF Cascade, LocCard, CardStatus, MemberStatus, Sync

LEMMA FromChipFacts ==
    ASSUME EntityInv, NEW d \in Devices, NEW ch, ch.counter \in Counters
    PROVE  LET y == FromChip(d, ch) IN
           /\ y \in LocCard
           /\ locC[d] = None => y.counter = ch.counter
           /\ locC[d] # None => y.created = locC[d].created /\ y.counter \in {locC[d].counter, ch.counter}
<1>1. locC[d] = None \/ locC[d] \in LocCard
  BY RowFacts
<1>2. CASE locC[d] = None
  BY <1>2 DEF FromChip, LocCard, CardStatus, Sync
<1>3. CASE locC[d] \in LocCard /\ locC[d] # None
  BY <1>3 DEF FromChip, LocCard, CardStatus, Sync
<1>4. QED BY <1>1, <1>2, <1>3

LEMMA EditSteps ==
    ASSUME EntityInv, NEW d \in Devices, Edits(d)
    PROVE  EntityInv'
<1>0. /\ chip.counter \in Counters /\ chip.frozen \in BOOLEAN
      /\ \A e \in Devices : \A n \in outbox[e] : n <= chip.counter
      /\ \A n \in Counters : n \in Nat
      /\ chip \in [counter: Counters, frozen: BOOLEAN]
  BY RowFacts, Facts DEF CountInv, Counters, TypeInv
<1>m. UNCHANGED <<locM, stampOf>> => MemberEdit(d, locM[d])
  BY RowFacts DEF MemberEdit
<1>t. locM' = [locM EXCEPT ![d] = Touched(d)] /\ UNCHANGED stampOf => MemberEdit(d, Touched(d))
  BY RowFacts DEF MemberEdit
<1>c. UNCHANGED chip => chip'.counter \in Counters /\ chip.counter <= chip'.counter
  BY <1>0
<1>e. ASSUME NEW rows, Edit(d, rows), UNCHANGED chip
      PROVE  Edited(d)
  <2>1. edits' \in 0..site.maxEdits
    BY <1>e, RowFacts DEF Edit
  <2>2. QED BY <1>0, <1>e, <2>1, RowFacts DEF Edit, Edited
<1>1. ASSUME NEW status \in MemberStatus, ChangeMember(d, status)
      PROVE  EntityInv'
  <2>1. PICK x : x = [status |-> status, at |-> Clock(d), sync |-> "pending"]
    OBVIOUS
  <2>2. PICK y : y = Cascade(status, locC[d])
    OBVIOUS
  <2>3. locM' = [locM EXCEPT ![d] = x] /\ locC' = [locC EXCEPT ![d] = y] /\ UNCHANGED chip
        /\ stampOf' = [stampOf EXCEPT ![d] = Clock(d)] /\ Edit(d, "member")
    BY <1>1, <2>1, <2>2 DEF ChangeMember
  <2>4. x \in LocMember /\ x.at = Clock(d) /\ x.sync = "pending"
    BY <2>1, RowFacts DEF LocMember, Sync
  <2>5. MemberEdit(d, x)
    BY <2>3, <2>4 DEF MemberEdit
  <2>6. CASE locC[d] = None
    <3>1. y = None
      BY <2>2, <2>6 DEF Cascade
    <3>2. CardEdit(d, y)
      BY <2>3, <2>6, <3>1 DEF CardEdit
    <3>3. QED BY <1>e, <2>3, <2>5, <3>2, EditKeeps
  <2>7. CASE locC[d] # None
    <3>1. y \in LocCard /\ y # None /\ y.created = locC[d].created /\ y.counter = locC[d].counter
      BY <2>2, <2>7, RowFacts, CascadeFacts
    <3>2. y.counter <= chip'.counter
      BY <2>3, <2>7, <3>1, RowFacts
    <3>3. CardEdit(d, y)
      BY <2>3, <2>7, <3>1, <3>2 DEF CardEdit
    <3>4. QED BY <1>e, <2>3, <2>5, <3>3, EditKeeps
  <2>8. QED BY <2>6, <2>7
<1>2. ASSUME NEW status \in CardStatus, ChangeCard(d, status)
      PROVE  EntityInv'
  <2>1. Edited(d) /\ MemberEdit(d, locM[d]) /\ UNCHANGED chip
    BY <1>2, <1>e, <1>m DEF ChangeCard
  <2>2. CASE locC[d] = None
    <3>1. PICK y : y = [status |-> "active", counter |-> 0, created |-> Clock(d), sync |-> "pending"]
      OBVIOUS
    <3>2. y \in LocCard /\ y # None /\ y.counter = 0 /\ locC' = [locC EXCEPT ![d] = y]
      BY <1>2, <2>2, <3>1, RowFacts, Facts DEF ChangeCard, LocCard, CardStatus, Sync, Counters
    <3>3. CardEdit(d, y)
      BY <1>0, <2>1, <2>2, <3>2 DEF CardEdit
    <3>4. QED BY <2>1, <3>3, EditKeeps
  <2>3. CASE locC[d] # None
    <3>1. PICK y : y = [locC[d] EXCEPT !.status = status, !.sync = "pending"]
      OBVIOUS
    <3>2. y \in LocCard /\ y # None /\ y.created = locC[d].created /\ y.counter = locC[d].counter
      <4>1. locC[d] \in [status: CardStatus, counter: Counters, created: Nat, sync: Sync] /\ status \in CardStatus
        BY <1>2, <2>3, RowFacts DEF LocCard
      <4>2. /\ y \in [status: CardStatus, counter: Counters, created: Nat, sync: Sync]
            /\ y.created = locC[d].created /\ y.counter = locC[d].counter
        BY <3>1, <4>1 DEF Sync
      <4>3. QED BY <4>2, RowFacts DEF LocCard
    <3>3. locC' = [locC EXCEPT ![d] = y]
      BY <1>2, <2>3, <3>1, RowFacts DEF ChangeCard
    <3>4. CardEdit(d, y)
      BY <2>1, <2>3, <3>2, <3>3, RowFacts DEF CardEdit
    <3>5. QED BY <2>1, <3>4, EditKeeps
  <2>4. QED BY <2>2, <2>3
<1>3. CASE Register(d)
  <2>1. Edited(d) /\ MemberEdit(d, locM[d]) /\ UNCHANGED chip
    BY <1>3, <1>e, <1>m DEF Register
  <2>2. PICK y : y = [status |-> "active", counter |-> chip.counter, created |-> Clock(d), sync |-> "pending"]
    OBVIOUS
  <2>3. /\ y \in LocCard /\ y # None /\ y.counter = chip.counter /\ y.created = Clock(d)
        /\ locC' = [locC EXCEPT ![d] = y]
    BY <1>3, <2>2, RowFacts DEF Register, LocCard, CardStatus, Sync
  <2>4. CardEdit(d, y)
    BY <1>0, <2>1, <2>3 DEF CardEdit
  <2>5. QED BY <2>1, <2>4, EditKeeps
<1>4. CASE Scout(d)
  <2>1. Edited(d) /\ MemberEdit(d, Touched(d)) /\ UNCHANGED chip
    BY <1>4, <1>e, <1>t DEF Scout
  <2>2. PICK y : y = FromChip(d, chip)
    OBVIOUS
  <2>3. /\ y \in LocCard /\ y # None /\ locC' = [locC EXCEPT ![d] = y]
        /\ locC[d] = None => y.counter = chip.counter
        /\ locC[d] # None => y.created = locC[d].created /\ y.counter \in {locC[d].counter, chip.counter}
    BY <1>0, <1>4, <2>2, FromChipFacts, RowFacts DEF Scout
  <2>4. CardEdit(d, y)
    BY <1>0, <2>1, <2>3, RowFacts DEF CardEdit
  <2>5. QED BY <2>1, <2>4, EditKeeps
<1>5. CASE StationReads(d)
  <2>1. Edited(d) /\ MemberEdit(d, locM[d]) /\ UNCHANGED chip
    BY <1>5, <1>e, <1>m DEF StationReads
  <2>2. PICK y : y = IF locC[d] = None
                       THEN [status |-> "active", counter |-> chip.counter, created |-> 0, sync |-> "pending"]
                       ELSE [locC[d] EXCEPT !.counter = chip.counter, !.sync = "pending"]
    OBVIOUS
  <2>3. locC' = [locC EXCEPT ![d] = y]
    BY <1>5, <2>2, RowFacts DEF StationReads
  <2>4. /\ y \in LocCard /\ y # None /\ y.counter = chip.counter
        /\ locC[d] # None => y.created = locC[d].created
    BY <1>0, <2>2, RowFacts DEF LocCard, CardStatus, Sync
  <2>5. CardEdit(d, y)
    BY <1>0, <2>1, <2>3, <2>4 DEF CardEdit
  <2>6. QED BY <2>1, <2>5, EditKeeps
<1>6. ASSUME NEW ch, ch \in [counter: Counters, frozen: BOOLEAN], ch.counter = chip.counter + 1, chip' = ch,
             OnItsWay(d) => site.editsInPush,
             outbox' = [outbox EXCEPT ![d] = @ \cup {ch.counter}],
             locM' = [locM EXCEPT ![d] = Touched(d)],
             UNCHANGED <<site, now, edits, server, job, cursor, history>>,
             NEW y, y \in LocCard, locC' = [locC EXCEPT ![d] = y],
             locC[d] = None => y.counter = ch.counter,
             locC[d] # None => y.created = locC[d].created /\ y.counter \in {locC[d].counter, ch.counter}
      PROVE  EntityInv'
  <2>1. chip'.counter \in Counters /\ chip.counter <= chip'.counter /\ chip.counter \in Nat
    BY <1>0, <1>6
  <2>2. /\ outbox' \in [Devices -> SUBSET Counters]
        /\ \A e \in Devices : \A n \in outbox'[e] : n \in outbox[e] \/ n = chip'.counter
    BY <1>6, <2>1, RowFacts
  <2>3. \A e \in Devices : \A n \in outbox'[e] : n <= chip'.counter
    <3>1. SUFFICES ASSUME NEW e \in Devices, NEW n \in outbox'[e]
                   PROVE  n <= chip'.counter
      OBVIOUS
    <3>2. n \in Nat
      BY <1>0, <2>2
    <3>3. n <= chip.counter \/ n = chip'.counter
      BY <1>0, <2>2
    <3>4. QED BY <2>1, <3>2, <3>3, <1>0
  <2>4. Edited(d)
    BY <1>6, <2>1, <2>2, <2>3, RowFacts DEF Edited, history
  <2>5. MemberEdit(d, Touched(d))
    BY <1>6, <1>t DEF history
  <2>6. y # None /\ y.counter <= chip'.counter
    <3>1. y # None /\ (locC[d] # None => locC[d].counter <= chip.counter /\ locC[d].counter \in Nat)
      BY <1>0, <1>6, RowFacts
    <3>2. QED BY <1>0, <1>6, <2>1, <3>1
  <2>7. CardEdit(d, y)
    BY <1>6, <2>6 DEF CardEdit
  <2>8. QED BY <2>4, <2>5, <2>7, EditKeeps
<1>7. CASE WriteCard(d)
  <2>1. PICK ch : ch = [counter |-> chip.counter + 1, frozen |-> Blocked(d)]
    OBVIOUS
  <2>2. ch \in [counter: Counters, frozen: BOOLEAN] /\ ch.counter = chip.counter + 1
    <3>1. chip.counter + 1 \in Counters
      BY <1>0, <1>7, Facts DEF WriteCard, Counters
    <3>2. Blocked(d) \in BOOLEAN
      BY DEF Blocked
    <3>3. QED BY <2>1, <3>1, <3>2
  <2>3. PICK y : y = FromChip(d, ch)
    OBVIOUS
  <2>4. /\ y \in LocCard
        /\ locC[d] = None => y.counter = ch.counter
        /\ locC[d] # None => y.created = locC[d].created /\ y.counter \in {locC[d].counter, ch.counter}
    BY <2>2, <2>3, FromChipFacts
  <2>5. QED BY <1>6, <1>7, <2>1, <2>2, <2>3, <2>4 DEF WriteCard
<1>8. CASE ResetCard(d)
  <2>1. PICK ch : ch = [counter |-> chip.counter + 1, frozen |-> FALSE]
    OBVIOUS
  <2>2. ch \in [counter: Counters, frozen: BOOLEAN] /\ ch.counter = chip.counter + 1
    <3>1. chip.counter + 1 \in Counters
      BY <1>0, <1>8, Facts DEF ResetCard, Counters
    <3>2. QED BY <2>1, <3>1
  <2>3. PICK z : z = FromChip(d, ch)
    OBVIOUS
  <2>4. /\ z \in LocCard
        /\ locC[d] # None => z.created = locC[d].created
    BY <2>2, <2>3, FromChipFacts
  <2>5. PICK y : y = [z EXCEPT !.status = "active", !.counter = ch.counter]
    OBVIOUS
  <2>6. y \in LocCard /\ y.counter = ch.counter /\ y.created = z.created
    BY <2>2, <2>4, <2>5 DEF LocCard, CardStatus
  <2>7. QED BY <1>6, <1>8, <2>1, <2>2, <2>3, <2>4, <2>5, <2>6 DEF ResetCard
<1>9. QED BY <1>1, <1>2, <1>3, <1>4, <1>5, <1>7, <1>8 DEF Edits

-----------------------------------------------------------------------------
(* A step of d's synchronisation that changes nothing else: d's job is j.  *)
Busy(j) == j.at \in {"memberRead", "cardRead"} \/ (j.at = "card" /\ j.m # None)

JobAlone(d, j) ==
    /\ Busy(j) => \A e \in Devices \ {d} : ~Handling(e)
    /\ j.at = "memberRead" => j.seen = srvM
    /\ j.at = "cardRead" => j.seen = srvC
    /\ j.at = "pulled" /\ j.m # None => j.m.at <= srvM.at /\ (j.m.at = srvM.at => j.m = srvM)

JobKept(d, j) ==
    /\ j.at = "pulled" /\ j.m # None /\ locM[d].sync = "synced" => j.m.at >= stampOf[d]
    /\ j.at \notin {"idle", "pulled"} /\ j.m # None => j.m.at >= stampOf[d]
    /\ j.at \in {"card", "cardRead", "answer"} /\ j.m # None /\ "m" \notin j.refused
          => srvM.at >= stampOf[d]

JobStep(d, j) ==
    /\ job' = [job EXCEPT ![d] = j] /\ j \in Jobs /\ JobOK(j)
    /\ UNCHANGED <<site, now, edits, chip, server, local, cursor, history>>
    /\ ~site.overlap => JobAlone(d, j)
    /\ ~site.editsInPush /\ ~site.overlap => JobKept(d, j)
    /\ ~site.editsInPush /\ ~site.overlap /\ ~Ahead /\ j.m # None => j.m.at <= now
    /\ Counted(j.c) /\ (j.at \notin {"idle", "pulled"} /\ j.c # None => locC[d] # None)
    /\ ~site.overlap /\ ~Ahead /\ site.known =>
          Fresh(j.c) /\ (j.at = "pulled" /\ j.c # None => j.c.created = 0)

LEMMA JobKeeps ==
    ASSUME EntityInv, NEW d \in Devices, NEW j, JobStep(d, j)
    PROVE  EntityInv'
<1>0. /\ TypeInv /\ JobsOK /\ Alone /\ Pulled /\ Stamps /\ MemberInv /\ StatusInv /\ CountInv /\ CardInv
  BY Facts
<1>u. UNCHANGED <<site, now, edits, chip, srvM, srvC, locM, locC, outbox, cursor, stampOf, skipped>>
  BY DEF JobStep, server, local, history
<1>1. job' \in [Devices -> Jobs] /\ job'[d] = j /\ \A e \in Devices \ {d} : job'[e] = job[e]
  BY <1>0 DEF JobStep, TypeInv
<1>2. TypeInv'
  BY <1>0, <1>1, <1>u DEF TypeInv
<1>3. JobsOK'
  BY <1>0, <1>1, <1>u DEF JobsOK, JobOK, JobStep, OnItsWay
<1>4. Alone' /\ Pulled'
  <2>1. SUFFICES ASSUME ~site.overlap
                 PROVE  Alone' /\ Pulled'
    BY <1>u DEF Alone, Pulled
  <2>2. JobAlone(d, j)
    BY <2>1 DEF JobStep
  <2>3. \A e \in Devices : Handling(e)' => IF e = d THEN Busy(j) ELSE Handling(e)
    BY <1>1 DEF Handling, Busy
  <2>4. \A a, b \in Devices : Handling(a)' /\ Handling(b)' => a = b
    BY <1>0, <2>1, <2>2, <2>3 DEF Alone, JobAlone
  <2>5. \A e \in Devices : /\ job'[e].at = "memberRead" => job'[e].seen = srvM
                           /\ job'[e].at = "cardRead" => job'[e].seen = srvC
    BY <1>0, <1>1, <2>1, <2>2 DEF Alone, JobAlone
  <2>6. Pulled'
    BY <1>0, <1>1, <1>u, <2>1, <2>2 DEF Pulled, JobAlone
  <2>7. QED BY <1>u, <2>4, <2>5, <2>6 DEF Alone
<1>5. Stamps'
  BY <1>0, <1>u DEF Stamps, Clock
<1>6. MemberInv'
  <2>1. SUFFICES ASSUME ~site.editsInPush, ~site.overlap, NEW e \in Devices
                 PROVE  Kept(e)'
    BY <1>u DEF MemberInv
  <2>2. Kept(e)
    BY <1>0, <2>1 DEF MemberInv
  <2>3. CASE e # d
    BY <1>1, <1>u, <2>2, <2>3 DEF Kept, OnItsWay
  <2>4. CASE e = d
    <3>1. JobKept(d, j)
      BY <2>1 DEF JobStep
    <3>2. QED BY <1>1, <1>u, <2>2, <2>4, <3>1 DEF Kept, OnItsWay, JobKept
  <2>5. QED BY <2>3, <2>4
<1>7. StatusInv'
  <2>1. SUFFICES ASSUME ~site.editsInPush, ~site.overlap, ~Ahead, NEW e \in Devices
                 PROVE  Dated(e)'
    BY <1>0, <1>u DEF StatusInv, Ahead
  <2>2. Dated(e)
    BY <1>0, <2>1 DEF StatusInv
  <2>3. QED BY <1>1, <1>u, <2>1, <2>2 DEF Dated, JobStep
<1>8. CountInv'
  BY <1>0, <1>1, <1>u DEF CountInv, Counted, JobStep
<1>9. CardInv'
  <2>1. SUFFICES ASSUME ~site.overlap, ~Ahead, site.known
                 PROVE  \A e \in Devices : Fresh(job'[e].c) /\ (job'[e].at = "pulled" /\ job'[e].c # None => job'[e].c.created = 0)
    BY <1>0, <1>u DEF CardInv, Ahead, Fresh
  <2>2. QED BY <1>0, <1>1, <2>1 DEF CardInv, JobStep
<1>10. QED BY <1>2, <1>3, <1>4, <1>5, <1>6, <1>7, <1>8, <1>9 DEF EntityInv

(* The rows that a request or an answer carries.                           *)
LEMMA JobFacts ==
    ASSUME EntityInv, NEW d \in Devices
    PROVE  /\ job \in [Devices -> Jobs] /\ job[d] \in Jobs /\ JobOK(job[d])
           /\ Idle \in Jobs /\ JobOK(Idle) /\ Idle.at = "idle" /\ Idle.m = None /\ Idle.c = None
           /\ Counted(job[d].c) /\ (OnItsWay(d) /\ job[d].c # None => locC[d] # None)
           /\ ~site.editsInPush /\ ~site.overlap => Kept(d)
           /\ ~site.editsInPush /\ ~site.overlap /\ ~Ahead => Dated(d)
           /\ ~site.overlap /\ ~Ahead /\ site.known => Fresh(job[d].c)
<1>1. Idle \in Jobs /\ Idle.at = "idle" /\ Idle.m = None /\ Idle.c = None /\ Idle.tries = 0
  BY DEF Idle, Jobs, Places
<1>2. site.maxTries \in Nat
  BY Facts DEF Site
<1>3. JobOK(Idle)
  BY <1>1, <1>2 DEF JobOK
<1>4. QED BY <1>1, <1>3, Facts DEF TypeInv, JobsOK, CountInv, MemberInv, StatusInv, CardInv

LEMMA WireFacts ==
    ASSUME EntityInv, NEW d \in Devices
    PROVE  LET m == ToWireMember(Pending(locM[d]))
               c == ToWireCard(Pending(locC[d])) IN
           /\ m \in SrvMember \cup {None} /\ (m # None => m.at = locM[d].at)
           /\ m = None <=> Pending(locM[d]) = None
           /\ c \in WireCard \cup {None}
           /\ c = None <=> Pending(locC[d]) = None
           /\ c # None => locC[d] # None /\ c.counter = locC[d].counter /\ c.created = locC[d].created
<1>1. locM[d] \in LocMember /\ locC[d] \in LocCard \cup {None} /\ locM[d] # None
  BY RowFacts, NoneAssumption
<1>2. \A k \in SrvMember \cup WireCard : k # None
  BY NoneAssumption
<1>3. CASE Pending(locM[d]) = None /\ Pending(locC[d]) = None
  BY <1>3 DEF ToWireMember, ToWireCard
<1>4. Pending(locM[d]) # None =>
         /\ ToWireMember(Pending(locM[d])) \in SrvMember
         /\ ToWireMember(Pending(locM[d])).at = locM[d].at
  BY <1>1 DEF Pending, ToWireMember, LocMember, SrvMember
<1>5. Pending(locC[d]) # None =>
         /\ ToWireCard(Pending(locC[d])) \in WireCard /\ locC[d] # None
         /\ ToWireCard(Pending(locC[d])).counter = locC[d].counter
         /\ ToWireCard(Pending(locC[d])).created = locC[d].created
  BY <1>1 DEF Pending, ToWireCard, LocCard, WireCard
<1>6. /\ Pending(locM[d]) = None => ToWireMember(Pending(locM[d])) = None
      /\ Pending(locC[d]) = None => ToWireCard(Pending(locC[d])) = None
  BY DEF ToWireMember, ToWireCard
<1>7. QED BY <1>2, <1>4, <1>5, <1>6

LEMMA StartsPush ==
    ASSUME EntityInv, NEW d \in Devices, StartPush(d)
    PROVE  EntityInv'
<1>1. PICK m : m = ToWireMember(Pending(locM[d]))
  OBVIOUS
<1>2. PICK c : c = ToWireCard(Pending(locC[d]))
  OBVIOUS
<1>3. /\ m \in SrvMember \cup {None} /\ (m # None => m.at = locM[d].at)
      /\ m = None <=> Pending(locM[d]) = None
      /\ c \in WireCard \cup {None}
      /\ c = None <=> Pending(locC[d]) = None
      /\ c # None => locC[d] # None /\ c.counter = locC[d].counter /\ c.created = locC[d].created
  BY <1>1, <1>2, WireFacts
<1>4. PICK j : j = [Idle EXCEPT !.at = First(Pending(locM[d])), !.tries = 1, !.m = m, !.c = c]
  OBVIOUS
<1>5. /\ job' = [job EXCEPT ![d] = j] /\ (m # None \/ c # None)
      /\ UNCHANGED <<site, now, edits, chip, server, local, cursor, history>>
  BY <1>1, <1>2, <1>3, <1>4 DEF StartPush
<1>6. /\ j \in Jobs /\ j.m = m /\ j.c = c /\ j.at = First(m) /\ j.tries = 1 /\ j.refused = {}
  BY <1>3, <1>4, JobFacts DEF Idle, Jobs, Places, First
<1>7. JobOK(j)
  <2>1. 1 <= site.maxTries
    BY Facts DEF Site
  <2>2. QED BY <1>3, <1>5, <1>6, <2>1 DEF JobOK, First
<1>8. JobAlone(d, j)
  BY <1>6 DEF JobAlone, Busy, First
<1>9. ~site.editsInPush /\ ~site.overlap => JobKept(d, j)
  BY <1>3, <1>6, JobFacts DEF JobKept, Kept, First
<1>10. ~site.editsInPush /\ ~site.overlap /\ ~Ahead /\ m # None => m.at <= now
  BY <1>3, JobFacts DEF Dated
<1>11. Counted(c)
  BY <1>3, Facts DEF CountInv, Counted
<1>12. ~site.overlap /\ ~Ahead /\ site.known => Fresh(c)
  BY <1>3, Facts DEF CardInv, Fresh
<1>13. JobStep(d, j)
  BY <1>3, <1>5, <1>6, <1>7, <1>8, <1>9, <1>10, <1>11, <1>12 DEF JobStep, First
<1>14. QED BY <1>13, JobKeeps

(* A request that is being handled moves on, with what it carries.         *)
LEMMA GoesOn ==
    ASSUME EntityInv, NEW d \in Devices, NEW j \in Jobs, JobOK(j), OnItsWay(d), j.at \notin {"idle", "pulled"},
           j.m = job[d].m, j.c = job[d].c, job' = [job EXCEPT ![d] = j],
           UNCHANGED <<site, now, edits, chip, server, local, cursor, history>>,
           ~site.overlap => /\ Busy(j) => \A e \in Devices \ {d} : ~Handling(e)
                            /\ j.at = "memberRead" => j.seen = srvM
                            /\ j.at = "cardRead" => j.seen = srvC,
           j.at \in {"card", "cardRead", "answer"} /\ j.m # None /\ "m" \notin j.refused
              => job[d].at \in {"card", "cardRead", "answer"} /\ "m" \notin job[d].refused
    PROVE  EntityInv'
<1>1. ~site.overlap => JobAlone(d, j)
  BY DEF JobAlone
<1>2. ~site.editsInPush /\ ~site.overlap => JobKept(d, j)
  BY JobFacts DEF JobKept, Kept
<1>3. ~site.editsInPush /\ ~site.overlap /\ ~Ahead /\ j.m # None => j.m.at <= now
  BY JobFacts DEF Dated
<1>4. JobStep(d, j)
  BY <1>1, <1>2, <1>3, JobFacts DEF JobStep
<1>5. QED BY <1>4, JobKeeps

LEMMA HandlingSteps ==
    ASSUME EntityInv, NEW d \in Devices, ReadMember(d) \/ ReadCard(d) \/ Refuse(d) \/ PushLost(d)
    PROVE  EntityInv'
<1>0. /\ job[d] \in Jobs /\ JobOK(job[d]) /\ job \in [Devices -> Jobs]
      /\ srvM \in SrvMember /\ srvC \in SrvCard \cup {None}
      /\ ~site.overlap => \A e \in Devices : Handling(d) /\ Handling(e) => e = d
  BY JobFacts, Facts DEF TypeInv, Alone
<1>u. UNCHANGED <<site, now, edits, chip, server, local, cursor, history>>
  BY DEF ReadMember, ReadCard, Refuse, PushLost, OnServer
<1>1. CASE ReadMember(d)
  <2>1. PICK j : j = [job[d] EXCEPT !.at = "memberRead", !.seen = srvM]
    OBVIOUS
  <2>2. job' = [job EXCEPT ![d] = j] /\ job[d].at = "member"
    BY <1>0, <1>1, <2>1 DEF ReadMember, Goto
  <2>3. /\ j \in Jobs /\ j.at = "memberRead" /\ j.seen = srvM /\ j.m = job[d].m /\ j.c = job[d].c
        /\ j.tries = job[d].tries
    BY <1>0, <2>1 DEF Jobs, Places
  <2>4. JobOK(j)
    BY <1>0, <2>2, <2>3 DEF JobOK
  <2>5. ~site.overlap => \A e \in Devices \ {d} : ~Handling(e)
    BY <1>1 DEF ReadMember
  <2>6. OnItsWay(d)
    BY <2>2 DEF OnItsWay
  <2>7. QED BY <1>u, <2>2, <2>3, <2>4, <2>5, <2>6, GoesOn
<1>2. CASE ReadCard(d)
  <2>1. PICK j : j = [job[d] EXCEPT !.at = "cardRead", !.seen = srvC]
    OBVIOUS
  <2>2. job' = [job EXCEPT ![d] = j] /\ job[d].at = "card"
    BY <1>0, <1>2, <2>1 DEF ReadCard, Goto
  <2>3. /\ j \in Jobs /\ j.at = "cardRead" /\ j.seen = srvC /\ j.m = job[d].m /\ j.c = job[d].c
        /\ j.tries = job[d].tries /\ j.refused = job[d].refused
    BY <1>0, <2>1 DEF Jobs, Places
  <2>4. JobOK(j)
    BY <1>0, <2>2, <2>3 DEF JobOK
  <2>5. ~site.overlap => \A e \in Devices \ {d} : ~Handling(e)
    BY <1>2 DEF ReadCard
  <2>6. OnItsWay(d)
    BY <2>2 DEF OnItsWay
  <2>7. QED BY <1>u, <2>2, <2>3, <2>4, <2>5, <2>6, GoesOn
<1>3. CASE Refuse(d)
  <2>1. PICK j : j = [job[d] EXCEPT !.at = IF job[d].at = "memberRead" THEN Then(job[d].c) ELSE "answer",
                                    !.seen = None,
                                    !.refused = @ \cup {IF job[d].at = "memberRead" THEN "m" ELSE "c"}]
    OBVIOUS
  <2>2. job' = [job EXCEPT ![d] = j] /\ job[d].at \in {"memberRead", "cardRead"}
    BY <1>0, <1>3, <2>1 DEF Refuse
  <2>3. /\ j \in Jobs /\ j.at = (IF job[d].at = "memberRead" THEN Then(job[d].c) ELSE "answer")
        /\ j.refused = job[d].refused \cup {IF job[d].at = "memberRead" THEN "m" ELSE "c"}
        /\ j.m = job[d].m /\ j.c = job[d].c /\ j.tries = job[d].tries
    BY ZenonT(30), <1>0, <2>1 DEF Jobs, Places, Then
  <2>4. JobOK(j)
    BY <1>0, <2>2, <2>3 DEF JobOK, Then
  <2>5. Handling(d) /\ OnItsWay(d)
    BY <2>2 DEF Handling, OnItsWay
  <2>6. ~site.overlap => \A e \in Devices \ {d} : ~Handling(e)
    BY <1>0, <2>5
  <2>7. j.at \in {"card", "answer"}
    BY <2>2, <2>3 DEF Then
  <2>8. "m" \notin j.refused => job[d].at = "cardRead" /\ "m" \notin job[d].refused
    BY <2>2, <2>3
  <2>9. QED BY <1>u, <2>2, <2>3, <2>4, <2>5, <2>6, <2>7, <2>8, GoesOn
<1>4. CASE PushLost(d) /\ job[d].tries < site.maxTries
  <2>1. PICK j : j = [job[d] EXCEPT !.at = First(job[d].m), !.refused = {}, !.tries = @ + 1]
    OBVIOUS
  <2>2. job' = [job EXCEPT ![d] = j] /\ job[d].at \in {First(job[d].m), "answer"}
    BY <1>0, <1>4, <2>1 DEF PushLost
  <2>3. /\ j \in Jobs /\ j.at = First(job[d].m) /\ j.tries = job[d].tries + 1
        /\ j.m = job[d].m /\ j.c = job[d].c
    <3>1. PICK k \in Jobs : k = job[d]
      BY <1>0
    <3>2. k.tries + 1 \in Nat /\ First(k.m) \in Places
      BY <3>1 DEF Jobs, First, Places
    <3>3. j = [k EXCEPT !.at = First(k.m), !.refused = {}, !.tries = k.tries + 1]
      BY <2>1, <3>1 DEF Jobs
    <3>4. QED BY <3>1, <3>2, <3>3 DEF Jobs
  <2>4. JobOK(j)
    <3>1. job[d].tries \in Nat /\ site.maxTries \in Nat
      BY <1>0, Facts DEF Jobs, Site
    <3>2. j.tries <= site.maxTries
      BY <1>4, <2>3, <3>1
    <3>3. job[d].at \notin {"idle", "pulled"} /\ (job[d].m # None \/ job[d].c # None)
      BY <1>0, <2>2 DEF JobOK, First
    <3>4. QED BY <1>0, <2>3, <3>2, <3>3 DEF JobOK, First
  <2>5. OnItsWay(d) /\ ~Busy(j) /\ (j.at \in {"card", "cardRead", "answer"} => j.m = None)
        /\ j.at \in {"member", "card"}
    BY <2>2, <2>3 DEF OnItsWay, Busy, First
  <2>6. QED BY <1>u, <2>2, <2>3, <2>4, <2>5, GoesOn
<1>5. CASE PushLost(d) /\ ~(job[d].tries < site.maxTries)
  <2>1. PICK j : j = Idle
    OBVIOUS
  <2>2. job' = [job EXCEPT ![d] = j] /\ j \in Jobs /\ JobOK(j) /\ j.at = "idle" /\ j.m = None /\ j.c = None
    BY <1>5, <2>1, JobFacts DEF PushLost
  <2>3. JobStep(d, j)
    BY <1>u, <2>2 DEF JobStep, JobAlone, JobKept, Busy, Counted, Fresh
  <2>4. QED BY <2>3, JobKeeps
<1>6. QED BY <1>1, <1>2, <1>3, <1>4, <1>5

(* A pull has been answered.                                               *)
LEMMA Fetches ==
    ASSUME EntityInv, NEW d \in Devices, Fetch(d)
    PROVE  EntityInv'
<1>0. srvM \in SrvMember /\ srvC \in SrvCard \cup {None} /\ srvM # None /\ job[d].at = "idle"
  BY Facts, NoneAssumption DEF TypeInv, Fetch
<1>u. UNCHANGED <<site, now, edits, chip, server, local, cursor, history>>
  BY DEF Fetch
<1>1. PICK m : m = After(srvM, cursor[d].m)
  OBVIOUS
<1>2. PICK c : c = After(srvC, cursor[d].c)
  OBVIOUS
<1>3. m \in {None, srvM} /\ c \in {None, srvC}
  BY <1>1, <1>2 DEF After
<1>4. CASE job' = job
  <2>1. PICK j : j = job[d]
    OBVIOUS
  <2>2. job' = [job EXCEPT ![d] = j] /\ j \in Jobs /\ JobOK(j) /\ j.at = "idle"
    BY <1>0, <1>4, <2>1, JobFacts
  <2>3. JobAlone(d, j) /\ JobKept(d, j)
    BY <2>2 DEF JobAlone, JobKept, Busy
  <2>4. JobStep(d, j)
    BY <1>u, <2>1, <2>2, <2>3, JobFacts DEF JobStep, Dated
  <2>5. QED BY <2>4, JobKeeps
<1>5. CASE job' # job
  <2>1. PICK j : j = [Idle EXCEPT !.at = "pulled", !.m = m, !.c = c]
    OBVIOUS
  <2>2. job' = [job EXCEPT ![d] = j]
    BY <1>1, <1>2, <1>5, <2>1 DEF Fetch
  <2>3. j \in Jobs /\ j.at = "pulled" /\ j.m = m /\ j.c = c /\ j.tries = 0
    BY <1>0, <1>3, <2>1, JobFacts DEF Idle, Jobs, Places
  <2>4. JobOK(j)
    BY <1>0, <1>3, <2>3, Facts DEF JobOK, Site
  <2>5. JobAlone(d, j)
    <3>1. srvM.at \in Nat
      BY <1>0 DEF SrvMember
    <3>2. QED BY <1>3, <2>3, <3>1 DEF JobAlone, Busy
  <2>6. ~site.editsInPush /\ ~site.overlap => JobKept(d, j)
    BY <1>3, <2>3, JobFacts DEF JobKept, Kept
  <2>7. ~site.editsInPush /\ ~site.overlap /\ ~Ahead /\ m # None => m.at <= now
    BY <1>3, Facts DEF StatusInv
  <2>8. Counted(c)
    BY <1>3, Facts DEF CountInv, Counted
  <2>9. ~site.overlap /\ ~Ahead /\ site.known => Fresh(c) /\ (c # None => c.created = 0)
    <3>1. SUFFICES ASSUME ~site.overlap, ~Ahead, site.known, c # None
                   PROVE  Fresh(c) /\ c.created = 0
      BY DEF Fresh
    <3>2. c = srvC /\ srvC.created = 0 /\ srvC.at \in Nat /\ srvC.counter \in Nat /\ now \in Nat
      BY <1>0, <1>3, <3>1, Facts DEF CardInv, SrvCard, Counters
    <3>3. QED BY <3>2 DEF Fresh
  <2>10. JobStep(d, j)
    BY <1>u, <2>2, <2>3, <2>4, <2>5, <2>6, <2>7, <2>8, <2>9 DEF JobStep
  <2>11. QED BY <2>10, JobKeeps
<1>6. QED BY <1>4, <1>5

-----------------------------------------------------------------------------
(* The server's member: what is stored is later than what was there.       *)
LEMMA StoresMember ==
    ASSUME EntityInv, NEW d \in Devices, StoreMember(d)
    PROVE  EntityInv'
<1>0. /\ TypeInv /\ JobsOK /\ Alone /\ Pulled /\ Stamps /\ MemberInv /\ StatusInv /\ CountInv /\ CardInv
      /\ job \in [Devices -> Jobs] /\ job[d] \in Jobs /\ JobOK(job[d]) /\ now \in Nat
      /\ srvM \in SrvMember /\ srvM # None /\ job[d].at = "memberRead"
  BY Facts, JobFacts, NoneAssumption DEF TypeInv, StoreMember
<1>u. UNCHANGED <<site, now, edits, chip, srvC, locM, locC, outbox, cursor, stampOf, skipped>>
  BY DEF StoreMember, OnServer, local, history
<1>1. PICK j : j = [job[d] EXCEPT !.at = Then(job[d].c), !.seen = None]
  OBVIOUS
<1>2. /\ job' = [job EXCEPT ![d] = j]
      /\ srvM' = IF MemberIsNewer(job[d].m, job[d].seen) THEN job[d].m ELSE srvM
  BY <1>0, <1>1 DEF StoreMember, Goto
<1>3. /\ j \in Jobs /\ j.at = Then(job[d].c) /\ j.seen = None /\ j.m = job[d].m /\ j.c = job[d].c
      /\ j.tries = job[d].tries /\ j.refused = job[d].refused
  BY <1>0, <1>1 DEF Jobs, Places, Then
<1>4. job' \in [Devices -> Jobs] /\ job'[d] = j /\ \A e \in Devices \ {d} : job'[e] = job[e]
  BY <1>0, <1>2, <1>3
<1>5. PICK m : m = job[d].m
  OBVIOUS
<1>6. m \in SrvMember /\ m # None /\ m.at \in Nat /\ srvM.at \in Nat
  BY <1>0, <1>5 DEF JobOK, Jobs, SrvMember
<1>7. srvM' \in SrvMember
  BY <1>0, <1>2, <1>5, <1>6
<1>8. ~site.overlap => /\ srvM' = srvM \/ (srvM' = m /\ m.at > srvM.at)
                       /\ srvM'.at >= m.at /\ srvM'.at >= srvM.at
                       /\ \A e \in Devices \ {d} : ~Handling(e)
  <2>1. SUFFICES ASSUME ~site.overlap
                 PROVE  /\ srvM' = srvM \/ (srvM' = m /\ m.at > srvM.at)
                        /\ srvM'.at >= m.at /\ srvM'.at >= srvM.at
                        /\ \A e \in Devices \ {d} : ~Handling(e)
    OBVIOUS
  <2>2. job[d].seen = srvM /\ Handling(d)
    BY <1>0, <2>1 DEF Alone, Handling
  <2>3. \A e \in Devices \ {d} : ~Handling(e)
    BY <1>0, <2>1, <2>2 DEF Alone
  <2>4. MemberIsNewer(m, srvM) <=> m.at > srvM.at
    BY <1>0 DEF MemberIsNewer
  <2>5. srvM' = IF m.at > srvM.at THEN m ELSE srvM
    BY <1>2, <1>5, <2>2, <2>4
  <2>6. QED BY <1>6, <2>3, <2>5
<1>9. TypeInv'
  BY <1>0, <1>4, <1>7, <1>u DEF TypeInv
<1>10. JobsOK'
  BY <1>0, <1>3, <1>4, <1>u DEF JobsOK, JobOK, Then, OnItsWay
<1>11. Alone' /\ Pulled'
  <2>1. SUFFICES ASSUME ~site.overlap
                 PROVE  Alone' /\ Pulled'
    BY <1>u DEF Alone, Pulled
  <2>2. \A e \in Devices : Handling(e)' => e = d
    BY <1>4, <1>8, <2>1 DEF Handling
  <2>3. j.at \in {"card", "answer"}
    BY <1>3 DEF Then
  <2>4. \A e \in Devices \ {d} : job'[e].at \notin {"memberRead", "cardRead"}
    BY <1>4, <1>8, <2>1 DEF Handling
  <2>5. Alone'
    BY <1>4, <1>u, <2>2, <2>3, <2>4 DEF Alone
  <2>6. ASSUME NEW e \in Devices
        PROVE  /\ cursor'[e].m <= srvM'.at
               /\ job'[e].at = "pulled" /\ job'[e].m # None =>
                     job'[e].m.at <= srvM'.at /\ (job'[e].m.at = srvM'.at => job'[e].m = srvM')
    <3>1. cursor[e].m <= srvM.at /\ cursor[e].m \in Nat /\ srvM'.at \in Nat
      BY <1>0, <1>7, <2>1 DEF Pulled, TypeInv, SrvMember
    <3>2. cursor'[e].m <= srvM'.at
      BY <1>6, <1>8, <1>u, <2>1, <3>1
    <3>3. CASE job'[e].at = "pulled" /\ job'[e].m # None
      <4>1. e # d /\ job'[e] = job[e]
        BY <1>4, <2>3, <3>3
      <4>2. job[e].m \in SrvMember /\ job[e].m.at \in Nat
        BY <1>0, <3>3, <4>1 DEF Jobs, SrvMember
      <4>3. job[e].m.at <= srvM.at /\ (job[e].m.at = srvM.at => job[e].m = srvM)
        BY <1>0, <2>1, <3>3, <4>1 DEF Pulled
      <4>4. QED BY <1>6, <1>8, <2>1, <3>2, <4>1, <4>2, <4>3
    <3>4. QED BY <3>2, <3>3
  <2>7. QED BY <2>5, <2>6 DEF Pulled
<1>12. Stamps'
  BY <1>0, <1>u DEF Stamps, Clock
<1>13. MemberInv'
  <2>1. SUFFICES ASSUME ~site.editsInPush, ~site.overlap, NEW e \in Devices
                 PROVE  Kept(e)'
    BY <1>u DEF MemberInv
  <2>2. Kept(e) /\ stampOf[e] \in Nat /\ srvM'.at \in Nat
    BY <1>0, <1>7, <2>1 DEF MemberInv, TypeInv, SrvMember
  <2>3. CASE e # d
    BY <1>4, <1>6, <1>8, <1>u, <2>1, <2>2, <2>3 DEF Kept, OnItsWay
  <2>4. CASE e = d
    <3>1. m.at >= stampOf[d] /\ OnItsWay(d)
      BY <1>0, <1>5, <1>6, <2>2, <2>4 DEF Kept, OnItsWay
    <3>2. srvM'.at >= stampOf[d] /\ j.at \in {"card", "answer"}
      BY <1>3, <1>6, <1>8, <2>1, <2>2, <2>4, <3>1 DEF Then
    <3>3. QED BY <1>3, <1>4, <1>5, <1>u, <2>2, <2>4, <3>1, <3>2 DEF Kept, OnItsWay
  <2>5. QED BY <2>3, <2>4
<1>14. StatusInv'
  <2>1. SUFFICES ASSUME ~site.editsInPush, ~site.overlap, ~Ahead
                 PROVE  srvM'.at <= now /\ \A e \in Devices : Dated(e)'
    BY <1>u DEF StatusInv, Ahead
  <2>2. srvM.at <= now /\ Dated(d)
    BY <1>0, <2>1 DEF StatusInv
  <2>3. srvM'.at <= now
    BY <1>5, <1>6, <1>8, <2>1, <2>2 DEF Dated
  <2>4. ASSUME NEW e \in Devices
        PROVE  Dated(e)'
    <3>1. Dated(e) /\ cursor[e].m <= srvM.at /\ cursor[e].m \in Nat
      BY <1>0, <2>1 DEF StatusInv, Pulled, TypeInv
    <3>2. job'[e].m = job[e].m
      BY <1>3, <1>4
    <3>3. CASE srvM' = srvM
      BY <1>u, <3>1, <3>2, <3>3 DEF Dated
    <3>4. CASE srvM' = m /\ m.at > srvM.at
      <4>1. cursor[e].m # srvM'.at
        BY <1>6, <3>1, <3>4
      <4>2. QED BY <1>u, <3>1, <3>2, <4>1 DEF Dated
    <3>5. QED BY <1>8, <2>1, <3>3, <3>4
  <2>5. QED BY <2>3, <2>4
<1>15. CountInv' /\ CardInv'
  <2>1. \A e \in Devices : job'[e].c = job[e].c /\ (job'[e].at = "pulled" => job[e].at = "pulled")
    BY <1>3, <1>4 DEF Then
  <2>2. CountInv'
    BY <1>0, <1>u, <2>1 DEF CountInv, Counted
  <2>3. CardInv'
    BY <1>0, <1>u, <2>1 DEF CardInv, Fresh, Ahead
  <2>4. QED BY <2>2, <2>3
<1>16. QED BY <1>9, <1>10, <1>11, <1>12, <1>13, <1>14, <1>15 DEF EntityInv

-----------------------------------------------------------------------------
(* The greatest of some counters is one of them.                           *)
LEMMA Greatest ==
    ASSUME NEW S \in SUBSET Counters, S # {}
    PROVE  Max(S) \in S /\ \A x \in S : x <= Max(S)
<1> DEFINE Above == {n \in Nat : \A x \in S : x <= n}
<1> DEFINE R == OpToRel(<, Nat)
<1>0. MaxCounter \in Nat /\ S \subseteq Nat /\ Above \subseteq Nat
  BY EntityAssumption DEF Counters
<1>1. IsWellFoundedOn(R, Nat)
  BY NatLessThanWellFounded
<1>2. \A x, y \in Nat : x < y => <<x, y>> \in R
  BY DEF OpToRel
<1> HIDE DEF R
<1>3. MaxCounter \in Above
  BY <1>0 DEF Counters
<1>4. PICK n \in Above : \A y \in Above : ~ (<<y, n>> \in R)
  BY <1>0, <1>1, <1>3, WFMin
<1>5. n \in Nat /\ \A x \in S : x <= n
  OBVIOUS
<1>6. n \in S
  <2>1. SUFFICES ASSUME n \notin S
                 PROVE  FALSE
    OBVIOUS
  <2>2. \A x \in S : x \in Nat /\ x <= n /\ x # n
    BY <1>0, <1>5, <2>1
  <2>3. PICK x \in S : TRUE
    OBVIOUS
  <2>4. x \in Nat /\ x <= n /\ x # n
    BY <2>2, <2>3
  <2>5. n - 1 \in Nat /\ n - 1 < n
    BY <1>5, <2>4
  <2>6. \A y \in S : y <= n - 1
    BY <1>5, <2>2
  <2>7. QED BY <1>2, <1>4, <1>5, <2>5, <2>6
<1> HIDE DEF Above
<1>7. \E x \in S : \A y \in S : x >= y
  BY <1>0, <1>5, <1>6
<1>8. Max(S) \in S /\ \A y \in S : Max(S) >= y
  BY <1>7 DEF Max
<1>9. QED BY <1>0, <1>8

LEMMA GreaterOf ==
    ASSUME NEW a \in Counters, NEW b \in Counters
    PROVE  Max({a, b}) \in Counters /\ Max({a, b}) \in {a, b} /\ a <= Max({a, b}) /\ b <= Max({a, b})
<1>1. {a, b} \in SUBSET Counters /\ {a, b} # {}
  OBVIOUS
<1>2. Max({a, b}) \in {a, b} /\ \A x \in {a, b} : x <= Max({a, b})
  BY <1>1, Greatest
<1>3. QED BY <1>2

(* The server's card becomes y, the rest but d's job and the outboxes      *)
(* stays.                                                                  *)
CardOnServer(d, y, j) ==
    /\ UNCHANGED <<site, now, edits, chip, srvM, locM, locC, cursor, stampOf, skipped>>
    /\ srvC' = y /\ y \in SrvCard \cup {None} /\ (srvC # None => y # None) /\ Counted(y)
    /\ outbox' \in [Devices -> SUBSET Counters] /\ \A e \in Devices : outbox'[e] \subseteq outbox[e]
    /\ job' = [job EXCEPT ![d] = j] /\ j \in Jobs /\ JobOK(j) /\ j.m = job[d].m /\ j.c = job[d].c
    /\ j.refused = job[d].refused
    /\ j.at = "idle" \/ (j.at = "answer" /\ job[d].at = "cardRead")
    /\ ~site.overlap => \A e \in Devices \ {d} : ~Handling(e)
    /\ ~site.overlap /\ ~Ahead /\ site.known =>
          /\ y # None /\ y.bal = y.counter /\ y.created = 0
          /\ y = srvC \/ y.at = now

LEMMA CardOnServerKeeps ==
    ASSUME EntityInv, NEW d \in Devices, NEW y, NEW j, CardOnServer(d, y, j)
    PROVE  EntityInv'
<1>0. /\ TypeInv /\ JobsOK /\ Alone /\ Pulled /\ Stamps /\ MemberInv /\ StatusInv /\ CountInv /\ CardInv
      /\ job \in [Devices -> Jobs] /\ now \in Nat
  BY Facts, JobFacts
<1>u. UNCHANGED <<site, now, edits, chip, srvM, locM, locC, cursor, stampOf, skipped>>
  BY DEF CardOnServer
<1>1. /\ job' \in [Devices -> Jobs] /\ job'[d] = j /\ \A e \in Devices \ {d} : job'[e] = job[e]
      /\ j.m = job[d].m /\ j.c = job[d].c /\ j.refused = job[d].refused
      /\ (j.at = "idle" \/ (j.at = "answer" /\ job[d].at = "cardRead"))
  BY <1>0 DEF CardOnServer
<1>2. TypeInv'
  BY <1>0, <1>1, <1>u DEF TypeInv, CardOnServer
<1>3. JobsOK'
  BY <1>0, <1>1, <1>u DEF JobsOK, JobOK, CardOnServer, OnItsWay
<1>4. Alone' /\ Pulled'
  <2>1. SUFFICES ASSUME ~site.overlap
                 PROVE  Alone' /\ Pulled'
    BY <1>u DEF Alone, Pulled
  <2>2. \A e \in Devices \ {d} : ~Handling(e)
    BY <2>1 DEF CardOnServer
  <2>3. \A e \in Devices : ~Handling(e)' /\ job'[e].at \notin {"memberRead", "cardRead"}
    BY <1>1, <2>2 DEF Handling
  <2>4. Alone'
    BY <2>3 DEF Alone
  <2>5. Pulled'
    BY <1>0, <1>1, <1>u, <2>1 DEF Pulled
  <2>6. QED BY <2>4, <2>5
<1>5. Stamps'
  BY <1>0, <1>u DEF Stamps, Clock
<1>6. MemberInv'
  <2>1. SUFFICES ASSUME ~site.editsInPush, ~site.overlap, NEW e \in Devices
                 PROVE  Kept(e)'
    BY <1>u DEF MemberInv
  <2>2. Kept(e)
    BY <1>0, <2>1 DEF MemberInv
  <2>3. QED BY <1>1, <1>u, <2>2 DEF Kept, OnItsWay
<1>7. StatusInv'
  <2>1. \A e \in Devices : job'[e].m = job[e].m
    BY <1>1
  <2>2. QED BY <1>0, <1>u, <2>1 DEF StatusInv, Dated, Ahead
<1>8. CountInv'
  <2>1. \A e \in Devices : job'[e].c = job[e].c
    BY <1>1
  <2>2. QED BY <1>0, <1>u, <2>1 DEF CountInv, Counted, CardOnServer
<1>9. CardInv'
  <2>1. SUFFICES ASSUME ~site.overlap, ~Ahead, site.known
                 PROVE  CardInv'
    BY <1>u DEF CardInv, Ahead
  <2>2. /\ y # None /\ y.bal = y.counter /\ y.created = 0 /\ (y = srvC \/ y.at = now) /\ srvC' = y
        /\ srvC.at <= now
    BY <1>0, <2>1 DEF CardOnServer, CardInv
  <2>3. ASSUME NEW k, Fresh(k), k # None => k.created \in Nat
        PROVE  Fresh(k)'
    BY <1>0, <1>u, <2>2, <2>3 DEF Fresh
  <2>4. \A e \in Devices : /\ locC[e] # None => locC[e].created \in Nat
                           /\ job[e].c # None => job[e].c.created \in Nat
    BY <1>0 DEF TypeInv, LocCard, SrvCard, WireCard, Jobs
  <2>5. ASSUME NEW e \in Devices
        PROVE  /\ locC'[e] # None /\ Fresh(locC[e])' /\ Fresh(job[e].c)'
               /\ job'[e].at = "pulled" /\ job'[e].c # None => job'[e].c.created = 0
    <3>1. locC[e] # None /\ Fresh(locC[e]) /\ Fresh(job[e].c)
      BY <1>0, <2>1 DEF CardInv
    <3>2. job'[e].at = "pulled" => job[e].at = "pulled"
      BY <1>1
    <3>3. PICK a, b : a = locC[e] /\ b = job[e].c
      OBVIOUS
    <3>4. locC'[e] = a /\ job'[e].c = b /\ Fresh(a)' /\ Fresh(b)'
      BY <1>1, <1>u, <2>3, <2>4, <3>1, <3>3
    <3>5. Fresh(locC[e])' /\ Fresh(job[e].c)'
      BY <3>4 DEF Fresh
    <3>6. QED BY <1>0, <1>1, <1>u, <2>1, <3>1, <3>2, <3>5 DEF CardInv
  <2>6. y.at <= now
    BY <1>0, <2>2
  <2>7. QED BY <1>u, <2>2, <2>5, <2>6 DEF CardInv
<1>10. QED BY <1>2, <1>3, <1>4, <1>5, <1>6, <1>7, <1>8, <1>9 DEF EntityInv

LEMMA StoresCard ==
    ASSUME EntityInv, NEW d \in Devices, StoreCard(d)
    PROVE  EntityInv'
<1>0. /\ job \in [Devices -> Jobs] /\ job[d] \in Jobs /\ JobOK(job[d]) /\ now \in Nat
      /\ srvC \in SrvCard \cup {None} /\ job[d].at = "cardRead" /\ Counted(srvC) /\ Counted(job[d].c)
      /\ chip.counter \in Counters /\ MaxCounter \in Nat
  BY Facts, JobFacts, RowFacts DEF TypeInv, CountInv, StoreCard
<1>u. UNCHANGED <<site, now, edits, chip, srvM, locM, locC, outbox, cursor, stampOf, skipped>>
  BY DEF StoreCard, OnServer, local, history
<1>1. PICK j : j = [job[d] EXCEPT !.at = "answer", !.seen = None]
  OBVIOUS
<1>2. job' = [job EXCEPT ![d] = j]
  BY <1>0, <1>1 DEF StoreCard, Goto
<1>3. /\ j \in Jobs /\ j.at = "answer" /\ j.m = job[d].m /\ j.c = job[d].c
      /\ j.tries = job[d].tries /\ j.refused = job[d].refused
  BY <1>0, <1>1 DEF Jobs, Places
<1>4. JobOK(j)
  BY <1>0, <1>3 DEF JobOK
<1>5. PICK c : c = job[d].c
  OBVIOUS
<1>6. PICK seen : seen = job[d].seen
  OBVIOUS
<1>7. /\ c \in WireCard /\ c # None /\ c.counter \in Counters /\ c.created \in Nat /\ c.status \in CardStatus
      /\ c.counter <= chip.counter
      /\ seen \in SrvCard \cup {None} /\ (seen # None => srvC # None)
  BY <1>0, <1>5, <1>6 DEF JobOK, WireCard, Counted
<1>8. /\ \A k \in SrvCard : k # None
      /\ srvC # None => /\ srvC.counter \in Counters /\ srvC.counter <= chip.counter
                        /\ srvC.at \in Nat /\ srvC \in SrvCard
  BY <1>0, NoneAssumption DEF SrvCard, Counted
<1>9. PICK new : new = [status |-> c.status, counter |-> c.counter, bal |-> c.counter,
                        created |-> c.created, at |-> now]
  OBVIOUS
<1>10. new \in SrvCard /\ new.counter = c.counter
  BY <1>0, <1>7, <1>9 DEF SrvCard
<1>11. PICK upd : upd = UpdatedCard(c)
  OBVIOUS
<1>12. srvC # None =>
          /\ upd \in SrvCard /\ upd.at = now /\ upd.bal = c.counter /\ upd.created = srvC.created
          /\ upd.counter \in {srvC.counter, c.counter}
          /\ srvC.counter <= upd.counter /\ c.counter <= upd.counter
  <2>1. SUFFICES ASSUME srvC # None
                 PROVE  /\ upd \in SrvCard /\ upd.at = now /\ upd.bal = c.counter /\ upd.created = srvC.created
                        /\ upd.counter \in {srvC.counter, c.counter}
                        /\ srvC.counter <= upd.counter /\ c.counter <= upd.counter
    OBVIOUS
  <2>2. PICK top : top = Max({srvC.counter, c.counter})
    OBVIOUS
  <2>3. /\ top \in Counters /\ top \in {srvC.counter, c.counter}
        /\ srvC.counter <= top /\ c.counter <= top
    BY <1>7, <1>8, <2>1, <2>2, GreaterOf
  <2>4. upd = [srvC EXCEPT !.status = c.status, !.bal = c.counter, !.at = now, !.counter = top]
    BY <1>8, <1>11, <2>1, <2>2 DEF UpdatedCard, SrvCard
  <2>5. QED BY <1>0, <1>7, <1>8, <2>1, <2>3, <2>4 DEF SrvCard
<1>13. srvC' = IF seen = None THEN IF srvC # None THEN srvC ELSE new
               ELSE IF CardIsNewer(c, seen) THEN upd ELSE srvC
  BY <1>5, <1>6, <1>9, <1>11 DEF StoreCard
<1>14. PICK y : y = srvC'
  OBVIOUS
<1>15. y = srvC \/ (srvC = None /\ y = new) \/ (srvC # None /\ seen # None /\ CardIsNewer(c, seen) /\ y = upd)
  BY <1>7, <1>13, <1>14
<1>16. y \in SrvCard \cup {None} /\ (srvC # None => y # None) /\ Counted(y)
  <2>1. CASE y = srvC
    BY <1>0, <2>1
  <2>2. CASE srvC = None /\ y = new
    BY <1>7, <1>10, <2>2 DEF Counted
  <2>3. CASE srvC # None /\ y = upd
    <3>1. upd.counter <= chip.counter
      BY <1>7, <1>8, <1>12, <2>3
    <3>2. QED BY <1>8, <1>12, <2>3, <3>1 DEF Counted
  <2>4. QED BY <1>15, <2>1, <2>2, <2>3
<1>17. ~site.overlap => \A e \in Devices \ {d} : ~Handling(e)
  <2>1. Handling(d)
    BY <1>0 DEF Handling
  <2>2. QED BY <2>1, Facts DEF Alone
<1>18. ~site.overlap /\ ~Ahead /\ site.known =>
          /\ y # None /\ y.bal = y.counter /\ y.created = 0
          /\ y = srvC \/ y.at = now
  <2>1. SUFFICES ASSUME ~site.overlap, ~Ahead, site.known
                 PROVE  /\ y # None /\ y.bal = y.counter /\ y.created = 0
                        /\ y = srvC \/ y.at = now
    OBVIOUS
  <2>2. srvC # None /\ srvC.bal = srvC.counter /\ srvC.created = 0 /\ Fresh(c) /\ seen = srvC
    BY <1>0, <1>5, <1>6, <2>1, Facts DEF CardInv, Alone
  <2>3. CASE y = srvC
    BY <2>2, <2>3
  <2>4. CASE CardIsNewer(c, seen) /\ y = upd
    <3>1. c.counter \in Nat /\ srvC.counter \in Nat
      BY <1>7, <1>8, <2>2 DEF Counters
    <3>2. c.counter >= srvC.counter
      BY <1>7, <2>2, <2>4, <3>1 DEF CardIsNewer, Fresh
    <3>3. upd.counter = c.counter
      BY <1>12, <2>2, <3>1, <3>2
    <3>4. QED BY <1>12, <1>16, <2>2, <2>4, <3>3
  <2>5. QED BY <1>15, <2>2, <2>3, <2>4
<1>19. outbox' \in [Devices -> SUBSET Counters] /\ \A e \in Devices : outbox'[e] \subseteq outbox[e]
  BY <1>u, RowFacts
<1>20. CardOnServer(d, y, j)
  BY <1>0, <1>u, <1>2, <1>3, <1>4, <1>14, <1>16, <1>17, <1>18, <1>19 DEF CardOnServer
<1>21. QED BY <1>20, CardOnServerKeeps

LEMMA PushesLog ==
    ASSUME EntityInv, NEW d \in Devices, PushLog(d)
    PROVE  EntityInv'
<1>0. /\ job \in [Devices -> Jobs] /\ job[d] \in Jobs /\ JobOK(job[d]) /\ now \in Nat /\ job[d].at = "idle"
      /\ srvC \in SrvCard \cup {None} /\ Counted(srvC)
      /\ outbox \in [Devices -> SUBSET Counters] /\ outbox[d] # {} /\ \A n \in outbox[d] : n <= chip.counter
      /\ chip.counter \in Counters /\ MaxCounter \in Nat
  BY Facts, JobFacts, RowFacts DEF TypeInv, CountInv, PushLog
<1>u. UNCHANGED <<site, now, edits, chip, srvM, locM, locC, job, cursor, stampOf, skipped>>
  BY DEF PushLog, history
<1>1. PICK j : j = job[d]
  OBVIOUS
<1>2. job' = [job EXCEPT ![d] = j]
  BY <1>0, <1>u, <1>1
<1>3. PICK top : top = Max(outbox[d])
  OBVIOUS
<1>4. top \in Counters /\ top <= chip.counter
  BY <1>0, <1>3, Greatest
<1>5. PICK y : y = IF srvC = None \/ top <= srvC.counter THEN srvC
                   ELSE [srvC EXCEPT !.counter = top, !.bal = top, !.at = now]
  OBVIOUS
<1>6. srvC' = y
  BY <1>3, <1>5 DEF PushLog
<1>7. \/ y = srvC
      \/ /\ srvC # None /\ y \in SrvCard /\ y.counter = top /\ y.bal = top /\ y.at = now
         /\ y.created = srvC.created
  BY <1>0, <1>4, <1>5 DEF SrvCard
<1>8. y \in SrvCard \cup {None} /\ (srvC # None => y # None) /\ Counted(y)
  BY <1>0, <1>4, <1>7, NoneAssumption DEF Counted
<1>9. ~site.overlap => \A e \in Devices \ {d} : ~Handling(e)
  BY DEF PushLog
<1>10. outbox' \in [Devices -> SUBSET Counters] /\ \A e \in Devices : outbox'[e] \subseteq outbox[e]
  BY <1>0 DEF PushLog
<1>11. ~site.overlap /\ ~Ahead /\ site.known =>
          /\ y # None /\ y.bal = y.counter /\ y.created = 0
          /\ y = srvC \/ y.at = now
  <2>1. ~site.overlap /\ ~Ahead /\ site.known => srvC # None /\ srvC.bal = srvC.counter /\ srvC.created = 0
    BY Facts DEF CardInv
  <2>2. QED BY <1>7, <1>8, <2>1
<1>12. CardOnServer(d, y, j)
  BY <1>0, <1>u, <1>1, <1>2, <1>6, <1>8, <1>9, <1>10, <1>11 DEF CardOnServer
<1>13. QED BY <1>12, CardOnServerKeeps

-----------------------------------------------------------------------------
(* d's synchronisation ends: the member's row becomes x, the card's y, the *)
(* cursors k.                                                              *)
Ends(d, x, y, k) ==
    /\ UNCHANGED <<site, now, edits, chip, srvM, srvC, outbox, stampOf>>
    /\ job' = [job EXCEPT ![d] = Idle]
    /\ locM' = [locM EXCEPT ![d] = x] /\ x \in LocMember
    /\ locC' = [locC EXCEPT ![d] = y] /\ y \in LocCard \cup {None} /\ Counted(y)
    /\ cursor' = [cursor EXCEPT ![d] = k] /\ k \in [m: Nat, c: Nat]
    /\ skipped' \in [Devices -> BOOLEAN] /\ \A e \in Devices \ {d} : skipped'[e] = skipped[e]
    /\ ~site.overlap => k.m <= srvM.at
    /\ ~site.editsInPush /\ ~site.overlap =>
          x.at >= stampOf[d] /\ (x.sync = "synced" => srvM.at >= stampOf[d])
    /\ ~site.editsInPush /\ ~site.overlap /\ ~Ahead =>
          /\ x.at <= now
          /\ k.m = srvM.at /\ ~skipped'[d] => x.status = srvM.status \/ stampOf[d] >= srvM.at
    /\ ~site.overlap /\ ~Ahead /\ site.known => y # None /\ Fresh(y)

LEMMA EndsKeeps ==
    ASSUME EntityInv, NEW d \in Devices, NEW x, NEW y, NEW k, Ends(d, x, y, k)
    PROVE  EntityInv'
<1>0. /\ TypeInv /\ JobsOK /\ Alone /\ Pulled /\ Stamps /\ MemberInv /\ StatusInv /\ CountInv /\ CardInv
      /\ job \in [Devices -> Jobs] /\ locM \in [Devices -> LocMember] /\ locC \in [Devices -> LocCard \cup {None}]
      /\ cursor \in [Devices -> [m: Nat, c: Nat]]
      /\ Idle \in Jobs /\ JobOK(Idle) /\ Idle.at = "idle" /\ Idle.m = None /\ Idle.c = None
  BY Facts, JobFacts, RowFacts DEF TypeInv
<1>u. UNCHANGED <<site, now, edits, chip, srvM, srvC, outbox, stampOf>>
  BY DEF Ends
<1>1. job' \in [Devices -> Jobs] /\ job'[d] = Idle /\ \A e \in Devices \ {d} : job'[e] = job[e]
  BY <1>0 DEF Ends
<1>2. /\ locM' \in [Devices -> LocMember] /\ locM'[d] = x
      /\ locC' \in [Devices -> LocCard \cup {None}] /\ locC'[d] = y
      /\ cursor' \in [Devices -> [m: Nat, c: Nat]] /\ cursor'[d] = k
      /\ \A e \in Devices \ {d} : locM'[e] = locM[e] /\ locC'[e] = locC[e] /\ cursor'[e] = cursor[e]
  BY <1>0 DEF Ends
<1>3. TypeInv'
  BY <1>0, <1>1, <1>2, <1>u DEF TypeInv, Ends
<1>4. JobsOK'
  BY <1>0, <1>1, <1>2, <1>u DEF JobsOK, JobOK, OnItsWay
<1>5. Alone' /\ Pulled'
  <2>1. SUFFICES ASSUME ~site.overlap
                 PROVE  Alone' /\ Pulled'
    BY <1>u DEF Alone, Pulled
  <2>2. \A e \in Devices : Handling(e)' => Handling(e)
    BY <1>0, <1>1 DEF Handling
  <2>3. Alone'
    BY <1>0, <1>1, <1>u, <2>1, <2>2 DEF Alone
  <2>4. k.m <= srvM.at
    BY <2>1 DEF Ends
  <2>5. Pulled'
    BY <1>0, <1>1, <1>2, <1>u, <2>1, <2>4 DEF Pulled
  <2>6. QED BY <2>3, <2>5
<1>6. Stamps'
  BY <1>0, <1>u DEF Stamps, Clock
<1>7. MemberInv'
  <2>1. SUFFICES ASSUME ~site.editsInPush, ~site.overlap, NEW e \in Devices
                 PROVE  Kept(e)'
    BY <1>u DEF MemberInv
  <2>2. Kept(e)
    BY <1>0, <2>1 DEF MemberInv
  <2>3. CASE e # d
    BY <1>1, <1>2, <1>u, <2>2, <2>3 DEF Kept, OnItsWay
  <2>4. CASE e = d
    <3>1. x.at >= stampOf[d] /\ (x.sync = "synced" => srvM.at >= stampOf[d])
      BY <2>1 DEF Ends
    <3>2. QED BY <1>0, <1>1, <1>2, <1>u, <2>4, <3>1 DEF Kept, OnItsWay
  <2>5. QED BY <2>3, <2>4
<1>8. StatusInv'
  <2>1. SUFFICES ASSUME ~site.editsInPush, ~site.overlap, ~Ahead, NEW e \in Devices
                 PROVE  Dated(e)'
    BY <1>0, <1>u DEF StatusInv, Ahead
  <2>2. Dated(e)
    BY <1>0, <2>1 DEF StatusInv
  <2>3. CASE e # d
    <3>1. skipped'[e] = skipped[e]
      BY <2>3 DEF Ends
    <3>2. QED BY <1>1, <1>2, <1>u, <2>2, <2>3, <3>1 DEF Dated
  <2>4. CASE e = d
    <3>1. /\ x.at <= now
          /\ k.m = srvM.at /\ ~skipped'[d] => x.status = srvM.status \/ stampOf[d] >= srvM.at
      BY <2>1 DEF Ends
    <3>2. QED BY <1>0, <1>1, <1>2, <1>u, <2>4, <3>1 DEF Dated
  <2>5. QED BY <2>3, <2>4
<1>9. CountInv'
  BY <1>0, <1>1, <1>2, <1>u DEF CountInv, Counted, Ends
<1>10. CardInv'
  <2>1. SUFFICES ASSUME ~site.overlap, ~Ahead, site.known, NEW e \in Devices
                 PROVE  /\ locC'[e] # None /\ Fresh(locC'[e]) /\ Fresh(job'[e].c)
                        /\ job'[e].at = "pulled" /\ job'[e].c # None => job'[e].c.created = 0
    BY <1>0, <1>u DEF CardInv, Ahead, Fresh
  <2>2. /\ locC[e] # None /\ Fresh(locC[e]) /\ Fresh(job[e].c)
        /\ job[e].at = "pulled" /\ job[e].c # None => job[e].c.created = 0
    BY <1>0, <2>1 DEF CardInv
  <2>3. CASE e # d
    BY <1>1, <1>2, <2>2, <2>3
  <2>4. CASE e = d
    <3>1. y # None /\ Fresh(y)
      BY <2>1 DEF Ends
    <3>2. QED BY <1>0, <1>1, <1>2, <2>4, <3>1 DEF Fresh
  <2>5. QED BY <2>3, <2>4
<1>11. QED BY <1>3, <1>4, <1>5, <1>6, <1>7, <1>8, <1>9, <1>10 DEF EntityInv

LEMMA Answered ==
    ASSUME EntityInv, NEW d \in Devices, PushAnswered(d)
    PROVE  EntityInv'
<1>0. /\ job[d] \in Jobs /\ JobOK(job[d]) /\ job[d].at = "answer" /\ OnItsWay(d)
      /\ locM \in [Devices -> LocMember] /\ locC \in [Devices -> LocCard \cup {None}]
      /\ cursor \in [Devices -> [m: Nat, c: Nat]] /\ skipped \in [Devices -> BOOLEAN]
      /\ Pulled /\ MemberInv /\ StatusInv /\ CountInv /\ CardInv
  BY Facts, JobFacts DEF TypeInv, PushAnswered, OnItsWay
<1>u. UNCHANGED <<site, now, edits, chip, srvM, srvC, outbox, cursor, stampOf, skipped>>
  BY DEF PushAnswered, server, history
<1>1. PICK x : x = Marked(locM[d], job[d].m, "m" \in job[d].refused)
  OBVIOUS
<1>2. PICK y : y = Marked(locC[d], job[d].c, "c" \in job[d].refused)
  OBVIOUS
<1>3. /\ locM' = [locM EXCEPT ![d] = x] /\ locC' = [locC EXCEPT ![d] = y] /\ job' = [job EXCEPT ![d] = Idle]
  BY <1>0, <1>1, <1>2 DEF PushAnswered
<1>4. /\ x \in LocMember /\ x.at = locM[d].at /\ x.status = locM[d].status
      /\ x.sync = locM[d].sync \/ (x.sync = "synced" /\ job[d].m # None /\ "m" \notin job[d].refused)
  BY <1>0, <1>1 DEF Marked, LocMember, Sync
<1>5. /\ y \in LocCard \cup {None}
      /\ IF locC[d] = None THEN y = None
         ELSE y # None /\ y.counter = locC[d].counter /\ y.created = locC[d].created
  <2>1. job[d].c # None => locC[d] # None
    BY <1>0, JobFacts
  <2>2. CASE locC[d] = None
    BY <1>2, <2>1, <2>2 DEF Marked
  <2>3. CASE locC[d] # None
    <3>1. y \in LocCard /\ y.counter = locC[d].counter /\ y.created = locC[d].created
      BY <1>0, <1>2, <2>3 DEF Marked, LocCard, Sync
    <3>2. QED BY <2>3, <3>1, NoneAssumption
  <2>4. QED BY <2>2, <2>3
<1>6. PICK k : k = cursor[d]
  OBVIOUS
<1>7. k \in [m: Nat, c: Nat] /\ cursor' = [cursor EXCEPT ![d] = k]
  BY <1>0, <1>u, <1>6
<1>8. Counted(y)
  BY <1>0, <1>5 DEF CountInv, Counted
<1>9. ~site.overlap => k.m <= srvM.at
  BY <1>0, <1>6 DEF Pulled
<1>10. ~site.editsInPush /\ ~site.overlap =>
          x.at >= stampOf[d] /\ (x.sync = "synced" => srvM.at >= stampOf[d])
  <2>1. SUFFICES ASSUME ~site.editsInPush, ~site.overlap
                 PROVE  x.at >= stampOf[d] /\ (x.sync = "synced" => srvM.at >= stampOf[d])
    OBVIOUS
  <2>2. Kept(d)
    BY <1>0, <2>1 DEF MemberInv
  <2>3. QED BY <1>0, <1>4, <2>2 DEF Kept
<1>11. ~site.editsInPush /\ ~site.overlap /\ ~Ahead =>
          /\ x.at <= now
          /\ k.m = srvM.at /\ ~skipped'[d] => x.status = srvM.status \/ stampOf[d] >= srvM.at
  BY <1>0, <1>4, <1>6, <1>u DEF StatusInv, Dated
<1>12. ~site.overlap /\ ~Ahead /\ site.known => y # None /\ Fresh(y)
  BY <1>0, <1>5 DEF CardInv, Fresh
<1>13. Ends(d, x, y, k)
  BY <1>0, <1>u, <1>3, <1>4, <1>5, <1>7, <1>8, <1>9, <1>10, <1>11, <1>12 DEF Ends
<1>14. QED BY <1>13, EndsKeeps

LEMMA Merges ==
    ASSUME EntityInv, NEW d \in Devices, Merge(d)
    PROVE  EntityInv'
<1>0. /\ job[d] \in Jobs /\ JobOK(job[d]) /\ job[d].at = "pulled"
      /\ locM \in [Devices -> LocMember] /\ locC \in [Devices -> LocCard \cup {None}]
      /\ cursor \in [Devices -> [m: Nat, c: Nat]] /\ skipped \in [Devices -> BOOLEAN]
      /\ now \in Nat /\ srvM \in SrvMember /\ srvC \in SrvCard \cup {None}
      /\ Pulled /\ MemberInv /\ StatusInv /\ CountInv /\ CardInv
  BY Facts, JobFacts DEF TypeInv, Merge
<1>u. UNCHANGED <<site, now, edits, chip, srvM, srvC, outbox, stampOf>> /\ job' = [job EXCEPT ![d] = Idle]
  BY DEF Merge, server
<1>1. PICK m : m = job[d].m
  OBVIOUS
<1>2. PICK c : c = job[d].c
  OBVIOUS
<1>3. /\ m \in SrvMember \cup {None} /\ c \in SrvCard \cup {None}
      /\ m # None => m.at \in Nat /\ m.status \in MemberStatus
      /\ c # None => /\ c.at \in Nat /\ c.status \in CardStatus /\ c.counter \in Counters /\ c.created \in Nat
  BY <1>0, <1>1, <1>2 DEF Jobs, JobOK, SrvMember, SrvCard
<1>4. /\ locM[d] \in LocMember /\ locM[d] # None /\ (Skipped(locM[d]) <=> locM[d].sync # "synced")
      /\ locC[d] \in LocCard \cup {None} /\ (locC[d] = None => ~Skipped(locC[d]))
      /\ \A k \in LocCard : k # None
  BY <1>0, NoneAssumption DEF Skipped, Pending, LocMember, Sync
<1>5. PICK x : x = IF m = None \/ Skipped(locM[d]) THEN locM[d] ELSE MapMemberToUser(m)
  OBVIOUS
<1>6. PICK y : y = IF c = None \/ Skipped(locC[d]) THEN locC[d] ELSE MapCardToLocal(c)
  OBVIOUS
<1>7. PICK k : k = [m |-> NewCursor(m, cursor[d].m), c |-> NewCursor(c, cursor[d].c)]
  OBVIOUS
<1>8. locM' = [locM EXCEPT ![d] = x]
  <2>1. CASE m = None \/ Skipped(locM[d])
    BY <1>0, <1>1, <1>5, <2>1 DEF Merge
  <2>2. CASE ~(m = None \/ Skipped(locM[d]))
    BY <1>0, <1>1, <1>5, <2>2 DEF Merge
  <2>3. QED BY <2>1, <2>2
<1>9. locC' = [locC EXCEPT ![d] = y]
  <2>1. CASE c = None \/ Skipped(locC[d])
    BY <1>0, <1>2, <1>6, <2>1 DEF Merge
  <2>2. CASE ~(c = None \/ Skipped(locC[d]))
    BY <1>0, <1>2, <1>6, <2>2 DEF Merge
  <2>3. QED BY <2>1, <2>2
<1>10. cursor' = [cursor EXCEPT ![d] = k]
  BY <1>0, <1>1, <1>2, <1>7 DEF Merge
<1>11. /\ k \in [m: Nat, c: Nat] /\ k.m = IF m = None THEN cursor[d].m ELSE m.at
  BY <1>0, <1>3, <1>7 DEF NewCursor
<1>12. /\ x \in LocMember
       /\ x = locM[d] \/ (m # None /\ ~Skipped(locM[d]) /\ x.at = m.at /\ x.status = m.status /\ x.sync = "synced")
  <2>1. m # None => MapMemberToUser(m) \in LocMember /\ MapMemberToUser(m).at = m.at
                    /\ MapMemberToUser(m).status = m.status /\ MapMemberToUser(m).sync = "synced"
    BY <1>3 DEF MapMemberToUser, LocMember, Sync
  <2>2. QED BY <1>4, <1>5, <2>1
<1>13. /\ y \in LocCard \cup {None}
       /\ y = locC[d] \/ (c # None /\ y # None /\ y.counter = c.counter /\ y.created = c.created)
  <2>1. c # None => MapCardToLocal(c) \in LocCard /\ MapCardToLocal(c).counter = c.counter
                    /\ MapCardToLocal(c).created = c.created
    BY <1>3 DEF MapCardToLocal, LocCard, Sync
  <2>2. QED BY <1>4, <1>6, <2>1
<1>14. Counted(y)
  BY <1>0, <1>2, <1>13 DEF CountInv, Counted
<1>15. /\ skipped' \in [Devices -> BOOLEAN] /\ \A e \in Devices \ {d} : skipped'[e] = skipped[e]
       /\ m = None => skipped' = skipped
       /\ m # None => (skipped'[d] <=> Skipped(locM[d]))
  <2>1. Skipped(locM[d]) \in BOOLEAN
    BY DEF Skipped
  <2>2. skipped' = IF m = None THEN skipped ELSE [skipped EXCEPT ![d] = Skipped(locM[d])]
    BY <1>1 DEF Merge
  <2>3. CASE m = None
    BY <1>0, <2>2, <2>3
  <2>4. CASE m # None
    <3>1. PICK b \in BOOLEAN : b = Skipped(locM[d])
      BY <2>1
    <3>2. skipped' = [skipped EXCEPT ![d] = b]
      BY <2>2, <2>4, <3>1
    <3>3. skipped'[d] = b /\ skipped' \in [Devices -> BOOLEAN] /\ \A e \in Devices \ {d} : skipped'[e] = skipped[e]
      BY <1>0, <3>2, Zenon
    <3>4. QED BY <2>4, <3>1, <3>3, Zenon
  <2>5. QED BY <2>3, <2>4, Zenon
<1>16. ~site.overlap => k.m <= srvM.at /\ (m # None => m.at <= srvM.at /\ (m.at = srvM.at => m = srvM))
  BY <1>0, <1>1, <1>11 DEF Pulled
<1>17. ~site.editsInPush /\ ~site.overlap =>
          x.at >= stampOf[d] /\ (x.sync = "synced" => srvM.at >= stampOf[d])
  <2>1. SUFFICES ASSUME ~site.editsInPush, ~site.overlap
                 PROVE  x.at >= stampOf[d] /\ (x.sync = "synced" => srvM.at >= stampOf[d])
    OBVIOUS
  <2>2. Kept(d)
    BY <1>0, <2>1 DEF MemberInv
  <2>3. CASE x = locM[d]
    BY <2>2, <2>3 DEF Kept
  <2>4. CASE m # None /\ ~Skipped(locM[d]) /\ x.at = m.at
    BY <1>0, <1>1, <1>4, <2>2, <2>4 DEF Kept
  <2>5. QED BY <1>12, <2>3, <2>4
<1>18. ~site.editsInPush /\ ~site.overlap /\ ~Ahead =>
          /\ x.at <= now
          /\ k.m = srvM.at /\ ~skipped'[d] => x.status = srvM.status \/ stampOf[d] >= srvM.at
  <2>1. SUFFICES ASSUME ~site.editsInPush, ~site.overlap, ~Ahead
                 PROVE  /\ x.at <= now
                        /\ k.m = srvM.at /\ ~skipped'[d] => x.status = srvM.status \/ stampOf[d] >= srvM.at
    OBVIOUS
  <2>2. Dated(d)
    BY <1>0, <2>1 DEF StatusInv
  <2>3. CASE m = None
    BY <1>3, <1>11, <1>12, <1>15, <2>2, <2>3 DEF Dated
  <2>4. CASE m # None
    <3>1. x.at <= now
      BY <1>1, <1>12, <2>2, <2>4 DEF Dated
    <3>2. k.m = srvM.at => m = srvM
      BY <1>11, <1>16, <2>1, <2>4
    <3>3. ~skipped'[d] => x = MapMemberToUser(m)
      BY <1>5, <1>15, <2>4
    <3>4. MapMemberToUser(m).status = m.status
      BY DEF MapMemberToUser
    <3>5. QED BY <3>1, <3>2, <3>3, <3>4
  <2>5. QED BY <2>3, <2>4
<1>19. ~site.overlap /\ ~Ahead /\ site.known => y # None /\ Fresh(y)
  <2>1. SUFFICES ASSUME ~site.overlap, ~Ahead, site.known
                 PROVE  y # None /\ Fresh(y)
    OBVIOUS
  <2>2. /\ locC[d] # None /\ Fresh(locC[d]) /\ (c # None => c.created = 0) /\ srvC # None
    BY <1>0, <1>2, <2>1 DEF CardInv
  <2>3. srvC.at \in Nat
    BY <1>0, <2>2 DEF SrvCard
  <2>4. QED BY <1>0, <1>13, <2>2, <2>3 DEF Fresh
<1>20. Ends(d, x, y, k)
  BY <1>u, <1>8, <1>9, <1>10, <1>11, <1>12, <1>13, <1>14, <1>15, <1>16, <1>17, <1>18, <1>19 DEF Ends
<1>21. QED BY <1>20, EndsKeeps

LEMMA Ticks ==
    ASSUME EntityInv, Tick
    PROVE  EntityInv'
<1>0. /\ TypeInv /\ JobsOK /\ Alone /\ Pulled /\ Stamps /\ MemberInv /\ StatusInv /\ CountInv /\ CardInv
      /\ now \in Nat /\ MaxTime \in Nat /\ site \in Site
      /\ \A d \in Devices : Clock(d) \in Nat /\ stampOf[d] \in Nat
  BY Facts DEF TypeInv
<1>u. /\ now' = now + 1 /\ now < MaxTime
      /\ UNCHANGED <<site, edits, chip, srvM, srvC, locM, locC, outbox, job, cursor, stampOf, skipped>>
  BY DEF Tick, server, local, history
<1>1. TypeInv'
  BY <1>0, <1>u DEF TypeInv
<1>2. JobsOK' /\ Alone' /\ Pulled' /\ MemberInv' /\ CountInv'
  BY <1>0, <1>u DEF JobsOK, JobOK, OnItsWay, Alone, Handling, Pulled, MemberInv, Kept, CountInv, Counted
<1>3. Stamps'
  <2>1. \A d \in Devices : site.ahead[d] \in Nat
    BY <1>0 DEF Site
  <2>2. QED BY <1>0, <1>u, <2>1 DEF Stamps, Clock
<1>4. StatusInv'
  <2>1. SUFFICES ASSUME ~site.editsInPush, ~site.overlap, ~Ahead
                 PROVE  srvM'.at <= now' /\ \A d \in Devices : Dated(d)'
    BY <1>u DEF StatusInv, Ahead
  <2>2. srvM.at <= now /\ srvM.at \in Nat
    BY <1>0, <2>1 DEF StatusInv, TypeInv, SrvMember
  <2>3. ASSUME NEW d \in Devices
        PROVE  Dated(d)'
    <3>1. Dated(d) /\ locM[d].at \in Nat /\ (job[d].m # None => job[d].m.at \in Nat)
      BY <1>0, <2>1 DEF StatusInv, TypeInv, LocMember, Jobs, SrvMember
    <3>2. locM[d].at <= now + 1 /\ (job[d].m # None => job[d].m.at <= now + 1)
      BY <1>0, <3>1 DEF Dated
    <3>3. QED BY <1>u, <3>1, <3>2 DEF Dated
  <2>4. QED BY <1>0, <1>u, <2>2, <2>3
<1>5. CardInv'
  <2>1. SUFFICES ASSUME ~site.overlap, ~Ahead, site.known
                 PROVE  CardInv'
    BY <1>u DEF CardInv, Ahead
  <2>2. srvC \in SrvCard /\ srvC # None /\ srvC.at \in Nat /\ srvC.at <= now
    BY <1>0, <2>1 DEF CardInv, TypeInv, SrvCard
  <2>3. ASSUME NEW k, Fresh(k), k # None => k.created \in Nat
        PROVE  Fresh(k)'
    BY <1>0, <1>u, <2>3 DEF Fresh
  <2>4. ASSUME NEW e \in Devices
        PROVE  Fresh(locC[e])' /\ Fresh(job[e].c)'
    <3>1. /\ locC[e] # None => locC[e].created \in Nat
          /\ job[e].c # None => job[e].c.created \in Nat
      BY <1>0 DEF TypeInv, LocCard, SrvCard, WireCard, Jobs
    <3>2. PICK a, b : a = locC[e] /\ b = job[e].c
      OBVIOUS
    <3>3. Fresh(a)' /\ Fresh(b)'
      BY <1>0, <2>1, <2>3, <3>1, <3>2 DEF CardInv
    <3>4. QED BY <1>u, <3>2, <3>3 DEF Fresh
  <2>5. srvC.at <= now + 1
    BY <1>0, <2>2
  <2>6. QED BY <1>0, <1>u, <2>1, <2>2, <2>4, <2>5 DEF CardInv
<1>6. QED BY <1>1, <1>2, <1>3, <1>4, <1>5 DEF EntityInv

-----------------------------------------------------------------------------
LEMMA Starts == Init => EntityInv
<1> SUFFICES ASSUME Init
             PROVE  EntityInv
  OBVIOUS
<1>0. /\ site \in Site /\ site \in Sites /\ now = 1 /\ edits = 0 /\ now \in 0..MaxTime /\ 0 \in Counters
      /\ site.maxEdits \in Nat /\ site.maxTries \in Nat /\ site.ahead \in [Devices -> Nat]
      /\ chip = [counter |-> 0, frozen |-> FALSE]
      /\ srvM = [status |-> "active", at |-> 0]
      /\ outbox = [d \in Devices |-> {}] /\ job = [d \in Devices |-> Idle]
      /\ cursor = [d \in Devices |-> [m |-> 0, c |-> 0]] /\ stampOf = [d \in Devices |-> 0]
      /\ skipped = [d \in Devices |-> FALSE]
      /\ locM = [d \in Devices |-> [status |-> "active", at |-> 0, sync |-> "synced"]]
  BY EntityAssumption DEF Init, Site, Counters
<1>1. srvM \in SrvMember /\ srvM.at = 0 /\ srvM.status = "active"
  BY <1>0 DEF SrvMember, MemberStatus
<1>2. /\ locM \in [Devices -> LocMember]
      /\ \A d \in Devices : locM[d].at = 0 /\ locM[d].status = "active" /\ locM[d].sync = "synced"
  BY <1>0 DEF LocMember, MemberStatus, Sync
<1>3. PICK k : k = [status |-> "active", counter |-> 0, created |-> 0, sync |-> "synced"]
  OBVIOUS
<1>4. k \in LocCard /\ k # None /\ k.created = 0 /\ k.counter = 0
  <2>1. k \in LocCard /\ k.created = 0 /\ k.counter = 0
    BY <1>0, <1>3 DEF LocCard, CardStatus, Sync
  <2>2. QED BY <2>1, NoneAssumption
<1>5. /\ locC \in [Devices -> LocCard \cup {None}]
      /\ \A d \in Devices : locC[d] = IF site.known THEN k ELSE None
  BY <1>3, <1>4 DEF Init
<1>6. PICK c : c = [status |-> "active", counter |-> 0, bal |-> 0, created |-> 0, at |-> 0]
  OBVIOUS
<1>7. c \in SrvCard /\ c # None /\ c.counter = 0 /\ c.bal = 0 /\ c.created = 0 /\ c.at = 0
  <2>1. c \in SrvCard /\ c.counter = 0 /\ c.bal = 0 /\ c.created = 0 /\ c.at = 0
    BY <1>0, <1>6 DEF SrvCard, CardStatus
  <2>2. QED BY <2>1, NoneAssumption
<1>8. srvC = IF site.known THEN c ELSE None
  BY <1>6 DEF Init
<1>9. /\ Idle \in Jobs /\ Idle.at = "idle" /\ Idle.m = None /\ Idle.c = None /\ Idle.tries = 0
      /\ \A d \in Devices : job[d] = Idle
  BY <1>0 DEF Idle, Jobs, Places
<1>10. TypeInv
  BY <1>0, <1>1, <1>2, <1>5, <1>7, <1>8, <1>9 DEF TypeInv
<1>11. JobsOK /\ Alone
  BY <1>0, <1>9 DEF JobsOK, JobOK, OnItsWay, Alone, Handling
<1>12. \A d \in Devices : Clock(d) \in Nat /\ cursor[d].m = 0 /\ stampOf[d] = 0 /\ skipped[d] = FALSE /\ outbox[d] = {}
  BY <1>0 DEF Clock
<1>13. Pulled /\ Stamps
  BY <1>1, <1>9, <1>12 DEF Pulled, Stamps
<1>14. MemberInv
  BY <1>1, <1>2, <1>9, <1>12 DEF MemberInv, Kept, OnItsWay
<1>15. StatusInv
  BY <1>0, <1>1, <1>2, <1>9, <1>12 DEF StatusInv, Dated
<1>16. CountInv
  BY <1>0, <1>4, <1>5, <1>7, <1>8, <1>9, <1>12 DEF CountInv, Counted
<1>17. CardInv
  BY <1>0, <1>4, <1>5, <1>7, <1>8, <1>9 DEF CardInv, Fresh
<1>18. QED BY <1>10, <1>11, <1>13, <1>14, <1>15, <1>16, <1>17 DEF EntityInv

LEMMA Steps == EntityInv /\ [Next]_vars => EntityInv'
<1> SUFFICES ASSUME EntityInv, [Next]_vars
             PROVE  EntityInv'
  OBVIOUS
<1>1. CASE Tick
  BY <1>1, Ticks
<1>2. ASSUME NEW d \in Devices, Edits(d)
      PROVE  EntityInv'
  BY <1>2, EditSteps
<1>3. ASSUME NEW d \in Devices, Handles(d)
      PROVE  EntityInv'
  BY <1>3, HandlingSteps, StoresMember, StoresCard DEF Handles
<1>4. ASSUME NEW d \in Devices, Refuse(d) \/ PushLost(d)
      PROVE  EntityInv'
  BY <1>4, HandlingSteps
<1>5. ASSUME NEW d \in Devices, StartPush(d) \/ PushAnswered(d) \/ PushLog(d)
      PROVE  EntityInv'
  BY <1>5, StartsPush, Answered, PushesLog
<1>6. ASSUME NEW d \in Devices, Fetch(d) \/ Merge(d)
      PROVE  EntityInv'
  BY <1>6, Fetches, Merges
<1>7. CASE UNCHANGED vars
  <2>1. UNCHANGED <<site, now, edits, chip, srvM, srvC, locM, locC, outbox, job, cursor, stampOf, skipped>>
    BY <1>7 DEF vars, server, local, history
  <2>2. TypeInv' /\ JobsOK' /\ Alone' /\ Pulled' /\ Stamps'
    BY <2>1, Facts DEF TypeInv, JobsOK, JobOK, OnItsWay, Alone, Handling, Pulled, Stamps, Clock
  <2>3. MemberInv' /\ StatusInv' /\ CountInv' /\ CardInv'
    BY <2>1, Facts DEF MemberInv, Kept, OnItsWay, StatusInv, Ahead, Dated, CountInv, Counted, CardInv, Fresh
  <2>4. QED BY <2>2, <2>3 DEF EntityInv
<1>8. QED BY <1>1, <1>2, <1>3, <1>4, <1>5, <1>6, <1>7 DEF Next

-----------------------------------------------------------------------------
LEMMA Inductive == Spec => []EntityInv
<1>1. QED BY Starts, Steps, PTL DEF Spec

LEMMA WellTyped == EntityInv => TypeOK
<1> SUFFICES ASSUME EntityInv
             PROVE  TypeOK
  OBVIOUS
<1>1. TypeInv /\ JobsOK /\ site.maxTries \in Nat
  BY Facts DEF Site
<1>2. ASSUME NEW d \in Devices
      PROVE  /\ job[d].at \in {"idle", "member", "memberRead", "card", "cardRead", "answer", "pulled"}
             /\ job[d].refused \subseteq {"m", "c"} /\ job[d].tries \in 0..site.maxTries
  BY <1>1, JobFacts DEF Jobs, JobOK, Places
<1>3. QED BY <1>1, <1>2 DEF TypeOK, TypeInv

(* A member edit stays in the device's database until a later one replaces *)
(* it, and a row that is shown as synced has reached the server or met a   *)
(* later edit there: syncPushEntities, processMember, syncPull.            *)
THEOREM EditsKept == Spec => []NoEditIsLost
<1>1. EntityInv => NoEditIsLost
  BY WellTyped, Facts DEF NoEditIsLost, MemberInv, Kept
<1>2. QED BY <1>1, Inductive, PTL

(* A device that has pushed and pulled all there is has the server's       *)
(* member, unless its last pull skipped that row (mergePulledMembers).     *)
THEOREM Agrees == Spec => []AgreesUnlessSkipped
<1>1. EntityInv => AgreesUnlessSkipped
  <2> SUFFICES ASSUME EntityInv, ~site.editsInPush, ~site.overlap, ~Ahead,
                      NEW d \in Devices, UpToDate(d), ~skipped[d]
               PROVE  locM[d].status = srvM.status
    BY DEF AgreesUnlessSkipped
  <2>1. Dated(d) /\ cursor[d].m <= srvM.at
    BY Facts DEF StatusInv, Pulled
  <2>2. cursor[d].m \in Nat /\ srvM.at \in Nat /\ stampOf[d] \in Nat
    BY Facts DEF TypeInv, SrvMember
  <2>3. QED BY <2>1, <2>2 DEF Dated, UpToDate
<1>2. QED BY <1>1, Inductive, PTL

(* A step of the server's member or card never goes back.                  *)
LEMMA MemberForward ==
    ASSUME EntityInv, [Next]_vars, ~site.overlap
    PROVE  srvM'.at >= srvM.at
<1>1. srvM \in SrvMember /\ srvM.at \in Nat
  BY Facts DEF TypeInv, SrvMember
<1>2. CASE srvM' = srvM
  BY <1>1, <1>2
<1>3. ASSUME NEW d \in Devices, StoreMember(d)
      PROVE  srvM'.at >= srvM.at
  <2>1. job[d].seen = srvM /\ srvM # None /\ job[d].m \in SrvMember
    BY <1>1, <1>3, Facts, JobFacts, NoneAssumption DEF StoreMember, Alone, JobOK, Jobs
  <2>2. srvM' = srvM \/ (srvM' = job[d].m /\ job[d].m.at > srvM.at)
    BY <1>3, <2>1 DEF StoreMember, MemberIsNewer
  <2>3. job[d].m.at \in Nat
    BY <2>1 DEF SrvMember
  <2>4. QED BY <1>1, <2>2, <2>3
<1>4. QED
  BY ZenonT(30), <1>2, <1>3 DEF Next, vars, server, local, history, Tick, Edits, Edit, ChangeMember, ChangeCard, Register, Scout,
     StationReads, WriteCard, ResetCard, Handles, ReadMember, ReadCard, StoreCard, OnServer, Refuse, StartPush,
     PushAnswered, PushLost, PushLog, Fetch, Merge

LEMMA CardForward ==
    ASSUME EntityInv, [Next]_vars, srvC # None
    PROVE  srvC'.counter >= srvC.counter
<1>1. srvC \in SrvCard /\ srvC.counter \in Counters /\ srvC.counter \in Nat
  BY Facts DEF TypeInv, SrvCard, Counters
<1>2. CASE srvC' = srvC
  BY <1>1, <1>2
<1>3. ASSUME NEW d \in Devices, StoreCard(d)
      PROVE  srvC'.counter >= srvC.counter
  <2>1. PICK c : c = job[d].c
    OBVIOUS
  <2>2. c \in WireCard /\ c.counter \in Counters
    BY <1>3, <2>1, JobFacts DEF StoreCard, JobOK, WireCard
  <2>3. PICK top : top = Max({srvC.counter, c.counter})
    OBVIOUS
  <2>4. top >= srvC.counter /\ top \in Counters
    BY <1>1, <2>2, <2>3, GreaterOf DEF Counters
  <2>5. UpdatedCard(c) = [srvC EXCEPT !.status = c.status, !.bal = c.counter, !.at = now, !.counter = top]
    BY <1>1, <2>3 DEF UpdatedCard, SrvCard
  <2>6. UpdatedCard(c).counter = top
    BY <1>1, <2>5 DEF SrvCard
  <2>7. srvC' = srvC \/ srvC' = UpdatedCard(c)
    BY <1>3, <2>1 DEF StoreCard
  <2>8. QED BY <1>1, <2>4, <2>6, <2>7
<1>4. ASSUME NEW d \in Devices, PushLog(d)
      PROVE  srvC'.counter >= srvC.counter
  <2>1. PICK top : top = Max(outbox[d])
    OBVIOUS
  <2>2. top \in Counters /\ top \in Nat
    BY <1>4, <2>1, RowFacts, Greatest DEF PushLog, Counters
  <2>3. srvC' = IF top <= srvC.counter THEN srvC ELSE [srvC EXCEPT !.counter = top, !.bal = top, !.at = now]
    BY <1>4, <2>1 DEF PushLog
  <2>4. QED BY <1>1, <2>2, <2>3 DEF SrvCard
<1>5. QED
  BY ZenonT(30), <1>2, <1>3, <1>4 DEF Next, vars, server, local, history, Tick, Edits, Edit, ChangeMember, ChangeCard, Register,
     Scout, StationReads, WriteCard, ResetCard, Handles, ReadMember, ReadCard, StoreMember, OnServer, Refuse,
     StartPush, PushAnswered, PushLost, Fetch, Merge

(* Last write wins on the server, and the counter of a card never falls    *)
(* and takes its balance with it: processMember, processCard and the       *)
(* counters that the log brings.                                           *)
THEOREM NeverBack == Spec => ServerNeverGoesBack
<1>1. EntityInv => BalanceOfCounter
  BY Facts DEF BalanceOfCounter, CardInv
<1>2. ASSUME EntityInv, EntityInv', [Next]_vars
      PROVE  /\ ~site.overlap => srvM'.at >= srvM.at
             /\ srvC # None => srvC'.counter >= srvC.counter
             /\ BalanceOfCounter'
  <2>1. BalanceOfCounter'
    BY <1>1, <1>2, PTL
  <2>2. QED BY <1>2, <2>1, MemberForward, CardForward
<1>3. QED BY <1>2, Inductive, PTL DEF Spec, ServerNeverGoesBack

=============================================================================

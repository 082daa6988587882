------------------------ MODULE CardLifecycle_proofs ------------------------
EXTENDS CardWire, CardSection, SequenceTheorems, FiniteSetTheorems, TLAPS
(***************************************************************************)
(* Theorems about CardLifecycle, about the bytes of CardWire, then about   *)
(* CardSection, the station's page that prints the cards and tops them up. *)
(*                                                                         *)
(* Of CardLifecycle, the first part says what each operation               *)
(* of CardEngine leaves on the card; then come, each from the ones before: *)
(* type correctness, the log that explains the balance, the session        *)
(* invariant with the limits of the balance, the fee, and the refinement   *)
(* of ParkingPurse.  Of CardWire: what fits the fields of the chip, each   *)
(* conversion with the one that undoes it, and that every write is         *)
(* understood.                                                             *)
(***************************************************************************)

(* Rounding up, as Math.ceil does for the hours of a stay, is within one   *)
(* of the quotient.                                                        *)
LEMMA CeilDivBounds ==
    ASSUME NEW a \in Int, NEW b \in Nat \ {0}
    PROVE  /\ CeilDiv(a, b) \in Int
           /\ CeilDiv(a, b) * b >= a
           /\ CeilDiv(a, b) * b < a + b
BY Z3 DEF CeilDiv

(* A stay that is less than one hour negative still rounds to zero hours.  *)
LEMMA CeilDivNat ==
    ASSUME NEW a \in Int, NEW b \in Nat \ {0}, a > -b
    PROVE  CeilDiv(a, b) \in Nat
<1>1. CeilDiv(a, b) \in Int /\ CeilDiv(a, b) * b > -b
  BY SMTT(30), CeilDivBounds
<1>2. QED BY <1>1

(* Appending to the ring keeps it a log of at most LogSize entries, ends it *)
(* with the new entry and shifts the others by at most one place.          *)
LEMMA BuildLogEntryProperties ==
    ASSUME NEW log \in Seq(LogEntry), Len(log) <= LogSize, NEW e \in LogEntry
    PROVE  LET r == BuildLogEntry(log, e)
               d == Len(log) + 1 - Len(r)
           IN  /\ r \in Seq(LogEntry)
               /\ Len(r) \in 1..LogSize
               /\ r[Len(r)] = e
               /\ d \in {0, 1}
               /\ \A i \in 1..(Len(r) - 1) : r[i] = log[i + d]
<1> DEFINE a == Append(log, e)
<1>1. /\ a \in Seq(LogEntry) /\ Len(a) = Len(log) + 1 /\ a[Len(a)] = e
      /\ \A i \in 1..Len(log) : a[i] = log[i]
  OBVIOUS
<1>2. /\ Tail(a) \in Seq(LogEntry) /\ Len(Tail(a)) = Len(log)
      /\ \A i \in 1..Len(log) : Tail(a)[i] = a[i + 1]
  BY <1>1
<1>3. Len(log) \in Nat /\ LogSize \in Nat \ {0}
  BY EngineAssumption
<1> HIDE DEF a
<1>4. CASE Len(log) >= LogSize
  <2>1. BuildLogEntry(log, e) = Tail(a) /\ Len(log) = LogSize
    BY <1>3, <1>4 DEF BuildLogEntry, a
  <2>2. Tail(a)[Len(Tail(a))] = e
    BY <1>1, <1>2, <1>3, <2>1
  <2>3. \A i \in 1..(Len(log) - 1) : Tail(a)[i] = log[i + 1]
    BY <1>1, <1>2, <1>3
  <2>4. PICK r : r = Tail(a)
    OBVIOUS
  <2>5. r \in Seq(LogEntry) /\ Len(r) = Len(log) /\ r[Len(r)] = e /\ \A i \in 1..(Len(log) - 1) : r[i] = log[i + 1]
    BY <1>2, <2>2, <2>3, <2>4
  <2>6. Len(r) \in 1..LogSize /\ Len(log) + 1 - Len(r) = 1
    BY <1>3, <2>1, <2>5
  <2>. QED BY <2>1, <2>4, <2>5, <2>6
<1>5. CASE ~(Len(log) >= LogSize)
  BY <1>1, <1>3, <1>5 DEF BuildLogEntry, a
<1>6. QED BY <1>4, <1>5

Typed(p) == p \in CardPayload /\ Len(p.log) <= LogSize

(* What every write has in common: the next counter and the new entry.     *)
LEMMA WrittenProperties ==
    ASSUME NEW p, Typed(p), NEW t \in Int, NEW amount \in Int, NEW f \in TxType
    PROVE  LET w == Written(p, t, amount, f)
           IN  /\ Typed(w)
               /\ w.log = BuildLogEntry(p.log, Entry(t, amount, p.balance, f))
               /\ w.status = p.status /\ w.state = p.state /\ w.balance = p.balance
               /\ w.startTime = p.startTime /\ w.endTime = p.endTime
               /\ w.counter = p.counter + 1
<1>1. Entry(t, amount, p.balance, f) \in LogEntry
  BY DEF Entry, LogEntry, Typed, CardPayload
<1>2. BuildLogEntry(p.log, Entry(t, amount, p.balance, f)) \in Seq(LogEntry)
  BY <1>1, BuildLogEntryProperties DEF Typed, CardPayload
<1>3. Len(BuildLogEntry(p.log, Entry(t, amount, p.balance, f))) <= LogSize
  BY <1>1, BuildLogEntryProperties, EngineAssumption DEF Typed, CardPayload
<1> DEFINE l == BuildLogEntry(p.log, Entry(t, amount, p.balance, f))
           w == [p EXCEPT !.counter = p.counter + 1, !.lastTimestamp = t, !.log = l]
<1>4. Written(p, t, amount, f) = w
  BY DEF Written
<1> HIDE DEF l
<1>5. l \in Seq(LogEntry) /\ Len(l) <= LogSize
  BY <1>2, <1>3 DEF l
<1>6. p.counter + 1 \in Nat
  BY DEF Typed, CardPayload
<1>7. /\ w \in CardPayload
      /\ w.log = l
      /\ w.status = p.status /\ w.state = p.state /\ w.balance = p.balance
      /\ w.startTime = p.startTime /\ w.endTime = p.endTime
      /\ w.counter = p.counter + 1
  BY <1>5, <1>6 DEF Typed, CardPayload
<1> HIDE DEF w
<1>8. QED BY <1>4, <1>5, <1>7 DEF Typed, l

-----------------------------------------------------------------------------
(* What each apply function of the engine does to the fields the           *)
(* invariants read.                                                        *)

(* The values the engine writes into the enumerated fields are in them.    *)
LEMMA Constructors ==
    /\ {"IDLE", "CHECKED_IN", "CHECKED_OUT"} \subseteq CardState
    /\ {"ACTIVE", "BLOCKED_ADMIN"} \subseteq CardStatus
BY DEF CardState, CardStatus

(* The fee is an integer.                                                  *)
LEMMA FeeType ==
    ASSUME NEW p, Typed(p), NEW t \in Int
    PROVE  CalculateCheckoutFee(p, t) \in Int
<1>1. t - p.startTime \in Int
  BY DEF Typed, CardPayload
<1>2. CeilDiv(t - p.startTime, Hour) \in Int
  BY <1>1, CeilDivBounds, EngineAssumption
<1>3. QED BY <1>2, EngineAssumption DEF CalculateCheckoutFee

(* What a check-in leaves on the card.                                     *)
LEMMA CheckinProperties ==
    ASSUME NEW p, Typed(p), NEW t \in Int
    PROVE  LET q == ApplyCheckin(p, t)
           IN  /\ Typed(q)
               /\ q.log = BuildLogEntry(p.log, Entry(t, 0, p.balance, "CHECKIN"))
               /\ q.balance = p.balance /\ q.status = p.status
               /\ q.state = "CHECKED_IN" /\ q.startTime = t
<1> DEFINE w == Written(p, t, 0, "CHECKIN")
<1>1. /\ Typed(w)
      /\ w.log = BuildLogEntry(p.log, Entry(t, 0, p.balance, "CHECKIN"))
      /\ w.status = p.status /\ w.balance = p.balance
  BY WrittenProperties DEF TxType
<1> DEFINE in == "CHECKED_IN"
           v == [w EXCEPT !.state = in]
           z == 0
           q == [v EXCEPT !.startTime = t, !.endTime = z]
<1>2. ApplyCheckin(p, t) = q
  BY DEF ApplyCheckin
<1>3. w \in CardPayload /\ in \in CardState
  BY <1>1, Constructors DEF Typed
<1> HIDE DEF w, in
<1>4. /\ q \in CardPayload /\ q.log = w.log /\ q.balance = w.balance
      /\ q.status = w.status /\ q.state = in /\ q.startTime = t
  <2>1. /\ v \in CardPayload /\ v.log = w.log /\ v.balance = w.balance
        /\ v.status = w.status /\ v.state = in
    BY <1>3 DEF CardPayload
  <2>2. z \in Int
    OBVIOUS
  <2> HIDE DEF v, z
  <2>3. QED BY <2>1, <2>2 DEF CardPayload
<1> HIDE DEF q
<1>5. QED BY <1>1, <1>2, <1>4 DEF Typed, in

(* What a checkout leaves on the card.                                     *)
LEMMA CheckoutProperties ==
    ASSUME NEW p, Typed(p), NEW t \in Int
    PROVE  LET q   == ApplyCheckout(p, t)
               fee == CalculateCheckoutFee(p, t)
           IN  /\ Typed(q)
               /\ q.log = BuildLogEntry(p.log, Entry(t, fee, p.balance - fee, "CHECKOUT"))
               /\ q.balance = p.balance - fee /\ q.status = p.status
               /\ q.state = "CHECKED_OUT" /\ q.startTime = p.startTime /\ q.endTime = t
<1> DEFINE fee == CalculateCheckoutFee(p, t)
           b  == p.balance - fee
           c  == p.balance
           q0 == [p EXCEPT !.balance = b, !.lastBalance = c]
           w == Written(q0, t, fee, "CHECKOUT")
<1>0. fee \in Int
  BY FeeType
<1>1. ApplyCheckout(p, t) = [w EXCEPT !.state = "CHECKED_OUT", !.endTime = t]
  BY DEF ApplyCheckout
<1> HIDE DEF fee
<1>2. /\ q0 \in CardPayload /\ q0.log = p.log /\ q0.balance = p.balance - fee
      /\ q0.status = p.status /\ q0.startTime = p.startTime
  <2>1. p \in CardPayload /\ b \in Int /\ c \in Int
    BY <1>0 DEF Typed, CardPayload
  <2> HIDE DEF b, c
  <2>2. /\ q0 \in CardPayload /\ q0.log = p.log /\ q0.balance = b
        /\ q0.status = p.status /\ q0.startTime = p.startTime
    BY <2>1 DEF CardPayload
  <2>3. QED BY <2>2 DEF b
<1> HIDE DEF q0
<1>5. Typed(q0)
  BY <1>2 DEF Typed
<1>3. /\ Typed(w)
      /\ w.log = BuildLogEntry(p.log, Entry(t, fee, p.balance - fee, "CHECKOUT"))
      /\ w.status = p.status /\ w.balance = p.balance - fee /\ w.startTime = p.startTime
  BY <1>0, <1>2, <1>5, WrittenProperties DEF TxType
<1> HIDE DEF w
<1>4. QED BY <1>1, <1>3, Constructors DEF Typed, CardPayload, fee

(* What a top-up leaves on the card.                                       *)
LEMMA TopupProperties ==
    ASSUME NEW p, Typed(p), NEW t \in Int, NEW a \in Int
    PROVE  LET q == ApplyTopup(p, a, t)
           IN  /\ Typed(q)
               /\ q.log = BuildLogEntry(p.log, Entry(t, a, p.balance + a, "CREDIT"))
               /\ q.balance = p.balance + a /\ q.status = p.status
               /\ q.state = p.state /\ q.startTime = p.startTime /\ q.endTime = p.endTime
<1> DEFINE b  == p.balance + a
           c  == p.balance
           q0 == [p EXCEPT !.balance = b, !.lastBalance = c]
<1>1. ApplyTopup(p, a, t) = Written(q0, t, a, "CREDIT")
  BY DEF ApplyTopup
<1>2. /\ q0 \in CardPayload /\ q0.log = p.log /\ q0.balance = p.balance + a
      /\ q0.status = p.status /\ q0.state = p.state /\ q0.startTime = p.startTime /\ q0.endTime = p.endTime
  <2>1. p \in CardPayload /\ b \in Int /\ c \in Int
    BY DEF Typed, CardPayload
  <2> HIDE DEF b, c
  <2>2. /\ q0 \in CardPayload /\ q0.log = p.log /\ q0.balance = b
        /\ q0.status = p.status /\ q0.state = p.state /\ q0.startTime = p.startTime /\ q0.endTime = p.endTime
    BY <2>1 DEF CardPayload
  <2>3. QED BY <2>2 DEF b
<1> HIDE DEF q0
<1>3. Typed(q0)
  BY <1>2 DEF Typed
<1>4. QED BY <1>1, <1>2, <1>3, WrittenProperties DEF TxType

(* What a reset by the station leaves on the card.                         *)
LEMMA ResetProperties ==
    ASSUME NEW p, Typed(p), NEW t \in Int
    PROVE  LET q == ApplyResetState(p, t)
           IN  /\ Typed(q)
               /\ q.log = BuildLogEntry(p.log, Entry(t, 0, p.balance, "ADMIN"))
               /\ q.balance = p.balance /\ q.status = "ACTIVE" /\ q.state = "IDLE"
<1> DEFINE w == Written(p, t, 0, "ADMIN")
<1>1. /\ Typed(w)
      /\ w.log = BuildLogEntry(p.log, Entry(t, 0, p.balance, "ADMIN"))
      /\ w.balance = p.balance
  BY WrittenProperties DEF TxType
<1> DEFINE st == "ACTIVE"
           s  == "IDLE"
           v  == [w EXCEPT !.status = st, !.state = s]
           z  == 0
           q  == [v EXCEPT !.startTime = z, !.endTime = z]
<1>2. ApplyResetState(p, t) = q
  BY DEF ApplyResetState
<1>3. w \in CardPayload /\ st \in CardStatus /\ s \in CardState
  BY <1>1, Constructors DEF Typed
<1> HIDE DEF w, st, s
<1>4. /\ q \in CardPayload /\ q.log = w.log /\ q.balance = w.balance
      /\ q.status = st /\ q.state = s
  <2>1. /\ v \in CardPayload /\ v.log = w.log /\ v.balance = w.balance
        /\ v.status = st /\ v.state = s
    BY <1>3 DEF CardPayload
  <2>2. z \in Int
    OBVIOUS
  <2> HIDE DEF v, z
  <2>3. QED BY <2>1, <2>2 DEF CardPayload
<1> HIDE DEF q
<1>5. QED BY <1>1, <1>2, <1>4 DEF Typed, st, s

(* What writing a block leaves on the card.                                *)
LEMMA BlockProperties ==
    ASSUME NEW p, Typed(p), NEW t \in Int
    PROVE  LET q == ApplyBlockStatus(p, "BLOCKED_ADMIN", t)
           IN  /\ Typed(q)
               /\ q.log = BuildLogEntry(p.log, Entry(t, 0, p.balance, "ADMIN"))
               /\ q.balance = p.balance /\ q.status = "BLOCKED_ADMIN"
               /\ q.state = p.state /\ q.startTime = p.startTime
<1> DEFINE w == Written(p, t, 0, "ADMIN")
<1>1. /\ Typed(w)
      /\ w.log = BuildLogEntry(p.log, Entry(t, 0, p.balance, "ADMIN"))
      /\ w.balance = p.balance /\ w.state = p.state /\ w.startTime = p.startTime
  BY WrittenProperties DEF TxType
<1>2. ApplyBlockStatus(p, "BLOCKED_ADMIN", t) = [w EXCEPT !.status = "BLOCKED_ADMIN"]
  BY DEF ApplyBlockStatus
<1> HIDE DEF w
<1>3. QED BY <1>1, <1>2, Constructors DEF Typed, CardPayload

-----------------------------------------------------------------------------
(* Type correctness.                                                       *)

(* A device's clock reads a natural number.                                *)
LEMMA ClockType ==
    ASSUME TypeOK, NEW d \in Devices
    PROVE  Clock(d) \in (now - Skew)..(now + Skew)
<1>1. offset[d] \in -Skew..Skew /\ now \in Nat /\ Skew \in Nat
  BY LifecycleAssumption DEF TypeOK
<1>2. QED BY <1>1 DEF Clock

(* Clocks are integers, within Skew of the real time.                      *)
LEMMA ClockInt ==
    ASSUME TypeOK
    PROVE  /\ Clock("gate") \in Int /\ Clock("terminal") \in Int /\ Clock("station") \in Int
           /\ now \in Nat /\ Skew \in Nat
<1>1. now \in Nat /\ Skew \in Nat
  BY LifecycleAssumption DEF TypeOK
<1>2. \A d \in Devices : Clock(d) \in Int
  BY <1>1, ClockType
<1>3. QED BY <1>1, <1>2 DEF Devices

(* Writing a well typed card keeps the state well typed.                   *)
LEMMA WriteKeepsType ==
    ASSUME TypeOK, NEW d \in Devices, NEW p, Typed(p),
           WriteCard(d, p), enteredAt' \in Nat
    PROVE  TypeOK'
<1>1. local' \in [Devices -> LocalStatus]
  BY DEF TypeOK, WriteCard, LocalAfter, LocalStatus
<1>2. /\ card' \in CardPayload /\ Len(card'.log) <= LogSize
      /\ offset' = offset /\ now' = now
  BY DEF WriteCard, Typed
<1>3. QED BY <1>1, <1>2 DEF TypeOK

(* The initial state is well typed.                                        *)
LEMMA InitType == Init => TypeOK
<1> SUFFICES ASSUME Init PROVE TypeOK
  OBVIOUS
<1>1. PICK b \in Issued : card = NewCard(b)
  BY DEF Init
<1>2. b \in Int /\ Epoch \in Nat
  BY LifecycleAssumption, EngineAssumption DEF Epoch
<1>3. << >> \in Seq(LogEntry) /\ Len(<< >>) = 0
  OBVIOUS
<1>4. card \in CardPayload /\ Len(card.log) <= LogSize
  <2>1. "ACTIVE" \in CardStatus /\ "IDLE" \in CardState
    BY Constructors
  <2>2. card \in CardPayload
    BY <1>1, <1>2, <1>3, <2>1 DEF NewCard, CardPayload
  <2>3. card.log = << >>
    BY <1>1 DEF NewCard
  <2>4. QED BY <2>2, <2>3, EngineAssumption
<1>5. local \in [Devices -> LocalStatus]
  BY DEF Init, LocalStatus
<1>6. QED BY <1>2, <1>4, <1>5 DEF Init, TypeOK

(* Every step keeps the state well typed.                                  *)
LEMMA StepType == TypeOK /\ [Next]_vars => TypeOK'
<1> SUFFICES ASSUME TypeOK, [Next]_vars PROVE TypeOK'
  OBVIOUS
<1>0. Typed(card) /\ enteredAt \in Nat
  BY DEF TypeOK, Typed
<1>1. CASE GateCheckin
  <2>1. Typed(ApplyCheckin(card, Clock("gate")))
    BY <1>0, ClockInt, CheckinProperties
  <2>2. QED BY <1>1, <2>1, WriteKeepsType, ClockInt DEF GateCheckin, Devices
<1>2. CASE TerminalCheckout
  <2>1. Typed(ApplyCheckout(card, Clock("terminal")))
    BY <1>0, ClockInt, CheckoutProperties
  <2>2. QED BY <1>0, <1>2, <2>1, WriteKeepsType DEF TerminalCheckout, Devices
<1>3. ASSUME NEW d \in Devices, BlockWriteBack(d) PROVE TypeOK'
  <2>1. Typed(ApplyBlockStatus(card, "BLOCKED_ADMIN", Clock(d)))
    BY <1>0, <1>3, ClockInt, BlockProperties DEF Devices
  <2>2. QED BY <1>0, <1>3, <2>1, WriteKeepsType DEF BlockWriteBack
<1>4. ASSUME NEW a \in Amounts, StationTopup(a) PROVE TypeOK'
  <2>1. a \in Int
    BY LifecycleAssumption
  <2>2. Typed(ApplyTopup(card, a, Clock("station")))
    BY <1>0, <2>1, ClockInt, TopupProperties
  <2>3. QED BY <1>0, <1>4, <2>2, WriteKeepsType DEF StationTopup, Devices
<1>5. CASE StationReset
  <2>1. Typed(ApplyResetState(card, Clock("station")))
    BY <1>0, ClockInt, ResetProperties
  <2>2. QED BY <1>0, <1>5, <2>1, WriteKeepsType DEF StationReset, Devices
<1>6. ASSUME NEW d \in Devices, NEW s \in LocalChanges, ChangeLocalStatus(d, s) PROVE TypeOK'
  <2>1. s \in LocalStatus
    BY LifecycleAssumption DEF LocalStatus
  <2>2. QED BY <1>6, <2>1 DEF ChangeLocalStatus, TypeOK
<1>7. ASSUME NEW d \in Devices, NEW o \in -Skew..Skew, AdjustClock(d, o) PROVE TypeOK'
  BY <1>7 DEF AdjustClock, TypeOK
<1>8. CASE Tick
  BY <1>8 DEF Tick, TypeOK
<1>9. CASE UNCHANGED vars
  BY <1>9 DEF vars, TypeOK
<1>10. QED
  BY <1>1, <1>2, <1>3, <1>4, <1>5, <1>6, <1>7, <1>8, <1>9 DEF Next

(* Every reachable state is well typed: what a tap writes is again a card, *)
(* with a log of at most LogSize entries, whatever the clocks say.         *)
THEOREM TypeCorrect == Spec => []TypeOK
<1>1. QED BY InitType, StepType, PTL DEF Spec

-----------------------------------------------------------------------------
(* The log explains the balance.                                           *)

(* A log that explains its balance still does after an entry whose amount is *)
(* the change of the balance, even when the ring drops its oldest entry.   *)
LEMMA AppendExplains ==
    ASSUME NEW p, Typed(p), Explained(p), NEW q, NEW t \in Int, NEW a \in Int, NEW f \in TxType,
           q.log = BuildLogEntry(p.log, Entry(t, a, q.balance, f)),
           q.balance \in Int,
           q.balance = p.balance + SignedAmount(Entry(t, a, q.balance, f))
    PROVE  Explained(q)
<1> DEFINE e == Entry(t, a, q.balance, f)
           n == Len(p.log)
           m == Len(q.log)
           d == n + 1 - m
<1>1. e \in LogEntry /\ e.balanceAfter = q.balance
  BY DEF Entry, LogEntry
<1>2. p.log \in Seq(LogEntry) /\ n \in Nat /\ n <= LogSize
  BY DEF Typed, CardPayload
<1>3. /\ m \in 1..LogSize /\ q.log[m] = e
      /\ d \in {0, 1}
      /\ \A i \in 1..(m - 1) : q.log[i] = p.log[i + d]
  <2> DEFINE r == BuildLogEntry(p.log, e)
  <2>1. q.log = r
    OBVIOUS
  <2> HIDE DEF e
  <2>2. /\ Len(r) \in 1..LogSize /\ r[Len(r)] = e
        /\ Len(p.log) + 1 - Len(r) \in {0, 1}
        /\ \A i \in 1..(Len(r) - 1) : r[i] = p.log[i + (Len(p.log) + 1 - Len(r))]
    BY <1>1, <1>2, BuildLogEntryProperties
  <2> HIDE DEF r
  <2>3. QED BY <2>1, <2>2
<1>4. /\ \A i \in 1..(n - 1) : p.log[i+1].balanceAfter = p.log[i].balanceAfter + SignedAmount(p.log[i+1])
      /\ n > 0 => p.log[n].balanceAfter = p.balance
  BY <1>2 DEF Explained, Last
<1>5. q.balance = p.balance + SignedAmount(e)
  OBVIOUS
<1> HIDE DEF e
<1>6. LogSize \in Nat
  BY EngineAssumption
<1>7. m \in Nat /\ m > 0
  BY <1>3, <1>6
<1> HIDE DEF n, m
<1>8. ASSUME NEW i \in 1..(m - 1)
      PROVE  q.log[i+1].balanceAfter = q.log[i].balanceAfter + SignedAmount(q.log[i+1])
  <2>1. q.log[i] = p.log[i + d]
    BY <1>3
  <2>2. CASE i + 1 = m
    <3>1. i + d = n /\ n > 0
      BY <1>2, <1>3, <1>7, <2>2
    <3>2. q.log[i].balanceAfter = p.balance
      BY <2>1, <3>1, <1>4
    <3>3. QED BY <1>1, <1>3, <1>5, <2>2, <3>2
  <2>3. CASE i + 1 # m
    <3>1. i + 1 \in 1..(m - 1) /\ i + d \in 1..(n - 1) /\ (i + 1) + d = (i + d) + 1
      BY <1>2, <1>3, <1>7, <2>3
    <3>2. q.log[i + 1] = p.log[(i + d) + 1]
      BY <1>3, <3>1
    <3>3. QED BY <1>4, <2>1, <3>1, <3>2
  <2>4. QED BY <2>2, <2>3
<1>9. q.log[m].balanceAfter = q.balance
  BY <1>1, <1>3
<1>10. QED BY <1>7, <1>8, <1>9 DEF Explained, Last, m

(* The sign of the amount of each kind of entry.                           *)
LEMMA SignedAmounts ==
    ASSUME NEW t \in Int, NEW a \in Int, NEW b \in Int
    PROVE  /\ SignedAmount(Entry(t, 0, b, "CHECKIN")) = 0
           /\ SignedAmount(Entry(t, 0, b, "ADMIN")) = 0
           /\ SignedAmount(Entry(t, a, b, "CHECKOUT")) = -a
           /\ SignedAmount(Entry(t, a, b, "CREDIT")) = a
           /\ {"CHECKIN", "ADMIN", "CHECKOUT", "CREDIT"} \subseteq TxType
BY DEF SignedAmount, Entry, TxType

(* Every step keeps the log an explanation of the balance.                 *)
LEMMA StepExplains == TypeOK /\ Explained(card) /\ [Next]_vars => Explained(card)'
<1> SUFFICES ASSUME TypeOK, Explained(card), [Next]_vars PROVE Explained(card')
  BY DEF Explained, Last, SignedAmount
<1>0. Typed(card) /\ card.balance \in Int
  BY DEF TypeOK, Typed, CardPayload
<1>1. CASE GateCheckin
  <2> DEFINE t == Clock("gate")
             q == ApplyCheckin(card, t)
  <2>1. t \in Int /\ card' = q
    BY <1>1, ClockInt DEF GateCheckin, WriteCard
  <2> HIDE DEF t
  <2>2. q.log = BuildLogEntry(card.log, Entry(t, 0, card.balance, "CHECKIN")) /\ q.balance = card.balance
    BY <1>0, <2>1, CheckinProperties
  <2> HIDE DEF q
  <2>3. QED BY <1>0, <2>1, <2>2, AppendExplains, SignedAmounts
<1>2. CASE TerminalCheckout
  <2> DEFINE t == Clock("terminal")
             q == ApplyCheckout(card, t)
             fee == CalculateCheckoutFee(card, t)
  <2>1. t \in Int /\ card' = q
    BY <1>2, ClockInt DEF TerminalCheckout, WriteCard
  <2> HIDE DEF t
  <2>2. /\ fee \in Int
        /\ q.log = BuildLogEntry(card.log, Entry(t, fee, card.balance - fee, "CHECKOUT"))
        /\ q.balance = card.balance - fee
    BY <1>0, <2>1, CheckoutProperties, FeeType
  <2> HIDE DEF q, fee
  <2>3. QED BY <1>0, <2>1, <2>2, AppendExplains, SignedAmounts
<1>3. ASSUME NEW d \in Devices, BlockWriteBack(d) PROVE Explained(card')
  <2> DEFINE t == Clock(d)
             q == ApplyBlockStatus(card, "BLOCKED_ADMIN", t)
  <2>1. t \in Int /\ card' = q
    BY <1>3, ClockInt DEF BlockWriteBack, WriteCard, Devices
  <2> HIDE DEF t
  <2>2. q.log = BuildLogEntry(card.log, Entry(t, 0, card.balance, "ADMIN")) /\ q.balance = card.balance
    BY <1>0, <2>1, BlockProperties
  <2> HIDE DEF q
  <2>3. QED BY <1>0, <2>1, <2>2, AppendExplains, SignedAmounts
<1>4. ASSUME NEW a \in Amounts, StationTopup(a) PROVE Explained(card')
  <2> DEFINE t == Clock("station")
             q == ApplyTopup(card, a, t)
  <2>1. a \in Int /\ t \in Int /\ card' = q
    BY <1>4, ClockInt, LifecycleAssumption DEF StationTopup, WriteCard
  <2> HIDE DEF t
  <2>2. q.log = BuildLogEntry(card.log, Entry(t, a, card.balance + a, "CREDIT")) /\ q.balance = card.balance + a
    BY <1>0, <2>1, TopupProperties
  <2> HIDE DEF q
  <2>3. QED BY <1>0, <2>1, <2>2, AppendExplains, SignedAmounts
<1>5. CASE StationReset
  <2> DEFINE t == Clock("station")
             q == ApplyResetState(card, t)
  <2>1. t \in Int /\ card' = q
    BY <1>5, ClockInt DEF StationReset, WriteCard
  <2> HIDE DEF t
  <2>2. q.log = BuildLogEntry(card.log, Entry(t, 0, card.balance, "ADMIN")) /\ q.balance = card.balance
    BY <1>0, <2>1, ResetProperties
  <2> HIDE DEF q
  <2>3. QED BY <1>0, <2>1, <2>2, AppendExplains, SignedAmounts
<1>6. CASE card' = card
  BY <1>6
<1>7. QED
  BY <1>1, <1>2, <1>3, <1>4, <1>5, <1>6 DEF Next, ChangeLocalStatus, AdjustClock, Tick, vars

(* A newly issued card has a log that explains its balance.                *)
LEMMA InitExplains == Init => Explained(card)
BY DEF Init, NewCard, Explained

(* Whatever the order of taps and blocks and however far the clocks are    *)
(* apart, the log on the card accounts for the balance on the card.        *)
THEOREM LogExplains == Spec => []LogExplainsBalance
<1>1. QED
  BY InitType, StepType, InitExplains, StepExplains, PTL DEF Spec, LogExplainsBalance

-----------------------------------------------------------------------------
(* The newest session entry of a log, if only top-ups came after it, tells *)
(* what the card says of the session.                                      *)
Newest(p, i) ==
    /\ p.log[i].flags \in {"CHECKIN", "CHECKOUT"}
    /\ \A j \in (i+1)..Len(p.log) : p.log[j].flags = "CREDIT"

Tells(p, e) ==
    /\ (e.flags = "CHECKIN") <=> (p.state = "CHECKED_IN")
    /\ e.flags = "CHECKIN" => p.startTime = e.timestamp
    /\ e.flags = "CHECKOUT" => p.endTime = e.timestamp

Matches(p) == \A i \in 1..Len(p.log) : Newest(p, i) => Tells(p, p.log[i])

(* A session entry appended with the session it tells of.                  *)
LEMMA SessionEntryMatches ==
    ASSUME NEW p, Typed(p), NEW q, NEW e \in LogEntry, q.log = BuildLogEntry(p.log, e),
           e.flags # "CREDIT", e.flags \in {"CHECKIN", "CHECKOUT"} => Tells(q, e)
    PROVE  Matches(q)
<1>1. p.log \in Seq(LogEntry) /\ Len(p.log) <= LogSize
  BY DEF Typed, CardPayload
<1>2. Len(q.log) \in 1..LogSize /\ q.log[Len(q.log)] = e
  <2> DEFINE r == BuildLogEntry(p.log, e)
  <2>1. Len(r) \in 1..LogSize /\ r[Len(r)] = e
    BY <1>1, BuildLogEntryProperties
  <2> HIDE DEF r
  <2>2. q.log = r BY DEF r
  <2>3. QED BY <2>1, <2>2
<1>3. LogSize \in Nat
  BY EngineAssumption
<1>4. SUFFICES ASSUME NEW i \in 1..Len(q.log), Newest(q, i) PROVE Tells(q, q.log[i])
  BY DEF Matches
<1>5. i = Len(q.log)
  <2>1. SUFFICES ASSUME i # Len(q.log) PROVE FALSE
    OBVIOUS
  <2>2. Len(q.log) \in (i+1)..Len(q.log)
    BY <1>2, <1>3, <2>1
  <2>3. q.log[Len(q.log)].flags = "CREDIT"
    BY <1>4, <2>2 DEF Newest
  <2>4. QED BY <1>2, <2>3
<1>6. QED BY <1>2, <1>4, <1>5 DEF Newest

(* A top-up leaves session and newest session entry as they were.          *)
LEMMA TopupMatches ==
    ASSUME NEW p, Typed(p), Matches(p), NEW q, NEW e \in LogEntry, q.log = BuildLogEntry(p.log, e),
           e.flags = "CREDIT",
           q.state = p.state, q.startTime = p.startTime, q.endTime = p.endTime
    PROVE  Matches(q)
<1> DEFINE n == Len(p.log)
           m == Len(q.log)
           d == n + 1 - m
<1>1. p.log \in Seq(LogEntry) /\ n \in Nat /\ n <= LogSize /\ LogSize \in Nat
  BY EngineAssumption DEF Typed, CardPayload
<1>2. /\ m \in 1..LogSize /\ q.log[m] = e /\ d \in {0, 1}
      /\ \A i \in 1..(m - 1) : q.log[i] = p.log[i + d]
  <2> DEFINE r == BuildLogEntry(p.log, e)
  <2>1. /\ Len(r) \in 1..LogSize /\ r[Len(r)] = e
        /\ Len(p.log) + 1 - Len(r) \in {0, 1}
        /\ \A i \in 1..(Len(r) - 1) : r[i] = p.log[i + (Len(p.log) + 1 - Len(r))]
    BY <1>1, BuildLogEntryProperties
  <2> HIDE DEF r
  <2>2. q.log = r BY DEF r
  <2>3. QED BY <2>1, <2>2
<1>3. m \in Nat /\ m > 0
  BY <1>1, <1>2
<1>4. SUFFICES ASSUME NEW i \in 1..m, Newest(q, i) PROVE Tells(q, q.log[i])
  BY DEF Matches
<1>n. Newest(q, i)
  BY <1>4
<1>i. i \in 1..m
  BY <1>4
<1> HIDE DEF n, m
<1>5. i \in 1..(m - 1) /\ q.log[i] = p.log[i + d] /\ i + d \in 1..n
  <2>1. i # m
    BY <1>2, <1>n DEF Newest
  <2>2. i \in 1..(m - 1) /\ i + d \in 1..n
    BY <1>1, <1>2, <1>3, <1>i, <2>1
  <2>3. QED BY <1>2, <2>2
<1>6. Newest(p, i + d)
  <2>1. ASSUME NEW j \in (i + d + 1)..n PROVE p.log[j].flags = "CREDIT"
    <3>1. j - d \in (i+1)..m /\ j - d \in 1..(m - 1) /\ (j - d) + d = j
      BY <1>1, <1>2, <1>3, <1>5
    <3>2. q.log[j - d].flags = "CREDIT"
      BY <1>n, <3>1 DEF Newest, m
    <3>3. QED BY <1>2, <3>1, <3>2
  <2>2. QED BY <1>n, <1>5, <2>1 DEF Newest, n
<1>7. QED BY <1>5, <1>6 DEF Matches, Tells, n

(* Every step keeps log and session in agreement.                          *)
LEMMA StepMatches == TypeOK /\ Matches(card) /\ [Next]_vars => Matches(card)'
<1> SUFFICES ASSUME TypeOK, Matches(card), [Next]_vars PROVE Matches(card')
  BY DEF Matches, Newest, Tells
<1>0. Typed(card) /\ card.balance \in Int
  BY DEF TypeOK, Typed, CardPayload
<1>e. \A t, a, b \in Int, f \in TxType :
         /\ Entry(t, a, b, f) \in LogEntry
         /\ Entry(t, a, b, f).flags = f /\ Entry(t, a, b, f).timestamp = t
  BY DEF Entry, LogEntry
<1>1. CASE GateCheckin
  <2> DEFINE t == Clock("gate")
             q == ApplyCheckin(card, t)
             e == Entry(t, 0, card.balance, "CHECKIN")
  <2>1. t \in Int /\ card' = q
    BY <1>1, ClockInt DEF GateCheckin, WriteCard
  <2> HIDE DEF t
  <2>2. q.log = BuildLogEntry(card.log, e) /\ q.state = "CHECKED_IN" /\ q.startTime = t
    BY <1>0, <2>1, CheckinProperties
  <2>3. e \in LogEntry /\ e.flags = "CHECKIN" /\ e.timestamp = t
    BY <1>0, <1>e, <2>1 DEF TxType
  <2> HIDE DEF q, e
  <2>4. QED BY <1>0, <2>1, <2>2, <2>3, SessionEntryMatches DEF Tells
<1>2. CASE TerminalCheckout
  <2> DEFINE t == Clock("terminal")
             q == ApplyCheckout(card, t)
             fee == CalculateCheckoutFee(card, t)
             e == Entry(t, fee, card.balance - fee, "CHECKOUT")
  <2>1. t \in Int /\ card' = q
    BY <1>2, ClockInt DEF TerminalCheckout, WriteCard
  <2> HIDE DEF t
  <2>2. fee \in Int /\ q.log = BuildLogEntry(card.log, e) /\ q.state = "CHECKED_OUT" /\ q.endTime = t
    BY <1>0, <2>1, CheckoutProperties, FeeType
  <2> HIDE DEF fee
  <2>3. e \in LogEntry /\ e.flags = "CHECKOUT" /\ e.timestamp = t
    BY SMTT(30), <1>0, <1>e, <2>1, <2>2 DEF TxType
  <2> HIDE DEF q, e
  <2>4. QED BY <1>0, <2>1, <2>2, <2>3, SessionEntryMatches DEF Tells
<1>3. ASSUME NEW d \in Devices, BlockWriteBack(d) PROVE Matches(card')
  <2> DEFINE t == Clock(d)
             q == ApplyBlockStatus(card, "BLOCKED_ADMIN", t)
             e == Entry(t, 0, card.balance, "ADMIN")
  <2>1. t \in Int /\ card' = q
    BY <1>3, ClockInt DEF BlockWriteBack, WriteCard, Devices
  <2> HIDE DEF t
  <2>2. q.log = BuildLogEntry(card.log, e)
    BY <1>0, <2>1, BlockProperties
  <2>3. e \in LogEntry /\ e.flags = "ADMIN"
    BY <1>0, <1>e, <2>1 DEF TxType
  <2> HIDE DEF q, e
  <2>4. QED BY <1>0, <2>1, <2>2, <2>3, SessionEntryMatches
<1>4. ASSUME NEW a \in Amounts, StationTopup(a) PROVE Matches(card')
  <2> DEFINE t == Clock("station")
             q == ApplyTopup(card, a, t)
             e == Entry(t, a, card.balance + a, "CREDIT")
  <2>1. a \in Int /\ t \in Int /\ card' = q
    BY <1>4, ClockInt, LifecycleAssumption DEF StationTopup, WriteCard
  <2> HIDE DEF t
  <2>2. /\ q.log = BuildLogEntry(card.log, e)
        /\ q.state = card.state /\ q.startTime = card.startTime /\ q.endTime = card.endTime
    BY <1>0, <2>1, TopupProperties
  <2>3. e \in LogEntry /\ e.flags = "CREDIT"
    BY SMTT(30), <1>0, <1>e, <2>1 DEF TxType
  <2> HIDE DEF q, e
  <2>4. QED BY <1>0, <2>1, <2>2, <2>3, TopupMatches
<1>5. CASE StationReset
  <2> DEFINE t == Clock("station")
             q == ApplyResetState(card, t)
             e == Entry(t, 0, card.balance, "ADMIN")
  <2>1. t \in Int /\ card' = q
    BY <1>5, ClockInt DEF StationReset, WriteCard
  <2> HIDE DEF t
  <2>2. q.log = BuildLogEntry(card.log, e)
    BY <1>0, <2>1, ResetProperties
  <2>3. e \in LogEntry /\ e.flags = "ADMIN"
    BY <1>0, <1>e, <2>1 DEF TxType
  <2> HIDE DEF q, e
  <2>4. QED BY <1>0, <2>1, <2>2, <2>3, SessionEntryMatches
<1>6. CASE card' = card
  BY <1>6
<1>7. QED
  BY <1>1, <1>2, <1>3, <1>4, <1>5, <1>6 DEF Next, ChangeLocalStatus, AdjustClock, Tick, vars

(* A newly issued card has an empty log.                                   *)
LEMMA InitMatches == Init => Matches(card)
BY DEF Init, NewCard, Matches

(* Whatever is topped up, blocked and reset in between, and however many   *)
(* entries the ring has dropped, the newest session entry of the log and   *)
(* the card's state tell the same session, with the same time.             *)
THEOREM SessionMatches == Spec => []SessionMatchesLog
<1>1. Matches(card) => SessionMatchesLog
  BY DEF Matches, Newest, Tells, SessionMatchesLog
<1>2. QED
  BY <1>1, InitType, StepType, InitMatches, StepMatches, PTL DEF Spec

-----------------------------------------------------------------------------
(* The session on the card, and the fee taken for it.  SessionInv is what  *)
(* a tap leaves behind: STATION_OPERATION is never entered, and the start  *)
(* of a session lies within Skew of the real time of the check-in.         *)

SessionInv ==
    /\ card.state \in {"IDLE", "CHECKED_IN", "CHECKED_OUT"}
    /\ enteredAt <= now
    /\ card.state = "CHECKED_IN" => card.startTime \in (enteredAt - Skew)..(enteredAt + Skew)

(* Every step keeps the session invariant.                                 *)
LEMMA StepSession == TypeOK /\ SessionInv /\ [Next]_vars => SessionInv'
<1> SUFFICES ASSUME TypeOK, SessionInv, [Next]_vars PROVE SessionInv'
  OBVIOUS
<1>0. /\ Typed(card) /\ enteredAt \in Nat /\ now \in Nat /\ Skew \in Nat
      /\ \A d \in Devices : Clock(d) \in Int
  BY ClockInt DEF TypeOK, Typed, Devices
<1>1. CASE GateCheckin
  <2>1. /\ card'.state = "CHECKED_IN" /\ card'.startTime = Clock("gate")
        /\ enteredAt' = now /\ now' = now
    BY <1>0, <1>1, CheckinProperties DEF GateCheckin, WriteCard, Devices
  <2>2. Clock("gate") \in (now - Skew)..(now + Skew)
    BY ClockType DEF Devices
  <2>3. QED BY <1>0, <2>1, <2>2 DEF SessionInv
<1>2. CASE TerminalCheckout
  <2>1. card'.state = "CHECKED_OUT" /\ enteredAt' = enteredAt /\ now' = now
    BY <1>0, <1>2, CheckoutProperties DEF TerminalCheckout, WriteCard, Devices
  <2>2. QED BY <2>1 DEF SessionInv
<1>3. ASSUME NEW d \in Devices, BlockWriteBack(d) PROVE SessionInv'
  <2>1. /\ card'.state = card.state /\ card'.startTime = card.startTime
        /\ enteredAt' = enteredAt /\ now' = now
    BY <1>0, <1>3, BlockProperties DEF BlockWriteBack, WriteCard
  <2>2. QED BY <2>1 DEF SessionInv
<1>4. ASSUME NEW a \in Amounts, StationTopup(a) PROVE SessionInv'
  <2>1. a \in Int
    BY LifecycleAssumption
  <2>2. /\ card'.state = card.state /\ card'.startTime = card.startTime
        /\ enteredAt' = enteredAt /\ now' = now
    BY <1>0, <1>4, <2>1, TopupProperties DEF StationTopup, WriteCard, Devices
  <2>3. QED BY <2>2 DEF SessionInv
<1>5. CASE StationReset
  <2>1. card'.state = "IDLE" /\ enteredAt' = enteredAt /\ now' = now
    BY <1>0, <1>5, ResetProperties DEF StationReset, WriteCard, Devices
  <2>2. QED BY <2>1 DEF SessionInv
<1>6. CASE Tick
  BY <1>0, <1>6 DEF Tick, SessionInv
<1>7. CASE UNCHANGED <<card, now, enteredAt>>
  BY <1>7 DEF SessionInv
<1>8. QED
  BY <1>1, <1>2, <1>3, <1>4, <1>5, <1>6, <1>7 DEF Next, ChangeLocalStatus, AdjustClock, vars

(* The initial state satisfies the session invariant.                      *)
LEMMA InitSession == Init => SessionInv
<1>1. Epoch \in Nat
  BY LifecycleAssumption DEF Epoch
<1>2. QED BY <1>1 DEF Init, NewCard, SessionInv

(* What the terminal knows when it checks a card out.                      *)
LEMMA CheckoutFacts ==
    ASSUME TypeOK, SessionInv, TerminalCheckout
    PROVE  LET t     == Clock("terminal")
               hours == CeilDiv(t - card.startTime, Hour)
               stay  == now - enteredAt
           IN  /\ hours \in Int
               /\ hours * Hour >= stay - 2 * Skew
               /\ hours * Hour < stay + 2 * Skew + Hour
               /\ stay \in Nat
               /\ card.state = "CHECKED_IN"
               /\ card'.state = "CHECKED_OUT" /\ card'.status = card.status
               /\ card'.balance = card.balance - hours * Rate
               /\ card'.balance >= MinAfterCheckout
<1> DEFINE t == Clock("terminal")
           hours == CeilDiv(t - card.startTime, Hour)
           stay == now - enteredAt
<1>0. /\ Typed(card) /\ enteredAt \in Nat /\ now \in Nat /\ Skew \in Nat
      /\ t \in Int /\ card.startTime \in Int /\ Hour \in Nat \ {0} /\ card.balance \in Int
  BY ClockInt, EngineAssumption DEF TypeOK, Typed, CardPayload
<1>1. t \in (now - Skew)..(now + Skew)
  BY ClockType DEF Devices
<1>2. card.state = "CHECKED_IN"
  BY DEF TerminalCheckout, SessionInv
<1>3. card.startTime \in (enteredAt - Skew)..(enteredAt + Skew)
  BY <1>2 DEF SessionInv
<1>4. stay \in Nat
  BY <1>0 DEF SessionInv
<1> HIDE DEF t
<1>5. /\ t - card.startTime \in Int
      /\ t - card.startTime >= stay - 2 * Skew
      /\ t - card.startTime <= stay + 2 * Skew
  BY <1>0, <1>1, <1>3
<1> DEFINE a == t - card.startTime
<1> HIDE DEF a
<1>6. /\ CeilDiv(a, Hour) \in Int /\ CeilDiv(a, Hour) * Hour >= a
      /\ CeilDiv(a, Hour) * Hour < a + Hour
  BY <1>0, <1>5, CeilDivBounds DEF a
<1>7. hours \in Int /\ hours * Hour >= a /\ hours * Hour < a + Hour
  BY <1>6 DEF a
<1>8. CalculateCheckoutFee(card, t) = hours * Rate
  BY DEF CalculateCheckoutFee
<1>9. /\ card'.state = "CHECKED_OUT" /\ card'.status = card.status
      /\ card'.balance = card.balance - hours * Rate
  <2> DEFINE q   == ApplyCheckout(card, t)
             fee == CalculateCheckoutFee(card, t)
  <2>1. card' = q
    BY DEF TerminalCheckout, WriteCard, t
  <2>2. q.state = "CHECKED_OUT" /\ q.status = card.status /\ q.balance = card.balance - fee
    BY <1>0, CheckoutProperties
  <2> HIDE DEF q, fee
  <2>3. card'.state = "CHECKED_OUT" /\ card'.status = card.status
        /\ card'.balance = card.balance - fee
    BY <2>1, <2>2
  <2>4. QED BY <1>8, <2>3 DEF fee
<1>10. card.balance - hours * Rate >= MinAfterCheckout
  BY <1>8 DEF TerminalCheckout, CheckoutSufficient, t
<1> DEFINE hh == hours * Hour
<1>11. hh \in Int /\ hh >= a /\ hh < a + Hour
  BY <1>0, <1>7
<1> HIDE DEF hours, stay
<1>12. hours * Hour >= stay - 2 * Skew /\ hours * Hour < stay + 2 * Skew + Hour
  <2> HIDE DEF hh
  <2>1. hh >= stay - 2 * Skew /\ hh < stay + 2 * Skew + Hour
    BY <1>0, <1>4, <1>5, <1>11 DEF a
  <2>2. QED BY <2>1 DEF hh
<1>13. QED BY <1>2, <1>4, <1>7, <1>9, <1>10, <1>12 DEF hours, stay, t

(* With clocks less than an hour apart, no stay is charged negative hours. *)
LEMMA HoursNat ==
    ASSUME TypeOK, SessionInv, TerminalCheckout, 2 * Skew < Hour
    PROVE  CeilDiv(Clock("terminal") - card.startTime, Hour) \in Nat
<1> DEFINE hours == CeilDiv(Clock("terminal") - card.startTime, Hour)
<1>1. /\ hours \in Int /\ hours * Hour >= (now - enteredAt) - 2 * Skew
      /\ now - enteredAt \in Nat
  BY CheckoutFacts
<1> HIDE DEF hours
<1>2. Hour \in Nat \ {0} /\ Skew \in Nat
  BY EngineAssumption, LifecycleAssumption
<1>3. hours * Hour > -Hour
  BY <1>1, <1>2
<1>4. hours > -1
  BY <1>1, <1>2, <1>3
<1>5. QED BY <1>1, <1>4 DEF hours

(* A checkout that the balance covers leaves a balance within the limits.  *)
LEMMA CheckoutBalance ==
    ASSUME TypeOK, SessionInv, TerminalCheckout, 2 * Skew < Hour
    PROVE  \E hours \in 0..card.balance :
              hours * Rate <= card.balance /\ card'.balance = card.balance - hours * Rate
<1> DEFINE hours == CeilDiv(Clock("terminal") - card.startTime, Hour)
<1>1. hours \in Nat
  BY HoursNat
<1>2. card'.balance = card.balance - hours * Rate /\ card'.balance >= MinAfterCheckout
  BY CheckoutFacts
<1> HIDE DEF hours
<1>3. card.balance \in Int /\ Rate \in Nat \ {0} /\ MinAfterCheckout \in Nat
  BY EngineAssumption DEF TypeOK, CardPayload
<1>4. hours * Rate \in Nat /\ hours * Rate >= hours
  BY <1>1, <1>3
<1>5. hours * Rate <= card.balance
  BY <1>2, <1>3, <1>4
<1>6. hours \in 0..card.balance
  BY <1>1, <1>3, <1>4, <1>5
<1>7. QED BY <1>2, <1>5, <1>6

(* Every step keeps the balance within its limits.                         *)
LEMMA StepLimits ==
    ASSUME 2 * Skew < Hour
    PROVE  TypeOK /\ SessionInv /\ BalanceWithinLimits /\ [Next]_vars => BalanceWithinLimits'
<1> SUFFICES ASSUME TypeOK, SessionInv, BalanceWithinLimits, [Next]_vars PROVE BalanceWithinLimits'
  OBVIOUS
<1>0. /\ Typed(card) /\ card.balance \in Int
      /\ MaxBalance \in Nat /\ Rate \in Nat \ {0} /\ MinTopup \in Nat
      /\ \A d \in Devices : Clock(d) \in Int
  BY ClockInt, EngineAssumption DEF TypeOK, Typed, CardPayload, Devices
<1>1. CASE GateCheckin
  <2>1. card'.balance = card.balance
    BY <1>0, <1>1, CheckinProperties DEF GateCheckin, WriteCard, Devices
  <2>2. QED BY <2>1 DEF BalanceWithinLimits
<1>2. CASE TerminalCheckout
  <2>1. PICK hours \in 0..card.balance :
           hours * Rate <= card.balance /\ card'.balance = card.balance - hours * Rate
    BY <1>2, CheckoutBalance
  <2> DEFINE fee == hours * Rate
  <2>2. fee \in Nat /\ fee <= card.balance /\ card'.balance = card.balance - fee
    BY <1>0, <2>1
  <2> HIDE DEF fee
  <2>3. QED BY <1>0, <2>2 DEF BalanceWithinLimits
<1>3. ASSUME NEW d \in Devices, BlockWriteBack(d) PROVE BalanceWithinLimits'
  <2>1. card'.balance = card.balance
    BY <1>0, <1>3, BlockProperties DEF BlockWriteBack, WriteCard
  <2>2. QED BY <2>1 DEF BalanceWithinLimits
<1>4. ASSUME NEW a \in Amounts, StationTopup(a) PROVE BalanceWithinLimits'
  <2>1. a \in Int /\ a >= MinTopup /\ card.balance + a <= MaxBalance
    BY <1>4, LifecycleAssumption DEF StationTopup, ValidateTopup
  <2>2. card'.balance = card.balance + a
    BY <1>0, <1>4, <2>1, TopupProperties DEF StationTopup, WriteCard, Devices
  <2>3. QED BY <1>0, <2>1, <2>2 DEF BalanceWithinLimits
<1>5. CASE StationReset
  <2>1. card'.balance = card.balance
    BY <1>0, <1>5, ResetProperties DEF StationReset, WriteCard, Devices
  <2>2. QED BY <2>1 DEF BalanceWithinLimits
<1>6. CASE card' = card
  BY <1>6 DEF BalanceWithinLimits
<1>7. QED
  BY <1>1, <1>2, <1>3, <1>4, <1>5, <1>6 DEF Next, ChangeLocalStatus, AdjustClock, Tick, vars

(* A newly issued card has a balance within its limits.                    *)
LEMMA InitLimits == Init => BalanceWithinLimits
<1> SUFFICES ASSUME Init PROVE BalanceWithinLimits
  OBVIOUS
<1>1. PICK b \in Issued : card = NewCard(b)
  BY DEF Init
<1>2. b \in 0..MaxBalance /\ card.balance = b
  BY <1>1, LifecycleAssumption DEF NewCard
<1>3. QED BY <1>2, EngineAssumption DEF BalanceWithinLimits

(* If no two device clocks are an hour or more apart, the balance stays    *)
(* between zero and MaxBalance.  The hypothesis is needed: without it a    *)
(* checkout can charge a negative fee.                                     *)
THEOREM BalanceLimits == ASSUME 2 * Skew < Hour PROVE Spec => []BalanceWithinLimits
<1>1. TypeOK /\ SessionInv /\ BalanceWithinLimits /\ [Next]_vars => BalanceWithinLimits'
  BY StepLimits
<1>2. QED
  BY <1>1, InitType, StepType, InitSession, StepSession, InitLimits, PTL DEF Spec

-----------------------------------------------------------------------------
(* The fee follows the stay.                                               *)

(* Comparing hours with a stay, multiplied out.                            *)
LEMMA Scale ==
    ASSUME NEW x \in Int, NEW y \in Int, NEW r \in Nat \ {0}
    PROVE  (x <= y => r * x <= r * y) /\ (x < y => r * x < r * y)
OBVIOUS

(* Every step charges a checkout for its stay and nothing else.            *)
LEMMA StepFee ==
    TypeOK /\ SessionInv /\ [Next]_vars
      => (IsCheckout => /\ Charged * Hour >= Rate * (Stay - 2 * Skew)
                        /\ Charged * Hour <  Rate * (Stay + 2 * Skew + Hour))
<1> SUFFICES ASSUME TypeOK, SessionInv, [Next]_vars, IsCheckout
             PROVE  /\ Charged * Hour >= Rate * (Stay - 2 * Skew)
                    /\ Charged * Hour <  Rate * (Stay + 2 * Skew + Hour)
  OBVIOUS
<1>0. /\ Typed(card) /\ card.balance \in Int /\ card.state = "CHECKED_IN"
      /\ card'.state = "CHECKED_OUT"
      /\ \A d \in Devices : Clock(d) \in Int
  BY ClockInt DEF TypeOK, Typed, CardPayload, Devices, IsCheckout
<1>1. CASE GateCheckin
  BY <1>0, <1>1, CheckinProperties DEF GateCheckin, WriteCard, Devices
<1>2. CASE TerminalCheckout
  <2> DEFINE hours == CeilDiv(Clock("terminal") - card.startTime, Hour)
  <2>1. /\ hours \in Int
        /\ hours * Hour >= Stay - 2 * Skew
        /\ hours * Hour < Stay + 2 * Skew + Hour
        /\ Stay \in Nat
        /\ card'.balance = card.balance - hours * Rate
    BY <1>2, CheckoutFacts DEF Stay
  <2> HIDE DEF hours
  <2>2. Rate \in Nat \ {0} /\ Hour \in Nat \ {0} /\ Skew \in Nat
    BY EngineAssumption, LifecycleAssumption
  <2> DEFINE h == hours * Hour
             low == Stay - 2 * Skew
             high == Stay + 2 * Skew + Hour
  <2>3. h \in Int /\ low \in Int /\ high \in Int /\ low <= h /\ h < high
    BY <2>1, <2>2
  <2>4. Charged * Hour = Rate * h
    <3>1. hours * Rate \in Int /\ Charged = hours * Rate
      BY <1>0, <2>1, <2>2 DEF Charged
    <3>2. (hours * Rate) * Hour = Rate * (hours * Hour)
      BY <2>1, <2>2
    <3>3. QED BY <3>1, <3>2
  <2> HIDE DEF h, low, high
  <2>5. Rate * low <= Rate * h /\ Rate * h < Rate * high
    BY <2>2, <2>3, Scale
  <2>6. QED BY <2>4, <2>5 DEF low, high
<1>3. ASSUME NEW d \in Devices, BlockWriteBack(d) PROVE FALSE
  BY <1>0, <1>3, BlockProperties DEF BlockWriteBack, WriteCard
<1>4. ASSUME NEW a \in Amounts, StationTopup(a) PROVE FALSE
  <2>1. a \in Int
    BY LifecycleAssumption
  <2>2. QED BY <1>0, <1>4, <2>1, TopupProperties DEF StationTopup, WriteCard, Devices
<1>5. CASE StationReset
  BY <1>0, <1>5, ResetProperties DEF StationReset, WriteCard, Devices
<1>6. CASE card' = card
  BY <1>0, <1>6
<1>7. QED
  BY <1>1, <1>2, <1>3, <1>4, <1>5, <1>6 DEF Next, ChangeLocalStatus, AdjustClock, Tick, vars

(* The charge of every checkout lies within the stay shortened and the     *)
(* stay lengthened by the two clocks' error, plus one started hour; no     *)
(* assumption on the clocks is needed, and no other step charges a fee.    *)
THEOREM FeeFollows == Spec => FeeFollowsStay
<1>1. QED
  BY InitType, StepType, InitSession, StepSession, StepFee, PTL DEF Spec, FeeFollowsStay

-----------------------------------------------------------------------------
(* The card implements the purse.                                          *)

(* A newly issued card is a new purse.                                     *)
LEMMA InitPurse == Init => Purse!Init
<1> SUFFICES ASSUME Init PROVE Purse!Init
  OBVIOUS
<1>1. PICK b \in Issued : card = NewCard(b)
  BY DEF Init
<1>2. card.balance \in 0..MaxBalance
  BY <1>1, LifecycleAssumption DEF NewCard
<1>3. (card.state = "CHECKED_IN") = FALSE /\ (card.status # "ACTIVE") = FALSE
  BY <1>1 DEF NewCard
<1>4. QED BY <1>2, <1>3 DEF Purse!Init

(* Every step of the card is a step of the purse or leaves the purse alone. *)
LEMMA StepPurse ==
    ASSUME 2 * Skew < Hour
    PROVE  TypeOK /\ SessionInv /\ BalanceWithinLimits /\ [Next]_vars => [Purse!Next]_(Purse!purse)
<1> SUFFICES ASSUME TypeOK, SessionInv, BalanceWithinLimits, [Next]_vars
             PROVE  [Purse!Next]_(Purse!purse)
  OBVIOUS
<1>0. /\ Typed(card) /\ card.balance \in Int
      /\ MaxBalance \in Nat /\ MinTopup \in Nat \ {0}
      /\ \A d \in Devices : Clock(d) \in Int
  BY ClockInt, EngineAssumption DEF TypeOK, Typed, CardPayload, Devices
<1>1. CASE GateCheckin
  <2>1. /\ card'.balance = card.balance /\ card'.status = card.status
        /\ card'.state = "CHECKED_IN"
    BY <1>0, <1>1, CheckinProperties DEF GateCheckin, WriteCard, Devices
  <2>2. /\ card.status = "ACTIVE" /\ card.balance >= MinBeforeCheckin
        /\ "gate_checkin" \in TransitionTriggers(card.state)
    BY <1>1 DEF GateCheckin, ValidateTransition
  <2>3. card.state # "CHECKED_IN"
    BY <2>2 DEF TransitionTriggers
  <2>4. Purse!Enter
    BY <2>1, <2>2, <2>3 DEF Purse!Enter
  <2>5. QED BY <2>4 DEF Purse!Next
<1>2. CASE TerminalCheckout
  <2>1. /\ card.state = "CHECKED_IN" /\ card'.state = "CHECKED_OUT" /\ card'.status = card.status
    BY <1>2, CheckoutFacts
  <2>2. \E hours \in 0..card.balance :
           hours * Rate <= card.balance /\ card'.balance = card.balance - hours * Rate
    BY <1>2, CheckoutBalance
  <2>3. card.status = "ACTIVE"
    BY <1>2 DEF TerminalCheckout, ValidateTransition
  <2>4. Purse!Leave
    BY <2>1, <2>2, <2>3 DEF Purse!Leave
  <2>5. QED BY <2>4 DEF Purse!Next
<1>3. ASSUME NEW d \in Devices, BlockWriteBack(d) PROVE [Purse!Next]_(Purse!purse)
  <2>1. /\ card'.balance = card.balance /\ card'.state = card.state
        /\ card'.status = "BLOCKED_ADMIN" /\ card.status = "ACTIVE"
    BY <1>0, <1>3, BlockProperties DEF BlockWriteBack, WriteCard
  <2>2. Purse!Freeze
    BY <2>1 DEF Purse!Freeze
  <2>3. QED BY <2>2 DEF Purse!Next
<1>4. ASSUME NEW a \in Amounts, StationTopup(a) PROVE [Purse!Next]_(Purse!purse)
  <2>1. a \in Int /\ a >= MinTopup /\ card.balance + a <= MaxBalance
    BY <1>4, LifecycleAssumption DEF StationTopup, ValidateTopup
  <2>2. /\ card'.balance = card.balance + a /\ card'.state = card.state
        /\ card'.status = card.status
    BY <1>0, <1>4, <2>1, TopupProperties DEF StationTopup, WriteCard, Devices
  <2>3. card'.balance \in (card.balance + 1)..MaxBalance
    BY <1>0, <2>1, <2>2
  <2>4. Purse!Add
    BY <2>2, <2>3 DEF Purse!Add
  <2>5. QED BY <2>4 DEF Purse!Next
<1>5. CASE StationReset
  <2>1. card'.balance = card.balance /\ card'.state = "IDLE" /\ card'.status = "ACTIVE"
    BY <1>0, <1>5, ResetProperties DEF StationReset, WriteCard, Devices
  <2>2. Purse!Reset
    BY <2>1 DEF Purse!Reset
  <2>3. QED BY <2>2 DEF Purse!Next
<1>6. CASE card' = card
  BY <1>6 DEF Purse!purse
<1>7. QED
  BY <1>1, <1>2, <1>3, <1>4, <1>5, <1>6 DEF Next, ChangeLocalStatus, AdjustClock, Tick, vars

(* Read through its balance, session and status, the card behaves as the   *)
(* abstract purse: whole hours are charged on leaving and at no other      *)
(* time, and neither gate nor terminal moves a blocked card.               *)
THEOREM Refinement == ASSUME 2 * Skew < Hour PROVE Spec => RefinesPurse
<1>1. TypeOK /\ SessionInv /\ BalanceWithinLimits /\ [Next]_vars => BalanceWithinLimits'
  BY StepLimits
<1>2. TypeOK /\ SessionInv /\ BalanceWithinLimits /\ [Next]_vars => [Purse!Next]_(Purse!purse)
  BY StepPurse
<1>3. QED
  BY <1>1, <1>2, InitType, StepType, InitSession, StepSession, InitLimits, InitPurse, PTL
     DEF Spec, RefinesPurse, Purse!Spec

-----------------------------------------------------------------------------
(* CardWire: what fits the fields of the chip.                             *)

(* An entry of a log, and a card, whose numbers fit their fields.          *)
EntryFits(e) ==
    e.timestamp \in 0..(Word - 1) /\ e.amount \in 0..(AmountRange - 1) /\ e.balanceAfter \in 0..(Word - 1)

CardFits(p) ==
    /\ p.balance \in 0..MaxBalance /\ p.lastBalance \in 0..MaxBalance
    /\ p.counter < Word
    /\ p.lastTimestamp \in 0..(Word - 1) /\ p.startTime \in 0..(Word - 1) /\ p.endTime \in 0..(Word - 1)
    /\ \A i \in 1..Len(p.log) : EntryFits(p.log[i])

(* What the assumptions say of the fields' widths.                         *)
LEMMA Widths ==
    /\ Word \in Nat \ {0, 1} /\ AmountRange \in Nat \ {0} /\ MaxBalance \in Nat /\ MaxTopup \in Nat /\ Skew \in Nat
    /\ MaxBalance < AmountRange /\ MaxTopup < AmountRange /\ AmountRange <= Word
    /\ MaxTime \in Nat /\ MaxCounter \in Nat /\ LogSize \in Nat \ {0}
    /\ Epoch \in Nat \ {0} /\ Epoch > Skew /\ Epoch <= MaxTime
    /\ MaxCounter < Word /\ MaxTime + Skew < Word
BY WireAssumption, LifecycleAssumption, EngineAssumption DEF Epoch

(* What each apply function does to the other fields of the card.          *)
LEMMA CheckinOthers ==
    ASSUME NEW p, Typed(p), NEW t \in Int
    PROVE  LET q == ApplyCheckin(p, t)
           IN  /\ q.lastBalance = p.lastBalance
               /\ q.counter = p.counter + 1
               /\ q.lastTimestamp = t
               /\ q.endTime = 0
BY DEF ApplyCheckin, Written, Typed, CardPayload

LEMMA CheckoutOthers ==
    ASSUME NEW p, Typed(p), NEW t \in Int
    PROVE  LET q == ApplyCheckout(p, t)
           IN  /\ q.lastBalance = p.balance
               /\ q.counter = p.counter + 1
               /\ q.lastTimestamp = t
BY DEF ApplyCheckout, Written, Typed, CardPayload

LEMMA TopupOthers ==
    ASSUME NEW p, Typed(p), NEW t \in Int, NEW a \in Int
    PROVE  LET q == ApplyTopup(p, a, t)
           IN  /\ q.lastBalance = p.balance
               /\ q.counter = p.counter + 1
               /\ q.lastTimestamp = t
BY DEF ApplyTopup, Written, Typed, CardPayload

LEMMA ResetOthers ==
    ASSUME NEW p, Typed(p), NEW t \in Int
    PROVE  LET q == ApplyResetState(p, t)
           IN  /\ q.lastBalance = p.lastBalance
               /\ q.counter = p.counter + 1
               /\ q.lastTimestamp = t
               /\ q.startTime = 0
               /\ q.endTime = 0
BY DEF ApplyResetState, Written, Typed, CardPayload

LEMMA BlockOthers ==
    ASSUME NEW p, Typed(p), NEW t \in Int
    PROVE  LET q == ApplyBlockStatus(p, "BLOCKED_ADMIN", t)
           IN  /\ q.lastBalance = p.lastBalance
               /\ q.counter = p.counter + 1
               /\ q.lastTimestamp = t
               /\ q.endTime = p.endTime
BY DEF ApplyBlockStatus, Written, Typed, CardPayload

(* A new entry that fits leaves a log that fits.                           *)
LEMMA LogFits ==
    ASSUME NEW log \in Seq(LogEntry), Len(log) <= LogSize, \A i \in 1..Len(log) : EntryFits(log[i]),
           NEW e \in LogEntry, EntryFits(e)
    PROVE  \A i \in 1..Len(BuildLogEntry(log, e)) : EntryFits(BuildLogEntry(log, e)[i])
<1> DEFINE r == BuildLogEntry(log, e)
           d == Len(log) + 1 - Len(r)
<1>1. /\ Len(r) \in 1..LogSize /\ r[Len(r)] = e /\ d \in {0, 1}
      /\ \A i \in 1..(Len(r) - 1) : r[i] = log[i + d]
  BY BuildLogEntryProperties
<1>2. Len(log) \in Nat
  OBVIOUS
<1> HIDE DEF r
<1>3. \A i \in 1..(Len(r) - 1) : i + d \in 1..Len(log)
  BY <1>1, <1>2, EngineAssumption
<1> HIDE DEF d
<1>4. ASSUME NEW i \in 1..Len(r) PROVE EntryFits(r[i])
  <2>1. CASE i = Len(r)
    BY <1>1, <2>1
  <2>2. CASE i # Len(r)
    <3>1. i \in 1..(Len(r) - 1)
      BY <1>1, <2>2, EngineAssumption
    <3>2. QED BY <1>1, <1>3, <3>1
  <2>3. QED BY <2>1, <2>2
<1>5. QED BY <1>4 DEF r

(* What a tap that writes leaves on the card: the entry, for the log and   *)
(* for the server, and a card that fits.                                   *)
Wrote(p, q, t, a, f) ==
    /\ Typed(q)
    /\ q.log = BuildLogEntry(p.log, Entry(t, a, q.balance, f))
    /\ q.counter = p.counter + 1 /\ q.lastTimestamp = t
    /\ q.balance = p.balance + SignedAmount(Entry(t, a, q.balance, f))
    /\ a \in 0..(AmountRange - 1) /\ f \in TxType /\ t \in 1..(Word - 1)
    /\ f # "ADMIN" => q.status = p.status
    /\ f \in {"CHECKIN", "ADMIN"} => a = 0
    /\ f = "CREDIT" => a \in MinTopup..MaxTopup
    /\ q.lastBalance \in {p.balance, p.lastBalance}
    /\ q.startTime \in {0, t, p.startTime} /\ q.endTime \in {0, t, p.endTime}

(* The clock of a device fits its field.                                   *)
LEMMA ClockFits ==
    ASSUME TypeOK, now \in Epoch..MaxTime, NEW d \in Devices
    PROVE  Clock(d) \in 1..(Word - 1)
<1>1. Clock(d) \in (now - Skew)..(now + Skew)
  BY ClockType
<1>2. QED BY <1>1, Widths DEF Epoch

(* Every step that changes the card is such a tap.                         *)
LEMMA StepWrote ==
    ASSUME TypeOK, SessionInv, BalanceWithinLimits, now \in Epoch..MaxTime, 2 * Skew < Hour, [Next]_vars, card' # card
    PROVE  /\ card.counter < MaxCounter
           /\ \E t \in Int, a \in Int, f \in TxType : Wrote(card, card', t, a, f)
<1>0. /\ Typed(card) /\ card.balance \in 0..MaxBalance
      /\ \A d \in Devices : Clock(d) \in Int /\ Clock(d) \in 1..(Word - 1)
      /\ {"gate", "terminal", "station"} \subseteq Devices
      /\ {"CHECKIN", "CHECKOUT", "CREDIT", "ADMIN"} \subseteq TxType
  <2>1. \A d \in Devices : Clock(d) \in Int /\ Clock(d) \in 1..(Word - 1)
    BY ClockInt, ClockFits DEF Devices
  <2>2. Typed(card) /\ card.balance \in 0..MaxBalance
    BY EngineAssumption DEF TypeOK, Typed, CardPayload, BalanceWithinLimits
  <2>3. QED BY <2>1, <2>2 DEF Devices, TxType
<1>1. CASE GateCheckin
  <2> DEFINE t == Clock("gate")
             q == ApplyCheckin(card, t)
  <2>1. t \in Int /\ t \in 1..(Word - 1)
    BY <1>0
  <2>2. card' = q /\ card.counter < MaxCounter
    BY <1>1 DEF GateCheckin, WriteCard
  <2> HIDE DEF t
  <2>3. /\ Typed(q) /\ q.log = BuildLogEntry(card.log, Entry(t, 0, card.balance, "CHECKIN"))
        /\ q.balance = card.balance /\ q.status = card.status /\ q.startTime = t
    BY <1>0, <2>1, CheckinProperties
  <2>4. q.lastBalance = card.lastBalance /\ q.counter = card.counter + 1 /\ q.lastTimestamp = t /\ q.endTime = 0
    BY <1>0, <2>1, CheckinOthers
  <2> HIDE DEF q
  <2>5. SignedAmount(Entry(t, 0, q.balance, "CHECKIN")) = 0
    BY DEF SignedAmount, Entry
  <2>6. Wrote(card, q, t, 0, "CHECKIN")
    BY <1>0, <2>1, <2>3, <2>4, <2>5, Widths DEF Wrote
  <2>7. QED BY <1>0, <2>1, <2>2, <2>6
<1>2. CASE TerminalCheckout
  <2> DEFINE t   == Clock("terminal")
             q   == ApplyCheckout(card, t)
             fee == CalculateCheckoutFee(card, t)
  <2>1. t \in Int /\ t \in 1..(Word - 1)
    BY <1>0
  <2>2. card' = q /\ card.counter < MaxCounter
    BY <1>2 DEF TerminalCheckout, WriteCard
  <2>3. PICK hours \in 0..card.balance : hours * Rate <= card.balance /\ card'.balance = card.balance - hours * Rate
    BY <1>2, CheckoutBalance
  <2> HIDE DEF t
  <2>4. /\ Typed(q) /\ q.log = BuildLogEntry(card.log, Entry(t, fee, card.balance - fee, "CHECKOUT"))
        /\ q.balance = card.balance - fee /\ q.status = card.status
        /\ q.startTime = card.startTime /\ q.endTime = t
    BY <1>0, <2>1, CheckoutProperties
  <2>5. q.lastBalance = card.balance /\ q.counter = card.counter + 1 /\ q.lastTimestamp = t
    BY <1>0, <2>1, CheckoutOthers
  <2>6. fee \in Int
    BY <1>0, <2>1, FeeType
  <2> HIDE DEF q, fee
  <2>7. fee \in 0..card.balance
    <3>1. fee = hours * Rate /\ hours * Rate \in Nat
      <4>1. hours * Rate \in Nat
        BY <1>0, EngineAssumption
      <4>2. QED BY <1>0, <2>2, <2>3, <2>4, <2>6, <4>1
    <3>2. QED BY <1>0, <2>3, <3>1
  <2>8. SignedAmount(Entry(t, fee, q.balance, "CHECKOUT")) = -fee
    BY DEF SignedAmount, Entry
  <2>9. fee \in 0..(AmountRange - 1)
    BY <1>0, <2>7, Widths
  <2>10. card.balance - fee = card.balance + -fee
    BY <1>0, <2>6
  <2>11. Wrote(card, q, t, fee, "CHECKOUT")
    BY <1>0, <2>1, <2>4, <2>5, <2>8, <2>9, <2>10 DEF Wrote
  <2>12. QED BY <1>0, <2>1, <2>2, <2>6, <2>11
<1>3. ASSUME NEW d \in Devices, BlockWriteBack(d)
      PROVE  card.counter < MaxCounter /\ \E t \in Int, a \in Int, f \in TxType : Wrote(card, card', t, a, f)
  <2> DEFINE t == Clock(d)
             q == ApplyBlockStatus(card, "BLOCKED_ADMIN", t)
  <2>1. t \in Int /\ t \in 1..(Word - 1)
    BY <1>0
  <2>2. card' = q /\ card.counter < MaxCounter
    BY <1>3 DEF BlockWriteBack, WriteCard
  <2> HIDE DEF t
  <2>3. /\ Typed(q) /\ q.log = BuildLogEntry(card.log, Entry(t, 0, card.balance, "ADMIN"))
        /\ q.balance = card.balance /\ q.startTime = card.startTime
    BY <1>0, <2>1, BlockProperties
  <2>4. /\ q.lastBalance = card.lastBalance /\ q.counter = card.counter + 1 /\ q.lastTimestamp = t
        /\ q.endTime = card.endTime
    BY <1>0, <2>1, BlockOthers
  <2> HIDE DEF q
  <2>5. SignedAmount(Entry(t, 0, q.balance, "ADMIN")) = 0
    BY DEF SignedAmount, Entry
  <2>6. Wrote(card, q, t, 0, "ADMIN")
    BY <1>0, <2>1, <2>3, <2>4, <2>5, Widths DEF Wrote
  <2>7. QED BY <1>0, <2>1, <2>2, <2>6
<1>4. ASSUME NEW x \in Amounts, StationTopup(x)
      PROVE  card.counter < MaxCounter /\ \E t \in Int, a \in Int, f \in TxType : Wrote(card, card', t, a, f)
  <2> DEFINE t == Clock("station")
             q == ApplyTopup(card, x, t)
  <2>1. t \in Int /\ t \in 1..(Word - 1) /\ x \in Int
    BY <1>0, LifecycleAssumption
  <2>2. card' = q /\ card.counter < MaxCounter /\ x >= MinTopup /\ x <= MaxTopup
    BY <1>4 DEF StationTopup, WriteCard, ValidateTopup
  <2> HIDE DEF t
  <2>3. /\ Typed(q) /\ q.log = BuildLogEntry(card.log, Entry(t, x, card.balance + x, "CREDIT"))
        /\ q.balance = card.balance + x /\ q.status = card.status
        /\ q.startTime = card.startTime /\ q.endTime = card.endTime
    BY <1>0, <2>1, TopupProperties
  <2>4. q.lastBalance = card.balance /\ q.counter = card.counter + 1 /\ q.lastTimestamp = t
    BY <1>0, <2>1, TopupOthers
  <2> HIDE DEF q
  <2>5. SignedAmount(Entry(t, x, q.balance, "CREDIT")) = x
    BY DEF SignedAmount, Entry
  <2>6. x \in 0..(AmountRange - 1) /\ x \in MinTopup..MaxTopup
    BY <2>1, <2>2, Widths, EngineAssumption
  <2>7. Wrote(card, q, t, x, "CREDIT")
    BY <1>0, <2>1, <2>3, <2>4, <2>5, <2>6 DEF Wrote
  <2>8. QED BY <1>0, <2>1, <2>2, <2>7
<1>5. CASE StationReset
  <2> DEFINE t == Clock("station")
             q == ApplyResetState(card, t)
  <2>1. t \in Int /\ t \in 1..(Word - 1)
    BY <1>0
  <2>2. card' = q /\ card.counter < MaxCounter
    BY <1>5 DEF StationReset, WriteCard
  <2> HIDE DEF t
  <2>3. /\ Typed(q) /\ q.log = BuildLogEntry(card.log, Entry(t, 0, card.balance, "ADMIN"))
        /\ q.balance = card.balance
    BY <1>0, <2>1, ResetProperties
  <2>4. /\ q.lastBalance = card.lastBalance /\ q.counter = card.counter + 1 /\ q.lastTimestamp = t
        /\ q.startTime = 0 /\ q.endTime = 0
    BY <1>0, <2>1, ResetOthers
  <2> HIDE DEF q
  <2>5. SignedAmount(Entry(t, 0, q.balance, "ADMIN")) = 0
    BY DEF SignedAmount, Entry
  <2>6. Wrote(card, q, t, 0, "ADMIN")
    BY <1>0, <2>1, <2>3, <2>4, <2>5, Widths DEF Wrote
  <2>7. QED BY <1>0, <2>1, <2>2, <2>6
<1>6. QED
  BY <1>1, <1>2, <1>3, <1>4, <1>5 DEF Next, ChangeLocalStatus, AdjustClock, Tick, vars

(* What a tap writes fits, if the card did.                                *)
LEMMA WroteFits ==
    ASSUME NEW p, Typed(p), CardFits(p), NEW q, NEW t \in Int, NEW a \in Int, NEW f \in TxType, Wrote(p, q, t, a, f),
           q.balance \in 0..MaxBalance, p.counter < MaxCounter
    PROVE  CardFits(q)
<1> DEFINE e == Entry(t, a, q.balance, f)
<1>1. e \in LogEntry /\ e.timestamp = t /\ e.amount = a /\ e.balanceAfter = q.balance
  BY DEF Entry, LogEntry
<1>2. EntryFits(e)
  BY <1>1, Widths DEF EntryFits, Wrote
<1>3. q.log = BuildLogEntry(p.log, e)
  BY DEF Wrote
<1> HIDE DEF e
<1>4. \A i \in 1..Len(q.log) : EntryFits(q.log[i])
  BY <1>1, <1>2, <1>3, LogFits DEF Typed, CardPayload, CardFits
<1>5. q.counter < Word
  <2>1. q.counter = p.counter + 1
    BY DEF Wrote
  <2>2. p.counter \in Nat
    BY DEF Typed, CardPayload
  <2>3. QED BY <2>1, <2>2, Widths
<1>6. /\ q.lastBalance \in 0..MaxBalance /\ q.lastTimestamp \in 0..(Word - 1)
      /\ q.startTime \in 0..(Word - 1) /\ q.endTime \in 0..(Word - 1)
  <2>1. t \in 0..(Word - 1) /\ 0 \in 0..(Word - 1)
    BY Widths DEF Wrote
  <2>2. q.lastBalance \in 0..MaxBalance
    BY DEF Wrote, CardFits
  <2>3. q.lastTimestamp = t /\ q.startTime \in {0, t, p.startTime} /\ q.endTime \in {0, t, p.endTime}
    BY DEF Wrote
  <2>4. p.startTime \in 0..(Word - 1) /\ p.endTime \in 0..(Word - 1)
    BY DEF CardFits
  <2>5. QED BY <2>1, <2>2, <2>3, <2>4
<1>7. QED BY <1>4, <1>5, <1>6 DEF CardFits

(* What the server is told of a tap.                                       *)
LEMMA WroteTold ==
    ASSUME NEW p, Typed(p), NEW q, NEW t \in Int, NEW a \in Int, NEW f \in TxType, Wrote(p, q, t, a, f),
           p.balance \in 0..MaxBalance, q.balance \in 0..MaxBalance, p.counter < MaxCounter, MaxCounter <= 65535
    PROVE  ServerIsTold(p, q)
<1> DEFINE e  == Entry(t, a, q.balance, f)
           tx == RecordCardWrite(p, q)
<1>1. /\ e \in LogEntry /\ e.timestamp = t /\ e.amount = a /\ e.balanceAfter = q.balance /\ e.flags = f
      /\ q.log = BuildLogEntry(p.log, e)
  BY DEF Entry, LogEntry, Wrote
<1>2. q.balance = p.balance + SignedAmount(e)
  BY DEF Wrote
<1> HIDE DEF e
<1>3. Last(q.log) = e
  BY <1>1, BuildLogEntryProperties DEF Typed, CardPayload, Last
<1>4. f \in {"CREDIT", "CHECKIN", "CHECKOUT", "ADMIN"} /\ a \in Nat
  BY Widths DEF TxType, Wrote
<1>5. q.balance = IF f = "CREDIT" THEN p.balance + a ELSE IF f = "CHECKOUT" THEN p.balance - a ELSE p.balance
  BY <1>1, <1>2, <1>4 DEF SignedAmount
<1>6. f \in {"CHECKIN", "ADMIN"} => a = 0
  BY DEF Wrote
<1>7. tx.amount = a /\ a \in 0..MaxBalance
  <2>1. tx.amount = IF p.balance > q.balance THEN p.balance - q.balance ELSE q.balance - p.balance
    BY DEF RecordCardWrite
  <2>2. p.balance \in Int /\ q.balance \in Int /\ MaxBalance \in Nat
    BY Widths
  <2> HIDE DEF tx
  <2>3. CASE f = "CREDIT"
    <3>1. q.balance = p.balance + a
      BY <1>5, <2>3
    <3>2. QED BY <1>4, <2>1, <2>2, <3>1
  <2>4. CASE f = "CHECKOUT"
    <3>1. q.balance = p.balance - a
      BY <1>5, <2>4
    <3>2. QED BY <1>4, <2>1, <2>2, <3>1
  <2>5. CASE f \in {"CHECKIN", "ADMIN"}
    <3>1. q.balance = p.balance /\ a = 0
      BY <1>5, <1>6, <2>5
    <3>2. QED BY <2>1, <2>2, <3>1
  <2>6. QED BY <1>4, <2>3, <2>4, <2>5
<1>8. tx.balanceAfter = q.balance /\ tx.timestamp = t /\ tx.counter = p.counter + 1 /\ tx.type = OperationType(q)
  BY DEF RecordCardWrite, Wrote
<1>9. tx.counter >= 0 /\ tx.counter <= 65535
  <2>1. p.counter \in Nat /\ MaxCounter \in Nat
    BY Widths DEF Typed, CardPayload
  <2> HIDE DEF tx
  <2>2. QED BY <1>8, <2>1
<1>10. OperationType(q) # "admin_reset" => OperationType(q) \in ValidTypes
  BY <1>1, <1>3, <1>4 DEF OperationType, ValidTypes
<1>11. OperationType(q) = "topup" => f = "CREDIT"
  BY <1>1, <1>3, <1>4 DEF OperationType
<1>12. f = "CREDIT" => a \in MinTopup..MaxTopup
  BY DEF Wrote
<1> HIDE DEF tx
<1>13. tx.type # "admin_reset" => ValidateTransaction(tx)
  <2>1. tx.type # "admin_reset" => tx.type \in ValidTypes
    BY <1>8, <1>10
  <2>2. tx.type = "topup" => tx.amount \in MinTopup..MaxTopup
    BY <1>7, <1>8, <1>11, <1>12
  <2>3. tx.balanceAfter \in 0..MaxBalance
    BY <1>8
  <2>4. QED BY <1>7, <1>9, <2>1, <2>2, <2>3 DEF ValidateTransaction
<1>14. QED BY <1>1, <1>3, <1>7, <1>8, <1>13 DEF ServerIsTold, tx

-----------------------------------------------------------------------------
(* CardWire: every conversion and the one that undoes it.                  *)

(* What fits its fields is packed without loss.                            *)
LEMMA Modulo == ASSUME NEW w \in Nat \ {0}, NEW n \in 0..(w - 1) PROVE n % w = n
OBVIOUS

LEMMA PackedIsSame == ASSUME NEW e \in LogEntry, EntryFits(e) PROVE Packed(e) = e
<1>1. e.timestamp % Word = e.timestamp /\ e.amount % AmountRange = e.amount /\ e.balanceAfter % Word = e.balanceAfter
  BY Modulo, Widths DEF EntryFits
<1>2. Packed(e) = [timestamp |-> e.timestamp, amount |-> e.amount, balanceAfter |-> e.balanceAfter, flags |-> e.flags]
  BY <1>1 DEF Packed
<1>3. QED BY <1>2 DEF LogEntry

(* The slots of a log: as many as it has entries, each with its entry and  *)
(* the hash of everything up to it.                                        *)
Chained(log) == [i \in 1..Len(log) |-> [packed |-> log[i], hash |-> [j \in 1..i |-> log[j]]]]

LEMMA SlotsOf ==
    ASSUME NEW log \in Seq(LogEntry), \A i \in 1..Len(log) : EntryFits(log[i])
    PROVE  RecomputeChainHashes(log) = Chained(log)
<1>1. \A i \in 1..Len(log) : Packed(log[i]) = log[i]
  <2> TAKE i \in 1..Len(log)
  <2>1. log[i] \in LogEntry /\ EntryFits(log[i])
    OBVIOUS
  <2>2. QED BY <2>1, PackedIsSame
<1> DEFINE Hash(i)  == [j \in 1..i |-> Packed(log[j])]
           Whole(i) == [j \in 1..i |-> log[j]]
<1>2. \A i \in 1..Len(log) : Hash(i) = Whole(i)
  <2> TAKE i \in 1..Len(log)
  <2>1. \A j \in 1..i : j \in 1..Len(log)
    BY Len(log) \in Nat
  <2>2. \A j \in 1..i : Packed(log[j]) = log[j]
    BY <1>1, <2>1
  <2>3. QED BY <2>2
<1> HIDE DEF Hash, Whole
<1>3. [i \in 1..Len(log) |-> [packed |-> Packed(log[i]), hash |-> Hash(i)]]
        = [i \in 1..Len(log) |-> [packed |-> log[i], hash |-> Whole(i)]]
  BY <1>1, <1>2
<1>4. QED BY <1>3 DEF RecomputeChainHashes, Chained, Hash, Whole

(* The hashes of a log are a chain.                                        *)
LEMMA ChainHolds == ASSUME NEW log \in Seq(LogEntry) PROVE ChainValid(Chained(log))
<1> DEFINE slots == Chained(log)
           Whole(i) == [j \in 1..i |-> log[j]]
<1>1. Len(slots) = Len(log) /\ \A i \in 1..Len(log) : slots[i].packed = log[i] /\ slots[i].hash = Whole(i)
  <2>1. Len(log) \in Nat
    OBVIOUS
  <2> HIDE DEF Whole
  <2>2. slots = [i \in 1..Len(log) |-> [packed |-> log[i], hash |-> Whole(i)]]
    BY DEF Chained, Whole
  <2> HIDE DEF slots
  <2>3. QED BY <2>1, <2>2
<1> HIDE DEF slots
<1>2. ASSUME NEW i \in 1..Len(log)
      PROVE  slots[i].hash = ComputeChainHash(slots[i].packed, IF i = 1 THEN NoHash ELSE slots[i - 1].hash)
  <2> DEFINE before == IF i = 1 THEN NoHash ELSE slots[i - 1].hash
             after == Append(before, log[i])
  <2>1. i \in Nat \ {0} /\ \A j \in 1..i : j \in 1..Len(log) /\ log[j] \in LogEntry
    BY Len(log) \in Nat
  <2>2. Whole(i) \in Seq(LogEntry) /\ Len(Whole(i)) = i /\ \A j \in 1..i : Whole(i)[j] = log[j]
    BY <2>1
  <2>3. before \in Seq(LogEntry) /\ Len(before) = i - 1 /\ \A j \in 1..(i - 1) : before[j] = log[j]
    <3>1. CASE i = 1
      BY <3>1 DEF NoHash
    <3>2. CASE i # 1
      <4>1. i - 1 \in Nat /\ i - 1 \in 1..Len(log) /\ \A j \in 1..(i - 1) : log[j] \in LogEntry
        BY <2>1, <3>2
      <4>2. before = Whole(i - 1)
        BY <1>1, <3>2, <4>1
      <4>3. Whole(i - 1) \in Seq(LogEntry) /\ Len(Whole(i - 1)) = i - 1 /\ \A j \in 1..(i - 1) : Whole(i - 1)[j] = log[j]
        BY <4>1
      <4>4. QED BY <4>2, <4>3
    <3>3. QED BY <3>1, <3>2
  <2> HIDE DEF before
  <2>4. after \in Seq(LogEntry) /\ Len(after) = i /\ \A j \in 1..i : after[j] = log[j]
    <3>1. log[i] \in LogEntry
      BY <2>1
    <3>2. after \in Seq(LogEntry) /\ Len(after) = Len(before) + 1
      BY <2>3, <3>1
    <3>3. \A j \in 1..i : after[j] = IF j = i THEN log[i] ELSE before[j]
      BY <2>1, <2>3, <3>1
    <3>4. QED BY <2>1, <2>3, <3>2, <3>3
  <2> HIDE DEF Whole, after
  <2>5. Whole(i) = after
    BY <2>2, <2>4, SeqEqual
  <2>6. QED BY <1>1, <2>5 DEF ComputeChainHash, before, after
<1>3. QED BY <1>1, <1>2 DEF ChainValid, slots

(* What is put into the body is what is taken out of it.                   *)
LEMMA BodyReadsBack ==
    ASSUME NEW p, Typed(p), CardFits(p)
    PROVE  DecodeBuffer(EncodeBuffer(p, Chained(p.log))) = [payload |-> p, slots |-> Chained(p.log)]
<1> DEFINE n     == Len(p.log)
           slots == Chained(p.log)
           b     == EncodeBuffer(p, slots)
           used  == UsedSlots(b.log)
<1>1. p.log \in Seq(LogEntry) /\ n \in 0..LogSize /\ LogSize \in Nat
  BY Widths DEF Typed, CardPayload
<1>2. /\ slots = [i \in 1..n |-> slots[i]] /\ Len(slots) = n
      /\ \A i \in 1..n : slots[i].packed = p.log[i] /\ slots[i].hash # NoHash
  <2> DEFINE Whole(i) == [j \in 1..i |-> p.log[j]]
  <2>1. \A i \in 1..n : Whole(i) # NoHash
    <3> TAKE i \in 1..n
    <3>1. DOMAIN Whole(i) = 1..i /\ 1 \in 1..i
      BY <1>1
    <3>2. DOMAIN NoHash = {}
      BY DEF NoHash
    <3>3. QED BY <3>1, <3>2
  <2> HIDE DEF Whole, n
  <2>2. slots = [i \in 1..n |-> [packed |-> p.log[i], hash |-> Whole(i)]]
    BY DEF Chained, Whole, n
  <2> HIDE DEF slots
  <2>3. QED BY <1>1, <2>1, <2>2
<1>3. /\ b.log = [i \in 1..LogSize |-> IF i <= n THEN slots[i] ELSE EmptySlot]
      /\ \A i \in 1..LogSize : b.log[i] = IF i <= n THEN slots[i] ELSE EmptySlot
  <2> HIDE DEF slots, n
  <2>1. b.log = [i \in 1..LogSize |-> IF i <= Len(slots) THEN slots[i] ELSE EmptySlot]
    BY DEF EncodeBuffer
  <2> HIDE DEF b
  <2>2. QED BY <1>2, <2>1
<1> HIDE DEF b, slots
<1>4. {i \in 1..LogSize : \A j \in 1..i : b.log[j].hash # NoHash} = 1..n
  <2>1. ASSUME NEW i \in 1..LogSize, \A j \in 1..i : b.log[j].hash # NoHash PROVE i \in 1..n
    <3>1. i \in 1..i /\ b.log[i].hash # NoHash
      BY <2>1
    <3>2. EmptySlot.hash = NoHash
      BY DEF EmptySlot
    <3>3. i <= n
      BY <1>3, <3>1, <3>2
    <3>4. QED BY <1>1, <3>3
  <2>2. ASSUME NEW i \in 1..n PROVE i \in 1..LogSize /\ \A j \in 1..i : b.log[j].hash # NoHash
    <3>1. i \in 1..LogSize /\ \A j \in 1..i : j \in 1..LogSize /\ j \in 1..n /\ j <= n
      BY <1>1
    <3> HIDE DEF n
    <3>2. QED BY <1>2, <1>3, <3>1
  <2> HIDE DEF n
  <2>3. \A i \in 1..n : i \in 1..LogSize
    BY <2>2
  <2>4. QED BY <2>1, <2>2, <2>3
<1>5. Cardinality(1..n) = n
  BY <1>1, FS_Interval
<1>6. used = SubSeq(b.log, 1, n)
  BY <1>4, <1>5 DEF UsedSlots
<1>7. used = slots
  <2> DEFINE S == {slots[i] : i \in 1..n}
  <2> HIDE DEF n
  <2>1. \A i \in 1..n : b.log[i] = slots[i] /\ b.log[i] \in S
    <3> TAKE i \in 1..n
    <3>1. i \in 1..LogSize /\ i <= n
      BY <1>1
    <3>2. QED BY <1>3, <3>1
  <2> HIDE DEF S
  <2>2. /\ SubSeq(b.log, 1, n) \in Seq(S)
        /\ Len(SubSeq(b.log, 1, n)) = IF 1 <= n THEN n - 1 + 1 ELSE 0
        /\ \A i \in 1..(n - 1 + 1) : SubSeq(b.log, 1, n)[i] = b.log[1 + i - 1]
    BY <1>1, <2>1, SubSeqProperties
  <2>3. Len(used) = n /\ used \in Seq(S) /\ \A i \in 1..n : used[i] = slots[i]
    <3> HIDE DEF used
    <3>1. Len(used) = n
      BY <1>1, <1>6, <2>2
    <3>2. \A i \in 1..n : i \in 1..(n - 1 + 1) /\ 1 + i - 1 = i
      BY <1>1
    <3>3. QED BY <1>6, <2>1, <2>2, <3>1, <3>2
  <2>4. \A i \in 1..n : slots[i] \in S
    BY DEF S
  <2>5. slots \in Seq(S)
    BY <1>1, <1>2, <2>4
  <2> HIDE DEF used
  <2>6. QED BY <1>2, <2>3, <2>5, SeqEqual
<1> HIDE DEF used
<1>8. [i \in 1..Len(used) |-> used[i].packed] = p.log
  <2>1. [i \in 1..n |-> slots[i].packed] = [i \in 1..n |-> p.log[i]]
    BY <1>2
  <2>2. p.log = [i \in 1..n |-> p.log[i]]
    BY <1>1
  <2>3. QED BY <1>2, <1>7, <2>1, <2>2
<1>9. [b EXCEPT !.log = [i \in 1..Len(used) |-> used[i].packed]] = p
  <2> DEFINE l == [i \in 1..LogSize |-> IF i <= Len(slots) THEN slots[i] ELSE EmptySlot]
  <2>1. /\ p.balance % Word = p.balance /\ p.lastBalance % Word = p.lastBalance
        /\ p.lastTimestamp % Word = p.lastTimestamp /\ p.startTime % Word = p.startTime
        /\ p.endTime % Word = p.endTime
    <3>1. p.balance \in 0..(Word - 1) /\ p.lastBalance \in 0..(Word - 1)
      BY Widths DEF CardFits
    <3>2. QED BY <3>1, Modulo, Widths DEF CardFits
  <2>2. b = [status |-> p.status, state |-> p.state, counter |-> p.counter, balance |-> p.balance,
             lastBalance |-> p.lastBalance, lastTimestamp |-> p.lastTimestamp,
             startTime |-> p.startTime, endTime |-> p.endTime, log |-> l]
    BY <2>1 DEF EncodeBuffer, b
  <2> HIDE DEF l
  <2>3. p = [status |-> p.status, state |-> p.state, counter |-> p.counter, balance |-> p.balance,
             lastBalance |-> p.lastBalance, lastTimestamp |-> p.lastTimestamp,
             startTime |-> p.startTime, endTime |-> p.endTime, log |-> p.log]
    BY DEF Typed, CardPayload
  <2>4. [b EXCEPT !.log = p.log] = p
    BY <2>2, <2>3
  <2>5. QED BY <1>8, <2>4
<1>10. DecodeBuffer(b) = [payload |-> [b EXCEPT !.log = [i \in 1..Len(used) |-> used[i].packed]], slots |-> used]
  BY DEF DecodeBuffer, used
<1>11. QED BY <1>7, <1>9, <1>10 DEF b, slots

(* What a write with a new trailer puts on the chip; a write with the      *)
(* trailer of the write before puts the same there.                        *)
Sealed(p) == PrepareWrite(NewTrailer(Grant(Issuer)), p, Grant(Issuer))

LEMMA SealedParts ==
    ASSUME NEW p, NEW trailer, trailer = NewTrailer(Grant(Issuer)) \/ \E o : trailer = Sealed(o).trailer
    PROVE  LET g     == Grant(Issuer)
               slots == RecomputeChainHashes(p.log)
               body  == [key |-> g.sessionKey, nonce |-> p.counter, plain |-> EncodeBuffer(p, slots)]
               next  == [keyVersion |-> g.keyVersion, rootHash |-> RootHash(slots), counterBind |-> p.counter % Word,
                         hmac |-> trailer.hmac]
               mac   == <<g.sessionKey, <<Header(Issuer), body, g.keyVersion, RootHash(slots), p.counter % Word>>>>
           IN  PrepareWrite(trailer, p, g) =
                 [header |-> Header(Issuer), body |-> body,
                  trailer |-> [keyVersion |-> g.keyVersion, rootHash |-> RootHash(slots), counterBind |-> p.counter % Word,
                               hmac |-> mac]]
<1> DEFINE g      == Grant(Issuer)
           Slots(q) == RecomputeChainHashes(q.log)
           Body(q)  == [key |-> g.sessionKey, nonce |-> q.counter, plain |-> EncodeBuffer(q, Slots(q))]
           Mac(q)   == <<g.sessionKey, <<Header(Issuer), Body(q), g.keyVersion, RootHash(Slots(q)), q.counter % Word>>>>
           Full(q)  == [keyVersion |-> g.keyVersion, rootHash |-> RootHash(Slots(q)), counterBind |-> q.counter % Word,
                        hmac |-> Mac(q)]
           Shape(x) == x = [keyVersion |-> g.keyVersion, rootHash |-> x.rootHash, counterBind |-> x.counterBind,
                            hmac |-> x.hmac]
<1>1. ASSUME NEW x, Shape(x), NEW q
      PROVE  PrepareWrite(x, q, g) = [header |-> Header(Issuer), body |-> Body(q), trailer |-> Full(q)]
  <2> DEFINE slots == Slots(q)
             root  == RootHash(slots)
             count == q.counter % Word
             body  == EncryptCardBody(EncodeBuffer(q, slots), g.sessionKey, q.counter)
             next  == [x EXCEPT !.rootHash = root, !.counterBind = count]
             mac   == ComputeHmac(g.sessionKey, BuildHmacInput(Header(Issuer), body, next))
  <2>1. PrepareWrite(x, q, g) = [header |-> Header(Issuer), body |-> body, trailer |-> [next EXCEPT !.hmac = mac]]
    BY DEF PrepareWrite
  <2>2. body = Body(q)
    BY DEF EncryptCardBody
  <2> HIDE DEF root, count, Body, g, body
  <2>3. next = [keyVersion |-> g.keyVersion, rootHash |-> root, counterBind |-> count, hmac |-> x.hmac]
    <3>1. PICK k, r0, c0, h0 : k = g.keyVersion /\ x = [keyVersion |-> k, rootHash |-> r0, counterBind |-> c0, hmac |-> h0]
      BY <1>1
    <3>2. x.hmac = h0
      BY <3>1
    <3>3. next = [keyVersion |-> k, rootHash |-> root, counterBind |-> count, hmac |-> h0]
      <4> DEFINE Parts == [keyVersion : {k}, rootHash : {r0, root}, counterBind : {c0, count}, hmac : {h0}]
      <4>1. x \in Parts
        BY <3>1
      <4>2. next \in Parts /\ next.rootHash = root /\ next.counterBind = count /\ next.keyVersion = k /\ next.hmac = h0
        BY <4>1
      <4> HIDE DEF next
      <4>3. QED BY <4>2
    <3> HIDE DEF next
    <3>4. QED BY <3>1, <3>2, <3>3
  <2> HIDE DEF next
  <2>4. mac = <<g.sessionKey, <<Header(Issuer), Body(q), g.keyVersion, root, count>>>>
    BY <2>2, <2>3 DEF ComputeHmac, BuildHmacInput
  <2> HIDE DEF mac
  <2>5. [next EXCEPT !.hmac = mac] = [keyVersion |-> g.keyVersion, rootHash |-> root, counterBind |-> count, hmac |-> mac]
    BY <2>3
  <2>6. QED BY <2>1, <2>2, <2>4, <2>5 DEF root, count
<1>2. Shape(NewTrailer(g))
  BY DEF NewTrailer
<1>3. ASSUME NEW o PROVE Shape(Sealed(o).trailer)
  <2>1. Sealed(o) = [header |-> Header(Issuer), body |-> Body(o), trailer |-> Full(o)]
    BY <1>1, <1>2 DEF Sealed
  <2> HIDE DEF Body, Mac, Slots
  <2>2. QED BY <2>1
<1>4. Shape(trailer)
  <2> HIDE DEF Shape
  <2>1. QED BY <1>2, <1>3
<1>5. PrepareWrite(trailer, p, g) = [header |-> Header(Issuer), body |-> Body(p), trailer |-> Full(p)]
  <2> HIDE DEF Shape, Body, Full
  <2>1. QED BY <1>1, <1>4
<1>6. QED BY <1>5

LEMMA SealedAgain == ASSUME NEW o, NEW p PROVE PrepareWrite(Sealed(o).trailer, p, Grant(Issuer)) = Sealed(p)
<1> DEFINE T == Sealed(o).trailer
<1>1. \E x : T = Sealed(x).trailer
  OBVIOUS
<1> HIDE DEF T
<1>2. PrepareWrite(T, p, Grant(Issuer)) = PrepareWrite(NewTrailer(Grant(Issuer)), p, Grant(Issuer))
  BY <1>1, SealedParts, Zenon
<1>3. QED BY <1>2 DEF T, Sealed

(* A card that fits is understood by the devices of its tenant, and by no  *)
(* other's.                                                                *)
LEMMA SealedReadsBack ==
    ASSUME NEW p, Typed(p), CardFits(p), NEW t \in Tenants, NEW lenient \in BOOLEAN, NEW online \in BOOLEAN
    PROVE  LET r == DecodeAndValidateCard(Sealed(p), Grant(t), lenient, online)
           IN  IF t = Issuer
               THEN r = Ready(p, "none") /\ VerifyWrittenPayload(Sealed(p), p, Grant(t))
               ELSE r = Unread
<1> DEFINE raw   == Sealed(p)
           slots == Chained(p.log)
           buffer == EncodeBuffer(p, slots)
           root  == RootHash(slots)
           count == p.counter % Word
           key   == <<Issuer, 1>>
           body  == [key |-> key, nonce |-> p.counter, plain |-> buffer]
           mac   == <<key, <<Header(Issuer), body, 1, root, count>>>>
           r     == DecodeAndValidateCard(raw, Grant(t), lenient, online)
<1>1. p.log \in Seq(LogEntry) /\ p.counter \in 0..(Word - 1)
  BY Widths DEF Typed, CardPayload, CardFits
<1>2. RecomputeChainHashes(p.log) = slots
  BY <1>1, SlotsOf DEF CardFits
<1>3. count = p.counter
  BY <1>1, Modulo, Widths
<1>4. Grant(Issuer).sessionKey = key /\ Grant(Issuer).keyVersion = 1 /\ Grant(Issuer).tenant = Issuer
      /\ Grant(t).sessionKey = <<t, 1>> /\ Grant(t).keyVersion = 1 /\ Grant(t).tenant = t
  BY DEF Grant
<1>5. raw = [header |-> Header(Issuer), body |-> body,
             trailer |-> [keyVersion |-> 1, rootHash |-> root, counterBind |-> count, hmac |-> mac]]
  <2> DEFINE N == NewTrailer(Grant(Issuer))
  <2>1. N = NewTrailer(Grant(Issuer))
    OBVIOUS
  <2>2. raw = PrepareWrite(N, p, Grant(Issuer))
    BY DEF Sealed
  <2> DEFINE G == Grant(Issuer)
             S == RecomputeChainHashes(p.log)
             B == [key |-> G.sessionKey, nonce |-> p.counter, plain |-> EncodeBuffer(p, S)]
             M == <<G.sessionKey, <<Header(Issuer), B, G.keyVersion, RootHash(S), p.counter % Word>>>>
  <2> HIDE DEF N
  <2>3. PrepareWrite(N, p, G) =
          [header |-> Header(Issuer), body |-> B,
           trailer |-> [keyVersion |-> G.keyVersion, rootHash |-> RootHash(S), counterBind |-> p.counter % Word, hmac |-> M]]
    BY <2>1, SealedParts
  <2>4. B = body /\ M = mac
    BY <1>2, <1>4
  <2>5. QED BY <1>2, <1>4, <2>2, <2>3, <2>4
<1> HIDE DEF raw, mac, body, key, count, root
<1>6. raw.body.key = key /\ raw.body.nonce = p.counter /\ raw.body.plain = buffer /\ raw.header = Header(Issuer)
      /\ raw.trailer.keyVersion = 1 /\ raw.trailer.counterBind = count /\ raw.trailer.hmac = mac
      /\ raw.trailer.rootHash = root /\ raw.body = body
  BY <1>5 DEF body
<1>7. DecodeBuffer(raw.body.plain) = [payload |-> p, slots |-> slots]
  BY <1>6, BodyReadsBack
<1>8. CASE t # Issuer
  <2>1. <<t, 1>> # key
    BY <1>8 DEF key
  <2>2. ~Opens(raw.body, Grant(t).sessionKey, raw.trailer.counterBind)
    BY <1>4, <1>6, <2>1 DEF Opens
  <2>3. r = Unread
    BY <2>2 DEF DecodeAndValidateCard
  <2> HIDE DEF r
  <2>4. QED BY <1>8, <2>3 DEF raw, r
<1>9. CASE t = Issuer
  <2>1. Opens(raw.body, Grant(t).sessionKey, raw.trailer.counterBind)
    BY <1>3, <1>4, <1>6, <1>9 DEF Opens
  <2>2. TenantBindValid(raw.header, Grant(t))
    BY <1>4, <1>6, <1>9 DEF TenantBindValid, Header
  <2>3. ValidateCard(raw, [payload |-> p, slots |-> slots], Grant(t)) = "valid"
    <3>1. raw.header.version = SchemaVersion
      BY <1>6 DEF Header
    <3>2. ComputeHmac(Grant(t).sessionKey, BuildHmacInput(raw.header, raw.body, raw.trailer)) = mac
      BY <1>4, <1>6, <1>9 DEF ComputeHmac, BuildHmacInput, mac
    <3>3. ChainValid(slots)
      BY <1>1, ChainHolds
    <3>4. p.counter % Word = raw.trailer.counterBind
      BY <1>6 DEF count
    <3> DEFINE read == [payload |-> p, slots |-> slots]
    <3>5. read.payload = p /\ read.slots = slots
      OBVIOUS
    <3> HIDE DEF read, slots
    <3>6. ValidateCard(raw, read, Grant(t)) = "valid"
      BY <1>4, <1>6, <2>2, <3>1, <3>2, <3>3, <3>4, <3>5 DEF ValidateCard
    <3>7. QED BY <3>6 DEF read
  <2>4. OfflineVerdict(raw.header, Grant(t)) = "valid"
    BY <2>2 DEF OfflineVerdict
  <2> HIDE DEF slots
  <2>5. r = Judged(p, "valid", lenient)
    BY <1>7, <2>1, <2>3, <2>4 DEF DecodeAndValidateCard
  <2>6. r = Ready(p, "none")
    BY <2>5 DEF Judged
  <2>7. VerifyWrittenPayload(raw, p, Grant(t))
    BY <1>2, <1>7, <2>1 DEF VerifyWrittenPayload
  <2> HIDE DEF r
  <2>8. QED BY <1>9, <2>6, <2>7 DEF raw, r
<1>10. QED BY <1>8, <1>9 DEF raw

-----------------------------------------------------------------------------
(* CardWire: every write is understood.                                    *)

(* What every tap finds: a card that fits its chip, on a clock that fits.  *)
WireInv ==
    /\ TypeOK /\ SessionInv /\ BalanceWithinLimits
    /\ now \in Epoch..MaxTime
    /\ CardFits(card)
    /\ bytes = Sealed(card)

LEMMA InitWire == WireInit => WireInv
<1> SUFFICES ASSUME WireInit PROVE WireInv
  OBVIOUS
<1>1. TypeOK /\ SessionInv /\ BalanceWithinLimits
  BY InitType, InitSession, InitLimits DEF WireInit
<1>2. PICK b \in Issued : card = NewCard(b)
  BY DEF WireInit, Init
<1>3. b \in 0..MaxBalance
  BY LifecycleAssumption
<1>4. CardFits(card)
  <2>1. /\ card.balance = b /\ card.lastBalance = 0 /\ card.counter = 1 /\ card.lastTimestamp = Epoch
        /\ card.startTime = 0 /\ card.endTime = 0 /\ card.log = << >>
    BY <1>2 DEF NewCard
  <2>2. Len(card.log) = 0
    BY <2>1
  <2>3. QED BY <1>3, <2>1, <2>2, Widths DEF CardFits
<1>5. now \in Epoch..MaxTime
  BY Widths DEF WireInit, Init
<1>6. bytes = Sealed(card)
  BY DEF WireInit, Sealed
<1>7. QED BY <1>1, <1>4, <1>5, <1>6 DEF WireInv

(* A card that fits can be encoded.                                        *)
LEMMA FitsEncodes == ASSUME NEW p, Typed(p), CardFits(p) PROVE Encodable(p)
<1>1. \A i \in 1..Len(p.log) : p.log[i].amount \in 0..(AmountRange - 1)
  BY DEF CardFits, EntryFits
<1>2. QED BY <1>1, Widths DEF Encodable

(* A step of the wire is one of the card.                                  *)
LEMMA WireStep == [WireNext]_wireVars => [Next]_vars /\ (Repack \/ UNCHANGED wireVars)
BY DEF WireNext, wireVars

LEMMA StepWire ==
    ASSUME 2 * Skew < Hour
    PROVE  WireInv /\ [WireNext]_wireVars => WireInv'
<1> SUFFICES ASSUME WireInv, [WireNext]_wireVars PROVE WireInv'
  OBVIOUS
<1>0. [Next]_vars /\ Typed(card) /\ CardFits(card)
  BY WireStep DEF WireInv, TypeOK, Typed
<1>1. TypeOK' /\ SessionInv' /\ BalanceWithinLimits'
  BY <1>0, StepType, StepSession, StepLimits DEF WireInv
<1>2. now' \in Epoch..MaxTime
  <2>1. now' = now \/ Tick
    BY <1>0 DEF Next, GateCheckin, TerminalCheckout, BlockWriteBack, StationTopup, StationReset, WriteCard,
                ChangeLocalStatus, AdjustClock, vars
  <2>2. QED BY <2>1, Widths DEF Tick, WireInv
<1>3. CASE card' = card
  <2>1. bytes' = bytes
    BY <1>3, WireStep DEF Repack, wireVars
  <2>2. QED BY <1>1, <1>2, <1>3, <2>1 DEF WireInv, CardFits, EntryFits
<1>4. CASE card' # card
  <2>1. PICK t \in Int, a \in Int, f \in TxType : Wrote(card, card', t, a, f) /\ card.counter < MaxCounter
    BY <1>0, <1>4, StepWrote DEF WireInv
  <2>2. card'.balance \in 0..MaxBalance /\ Typed(card')
    BY <1>1, EngineAssumption DEF BalanceWithinLimits, TypeOK, Typed, CardPayload
  <2>3. CardFits(card')
    BY <1>0, <2>1, <2>2, WroteFits
  <2>4. Encodable(card')
    BY <2>2, <2>3, FitsEncodes
  <2>5. bytes' = PrepareWrite(bytes.trailer, card', Grant(Issuer))
    BY <1>4, <2>4, WireStep DEF Repack, wireVars, vars
  <2>6. bytes' = Sealed(card')
    BY <2>5, SealedAgain DEF WireInv
  <2>7. CardFits(card)' /\ Sealed(card)' = Sealed(card')
    BY <2>3 DEF CardFits, EntryFits, Sealed
  <2>8. QED BY <1>1, <1>2, <2>6, <2>7 DEF WireInv
<1>5. QED BY <1>3, <1>4

LEMMA WireReads == WireInv => ReadsBack
<1> SUFFICES ASSUME WireInv PROVE ReadsBack
  OBVIOUS
<1>1. Typed(card) /\ CardFits(card) /\ bytes = Sealed(card)
  BY DEF WireInv, TypeOK, Typed
<1>2. QED BY <1>1, SealedReadsBack DEF ReadsBack

LEMMA WireTells ==
    ASSUME 2 * Skew < Hour, MaxCounter <= 65535
    PROVE  WireInv /\ [WireNext]_wireVars => (card' # card => ServerIsTold(card, card'))
<1> SUFFICES ASSUME WireInv, [WireNext]_wireVars, card' # card PROVE ServerIsTold(card, card')
  OBVIOUS
<1>1. [Next]_vars /\ Typed(card) /\ card.balance \in 0..MaxBalance
  BY WireStep, EngineAssumption DEF WireInv, TypeOK, Typed, CardPayload, BalanceWithinLimits
<1>2. PICK t \in Int, a \in Int, f \in TxType : Wrote(card, card', t, a, f) /\ card.counter < MaxCounter
  BY <1>1, StepWrote DEF WireInv
<1>3. card'.balance \in 0..MaxBalance
  BY <1>1, StepType, StepSession, StepLimits, EngineAssumption DEF WireInv, BalanceWithinLimits, TypeOK, CardPayload
<1>4. QED BY <1>1, <1>2, <1>3, WroteTold

(* Every write is understood: whatever the history of taps, each device of *)
(* the card's tenant reads back exactly what the last tap meant, no other  *)
(* tenant's does, and the server takes the record of every write but a     *)
(* reset's.  The clocks of two devices are less than an hour apart, for    *)
(* otherwise a checkout may log a negative fee, which no field holds; and  *)
(* a card is written at most as often as the server counts.                *)
THEOREM Understood ==
    ASSUME 2 * Skew < Hour, MaxCounter <= 65535
    PROVE  WireSpec => WritesAreUnderstood
<1>1. WireInv /\ [WireNext]_wireVars => WireInv'
  BY StepWire
<1>2. WireInv /\ [WireNext]_wireVars => (card' # card => ServerIsTold(card, card'))
  BY WireTells
<1>3. QED BY <1>1, <1>2, InitWire, WireReads, PTL DEF WireSpec, WritesAreUnderstood

-----------------------------------------------------------------------------
(***************************************************************************)
(* CardSection: printing cards and restoring them (CardIssuance).  From the*)
(* shapes of the state come: at most one attempt that the operator has not *)
(* confirmed; a card that carries a member has its row, or an attempt on   *)
(* the way to it; what an attempt must have asked before it prints.        *)
(***************************************************************************)

Prepared == [card : Cards, for : Numbers]
Question == Prepared \cup {NoQuestion}
InScan == {"scan", "check", "write", "put"}
Confirmed == {"rewrite", "reput"}

WorldShape ==
    /\ profile \in Profiles /\ mixed \in BOOLEAN
    /\ carries \in [Cards -> {Blank, Garbled, Foreign} \cup {Printed(c, n) : c \in Cards, n \in 0..MaxCalls}]
    /\ row \in [Cards -> {NoRow} \cup {Row(n, p) : n \in 0..MaxCalls, p \in BOOLEAN}]
    /\ server \subseteq Cards /\ cut \subseteq Cards /\ faults \in 0..MaxFaults
    /\ screen \in [drawer : BOOLEAN, phase : Phases]
    /\ recovery \in [at : {"off", "scan", "write"}, card : Cards \cup {NoCard}, for : 0..MaxCalls]
    /\ recovery.at # "off" => recovery.card \in Cards

SessionShape ==
    /\ begun \in 0..MaxCalls /\ aborted \subseteq 1..begun /\ timers \subseteq (1..begun) \ aborted
    /\ refs \in [abort : 0..begun, timer : 0..MaxCalls, prepared : Question]
    /\ asked \in [Dialogs -> Question]

CallShape(x) ==
    /\ x \in Call /\ x.n <= begun /\ x.session <= begun
    /\ x.at # "scan" => x.card \in Cards
    /\ x.at \in InScan => x.session = x.n /\ x.prints = x.for
    /\ x.at \in Confirmed => x.force /\ x.session # x.n /\ x.n \notin aborted \cup timers /\ refs.abort # x.n
Apart(x, y) == x.n # y.n /\ (x.at \in Confirmed => x.n # y.session)
CallsShape ==
    /\ \A x \in calls : CallShape(x)
    /\ \A x, y \in calls : x # y => Apart(x, y)

IssueShape == WorldShape /\ SessionShape /\ CallsShape

LEMMA ShapeTyped == ASSUME IssueShape PROVE IssueTypeOK
<1>1. aborted \subseteq Numbers /\ timers \subseteq Numbers \ aborted
  BY BoundAssumption DEF IssueShape, SessionShape, Numbers
<1>2. refs.abort \in 0..MaxCalls /\ refs.timer \in 0..MaxCalls
  BY BoundAssumption DEF IssueShape, SessionShape
<1>3. Question \subseteq [card : Cards \cup {NoCard}, for : 0..MaxCalls]
  BY BoundAssumption DEF Question, Prepared, NoQuestion, Numbers
<1>4. asked \in [Dialogs -> [card : Cards \cup {NoCard}, for : 0..MaxCalls]]
  BY <1>3 DEF IssueShape, SessionShape
<1>5. refs.prepared \in [card : Cards \cup {NoCard}, for : 0..MaxCalls]
  BY <1>3 DEF IssueShape, SessionShape
<1>6. calls \subseteq Call
  BY DEF IssueShape, CallsShape, CallShape
<1>. QED BY <1>1, <1>2, <1>4, <1>5, <1>6 DEF IssueTypeOK, IssueShape, SessionShape, WorldShape

LEMMA NextNumber ==
    ASSUME IssueShape, begun < profile.calls
    PROVE  begun + 1 \in Numbers /\ begun \in Nat
<1>1. PICK p \in Profiles : p = profile
  BY DEF IssueShape, WorldShape
<1>2. p.calls \in 0..MaxCalls
  BY <1>1, ProfileAssumption
<1>3. begun \in 0..MaxCalls
  BY DEF IssueShape, SessionShape
<1>. QED BY <1>1, <1>2, <1>3, BoundAssumption DEF Numbers

Anew(x) == [x EXCEPT !.at = "scan", !.session = x.n, !.card = NoCard, !.prints = x.for]
At(x, step) == [x EXCEPT !.at = step]

LEMMA CallParts ==
    ASSUME NEW x \in Call
    PROVE  /\ Anew(x) \in Call /\ Anew(x).n = x.n /\ Anew(x).session = x.n /\ Anew(x).at = "scan" /\ Anew(x).force = x.force
           /\ Anew(x).prints = x.for /\ Anew(x).for = x.for /\ Anew(x).via = x.via
           /\ \A step \in {"scan", "check", "write", "put", "rewrite", "reput"} :
                /\ At(x, step) \in Call /\ At(x, step).n = x.n /\ At(x, step).session = x.session /\ At(x, step).at = step
                /\ At(x, step).force = x.force /\ At(x, step).prints = x.prints /\ At(x, step).for = x.for
                /\ At(x, step).card = x.card /\ At(x, step).via = x.via
BY DEF Call, Anew, At

(* A call that goes on anew.                                                *)
LEMMA FreshShape ==
    ASSUME IssueShape, NEW x \in Call, NEW l, NEW dead, Fresh(x, l, dead),
           begun' \in 0..MaxCalls, begun' >= begun, x.n <= begun', x.n \notin aborted \cup dead,
           dead \subseteq 1..begun, \A y \in calls \ {x} : y.n # x.n /\ y.session # x.n,
           l \in [abort : 0..begun, timer : 0..MaxCalls, prepared : Question],
           \A y \in calls \ {x} : y.at \in Confirmed => y.n \notin dead,
           asked' \in [Dialogs -> Question]
    PROVE  SessionShape' /\ CallsShape' /\ screen' \in [drawer : BOOLEAN, phase : Phases]
<1>1. /\ Anew(x) \in Call /\ Anew(x).n = x.n /\ Anew(x).session = x.n /\ Anew(x).at = "scan"
      /\ Anew(x).prints = x.for /\ Anew(x).for = x.for
  BY CallParts
<1>2. /\ calls' = (calls \ {x}) \cup {Anew(x)} /\ aborted' = aborted \cup dead
      /\ timers' = (timers \ ({refs.timer} \cup dead)) \cup {x.n}
      /\ refs' = [l EXCEPT !.abort = x.n, !.timer = x.n]
  BY DEF Fresh, Anew, TimersOf
<1>3. x.n \in 1..MaxCalls /\ begun \in Nat /\ begun' \in Nat /\ x.n \in 1..begun'
  BY BoundAssumption DEF IssueShape, SessionShape, Call, Numbers
<1>4. refs' \in [abort : 0..begun', timer : 0..MaxCalls, prepared : Question] /\ refs'.abort = x.n
  <2>1. refs' = [abort |-> x.n, timer |-> x.n, prepared |-> l.prepared] /\ l.prepared \in Question
    BY <1>2
  <2>. QED BY <2>1, <1>3, BoundAssumption
<1>5. aborted' \subseteq 1..begun' /\ timers' \subseteq (1..begun') \ aborted'
  BY <1>2, <1>3 DEF IssueShape, SessionShape
<1>6. SessionShape'
  BY <1>4, <1>5 DEF SessionShape
<1>7. ASSUME NEW y \in calls' PROVE CallShape(y)'
  <2>1. CASE y = Anew(x)
    BY <2>1, <1>1, <1>3 DEF CallShape, InScan, Confirmed
  <2>2. CASE y \in calls \ {x}
    <3>1. CallShape(y) /\ y.n # x.n /\ y.n \in Nat /\ y.session \in Nat
      BY <2>2, BoundAssumption DEF IssueShape, CallsShape, CallShape, Call, Numbers
    <3>2. y.n <= begun' /\ y.session <= begun'
      BY <3>1, <1>3 DEF CallShape
    <3>3. ASSUME y.at \in Confirmed PROVE y.n \notin aborted' \cup timers' /\ refs'.abort # y.n
      BY <3>1, <3>3, <2>2, <1>2, <1>4 DEF CallShape
    <3>. QED BY <3>1, <3>2, <3>3 DEF CallShape
  <2>. QED BY <2>1, <2>2, <1>2
<1>8. ASSUME NEW y \in calls', NEW z \in calls', y # z PROVE Apart(y, z)
  BY <1>8, <1>1, <1>2 DEF Apart, IssueShape, CallsShape, InScan, Confirmed
<1>. QED BY <1>6, <1>7, <1>8 DEF CallsShape, Fresh, Phases

LEMMA SessionTypes ==
    ASSUME IssueShape
    PROVE  /\ begun \in Nat /\ MaxCalls \in Nat /\ begun <= MaxCalls
           /\ refs.abort \in 0..begun /\ refs.timer \in 0..MaxCalls /\ refs.prepared \in Question
           /\ \A x \in calls : x \in Call /\ x.n \in 1..begun /\ x.session \in 1..begun /\ x.for \in Numbers
           /\ Current \subseteq 1..begun
<1>1. begun \in Nat /\ MaxCalls \in Nat /\ begun <= MaxCalls
  BY BoundAssumption DEF IssueShape, SessionShape
<1>2. refs.abort \in 0..begun /\ refs.timer \in 0..MaxCalls /\ refs.prepared \in Question
  BY DEF IssueShape, SessionShape
<1>3. \A x \in calls : x \in Call /\ x.n \in 1..begun /\ x.session \in 1..begun /\ x.for \in Numbers
  BY <1>1 DEF IssueShape, CallsShape, CallShape, Call, Numbers
<1>. QED BY <1>1, <1>2, <1>3 DEF Current

(* Calls that remain keep their shape, when no confirmed one's own number   *)
(* comes into use.                                                          *)
LEMMA RemainShape ==
    ASSUME IssueShape, calls' \subseteq calls, begun' = begun,
           \A y \in calls' : y.at \in Confirmed => y.n \notin aborted' \cup timers' /\ refs'.abort # y.n
    PROVE  CallsShape'
<1>1. \A y \in calls' : CallShape(y)'
  BY DEF IssueShape, CallsShape, CallShape
<1>2. \A y, z \in calls' : y # z => Apart(y, z)
  BY DEF IssueShape, CallsShape
<1>. QED BY <1>1, <1>2 DEF CallsShape, Apart

LEMMA MovedShape ==
    ASSUME IssueShape, NEW x \in calls, NEW y \in Call, y.n = x.n, y.session = x.session, y.prints = x.prints,
           y.for = x.for, y.force = x.force, y.card \in Cards,
           x.at \in InScan <=> y.at \in InScan, x.at \in Confirmed <=> y.at \in Confirmed,
           calls' = (calls \ {x}) \cup {y}, begun' = begun, aborted' = aborted, timers' = timers,
           refs'.abort = refs.abort
    PROVE  CallsShape'
<1>1. ASSUME NEW z \in calls' PROVE CallShape(z)'
  <2>1. CASE z = y
    BY <2>1 DEF IssueShape, CallsShape, CallShape
  <2>2. CASE z \in calls
    BY <2>2 DEF IssueShape, CallsShape, CallShape
  <2>. QED BY <2>1, <2>2
<1>2. ASSUME NEW z \in calls', NEW v \in calls', z # v PROVE Apart(z, v)
  BY <1>2 DEF IssueShape, CallsShape, Apart
<1>. QED BY <1>1, <1>2 DEF CallsShape, Apart

LEMMA CleanupShape ==
    ASSUME IssueShape, Cleanup, calls' \subseteq calls, begun' = begun, asked' \in [Dialogs -> Question]
    PROVE  SessionShape' /\ CallsShape'
<1>1. refs' = [abort |-> 0, timer |-> 0, prepared |-> NoPrepared]
  BY DEF Cleanup, NoRefs
<1>2. NoPrepared \in Question
  BY DEF Question, NoPrepared, NoQuestion
<1>3. refs' \in [abort : 0..begun, timer : 0..MaxCalls, prepared : Question] /\ refs'.abort = 0
  BY <1>1, <1>2, SessionTypes
<1>4. aborted' \subseteq 1..begun /\ timers' \subseteq (1..begun) \ aborted'
  BY SessionTypes DEF Cleanup, IssueShape, SessionShape
<1>5. SessionShape'
  BY <1>3, <1>4 DEF SessionShape, IssueShape
<1>6. ASSUME NEW y \in calls', y.at \in Confirmed PROVE y.n \notin aborted' \cup timers' /\ refs'.abort # y.n
  BY <1>6, <1>1, SessionTypes DEF Cleanup, Current, IssueShape, CallsShape, CallShape
<1>. QED BY <1>5, <1>6, RemainShape

LEMMA FailedShape ==
    ASSUME IssueShape, NEW x \in calls, Failed(x), begun' = begun
    PROVE  SessionShape' /\ CallsShape'
<1>. DEFINE dead == EndedBy(x)
<1>1. dead \subseteq 1..begun
  BY SessionTypes DEF EndedBy
<1>2. refs' \in [abort : 0..begun, timer : 0..MaxCalls, prepared : Question] /\ refs'.abort \in {0, refs.abort}
  <2>1. refs' = IF x.force THEN NoRefs ELSE [refs EXCEPT !.timer = 0, !.prepared = NoPrepared]
    BY DEF Failed
  <2>2. refs \in [abort : 0..begun, timer : 0..MaxCalls, prepared : Question]
    BY DEF IssueShape, SessionShape
  <2>3. NoPrepared \in Question
    BY DEF Question, NoPrepared, NoQuestion
  <2>4. CASE x.force
    BY <2>1, <2>3, <2>4, SessionTypes DEF NoRefs
  <2>5. CASE ~x.force
    <3>1. refs' = [abort |-> refs.abort, timer |-> 0, prepared |-> NoPrepared]
      BY <2>1, <2>2, <2>5
    <3>. QED BY <3>1, <2>3, SessionTypes
  <2>. QED BY <2>4, <2>5
<1>3. aborted' = aborted \cup dead /\ timers' \subseteq timers \ dead /\ asked' = asked /\ calls' = calls \ {x}
  BY DEF Failed, Ended
<1>4. SessionShape'
  BY <1>1, <1>2, <1>3 DEF SessionShape, IssueShape
<1>5. ASSUME NEW y \in calls', y.at \in Confirmed PROVE y.n \notin aborted' \cup timers' /\ refs'.abort # y.n
  <2>1. CallShape(y) /\ y # x /\ Apart(y, x) /\ y.n # 0
    BY <1>5, <1>3, SessionTypes DEF IssueShape, CallsShape
  <2>2. y.n \notin dead
    BY <2>1, <1>5 DEF EndedBy, Current, CallShape, Apart
  <2>. QED BY <2>1, <2>2, <1>5, <1>2, <1>3 DEF CallShape
<1>. QED BY <1>3, <1>4, <1>5, RemainShape

LEMMA AskShape ==
    ASSUME IssueShape, NEW x \in calls, NEW d \in Dialogs, NEW c \in Cards, NEW r, Ask(x, d, c, r), begun' = begun,
           r \in [abort : {refs.abort}, timer : 0..MaxCalls, prepared : Question]
    PROVE  SessionShape' /\ CallsShape' /\ screen' = screen
<1>1. refs' = [abort |-> refs.abort, timer |-> 0, prepared |-> r.prepared] /\ r.prepared \in Question
  BY DEF Ask
<1>2. [card |-> c, for |-> x.for] \in Question
  BY SessionTypes DEF Question, Prepared
<1>3. asked' \in [Dialogs -> Question]
  BY <1>2 DEF Ask, IssueShape, SessionShape
<1>4. aborted' = aborted /\ timers' \subseteq timers /\ calls' \subseteq calls
  BY DEF Ask, Ended
<1>5. refs' \in [abort : 0..begun, timer : 0..MaxCalls, prepared : Question]
  BY <1>1, SessionTypes
<1>6. SessionShape'
  BY <1>3, <1>4, <1>5 DEF SessionShape, IssueShape
<1>7. \A y \in calls' : y.at \in Confirmed => y.n \notin aborted' \cup timers' /\ refs'.abort # y.n
  BY <1>1, <1>4 DEF IssueShape, CallsShape, CallShape
<1>. QED BY <1>4, <1>6, <1>7, RemainShape DEF Ask

(* Recording a card ends its call.                                          *)
LEMMA RecordedShape ==
    ASSUME IssueShape, NEW x \in calls, x.at \in {"put", "reput"}, Recorded(x), begun' = begun, asked' = asked
    PROVE  /\ SessionShape' /\ CallsShape' /\ cut' \subseteq Cards /\ screen' \in [drawer : BOOLEAN, phase : Phases]
           /\ row' \in [Cards -> {NoRow} \cup {Row(n, p) : n \in 0..MaxCalls, p \in BOOLEAN}]
<1>1. refs' = [abort |-> refs.abort, timer |-> refs.timer, prepared |-> NoPrepared]
  <2>1. refs \in [abort : 0..begun, timer : 0..MaxCalls, prepared : Question]
    BY DEF IssueShape, SessionShape
  <2>. QED BY <2>1 DEF Recorded
<1>2. refs' \in [abort : 0..begun, timer : 0..MaxCalls, prepared : Question] /\ refs'.abort = refs.abort
  BY <1>1, SessionTypes DEF Question, NoPrepared, NoQuestion
<1>3. aborted' = aborted /\ timers' = timers /\ calls' \subseteq calls
  BY DEF Recorded, Ended
<1>4. SessionShape'
  BY <1>2, <1>3 DEF SessionShape, IssueShape
<1>5. \A y \in calls' : y.at \in Confirmed => y.n \notin aborted' \cup timers' /\ refs'.abort # y.n
  BY <1>2, <1>3 DEF IssueShape, CallsShape, CallShape
<1>6. x.card \in Cards /\ x.for \in 0..MaxCalls
  BY SessionTypes DEF IssueShape, CallsShape, CallShape, Numbers
<1>7. row' \in [Cards -> {NoRow} \cup {Row(n, p) : n \in 0..MaxCalls, p \in BOOLEAN}]
  <2>1. RecordOf(x) \in {Row(n, p) : n \in 0..MaxCalls, p \in BOOLEAN}
    <3>1. PICK yes \in BOOLEAN : yes = TRUE
      OBVIOUS
    <3>2. RecordOf(x) = Row(x.for, yes)
      BY <3>1 DEF RecordOf
    <3>. QED BY <3>2, <1>6
  <2>. QED BY <2>1, <1>6 DEF Recorded, IssueShape, WorldShape
<1>8. screen' \in [drawer : BOOLEAN, phase : Phases] /\ cut' \subseteq Cards
  BY DEF Recorded, IssueShape, WorldShape, Phases
<1>. QED BY <1>3, <1>4, <1>5, <1>7, <1>8, RemainShape

LEMMA BeginShape ==
    ASSUME IssueShape, begun < profile.calls, begun' = begun + 1, NEW n \in Numbers, NEW via \in Dialogs \cup {"form", "retry"},
           NEW force \in BOOLEAN, NEW x, x = NewCall(n, force, via)
    PROVE  /\ x \in Call /\ x.n = begun + 1 /\ x.n <= begun' /\ x.for = n /\ x.force = force /\ x.at = "scan" /\ x \notin calls
           /\ begun' \in 0..MaxCalls /\ begun' >= begun /\ x.n \notin aborted \cup Current /\ x.via = via
           /\ \A y \in calls \ {x} : y.n # x.n /\ y.session # x.n
           /\ \A y \in calls \ {x} : y.at \in Confirmed => y.n \notin Current
<1>1. begun + 1 \in Numbers /\ begun \in Nat
  BY NextNumber
<1>2. x \in Call /\ x.n = begun + 1 /\ x.for = n /\ x.force = force /\ x.at = "scan" /\ x.via = via
  BY <1>1 DEF NewCall, Call
<1>3. \A y \in calls : y.n <= begun /\ y.session <= begun /\ y.n \in Nat /\ y.session \in Nat
  BY SessionTypes
<1>4. aborted \cup Current \subseteq 1..begun
  BY SessionTypes DEF IssueShape, SessionShape
<1>5. \A y \in calls : y.at \in Confirmed => y.n \notin Current
  BY DEF IssueShape, CallsShape, CallShape, Current
<1>. QED BY <1>1, <1>2, <1>3, <1>4, <1>5, BoundAssumption DEF Numbers

LEMMA SameSessions ==
    ASSUME IssueShape, UNCHANGED <<calls, begun, aborted, timers, refs, asked>>
    PROVE  SessionShape' /\ CallsShape'
<1>1. SessionShape'
  BY DEF IssueShape, SessionShape
<1>2. \A x \in calls' : CallShape(x)'
  BY DEF IssueShape, CallsShape, CallShape
<1>. QED BY <1>1, <1>2 DEF IssueShape, CallsShape, Apart

Screens == [drawer : BOOLEAN, phase : Phases]
CardStates == {Blank, Garbled, Foreign} \cup {Printed(c, n) : c \in Cards, n \in 0..MaxCalls}
RowStates == {NoRow} \cup {Row(n, p) : n \in 0..MaxCalls, p \in BOOLEAN}

LEMMA BeginFresh ==
    ASSUME IssueShape, begun < profile.calls, begun' = begun + 1, NEW n \in Numbers, NEW via \in Dialogs \cup {"form", "retry"},
           NEW force \in BOOLEAN, NEW l \in [abort : 0..begun, timer : 0..MaxCalls, prepared : Question],
           Fresh(NewCall(n, force, via), l, Current), asked' \in [Dialogs -> Question]
    PROVE  SessionShape' /\ CallsShape' /\ screen' \in Screens
<1>1. PICK x : x = NewCall(n, force, via)
  OBVIOUS
<1>2. /\ x \in Call /\ begun' \in 0..MaxCalls /\ begun' >= begun /\ x.n <= begun' /\ x.n \notin aborted \cup Current
      /\ \A y \in calls \ {x} : y.n # x.n /\ y.session # x.n
      /\ \A y \in calls \ {x} : y.at \in Confirmed => y.n \notin Current
  BY <1>1, BeginShape
<1>3. Fresh(x, l, Current) /\ Current \subseteq 1..begun
  BY <1>1, SessionTypes
<1>. QED BY <1>2, <1>3, FreshShape DEF Screens

LEMMA NoRefsTyped == ASSUME IssueShape PROVE NoRefs \in [abort : 0..begun, timer : 0..MaxCalls, prepared : Question]
BY SessionTypes DEF NoRefs, Question, NoPrepared, NoQuestion

LEMMA ShapeByOperator ==
    ASSUME IssueShape,
           \/ OpenDrawer \/ PressIssue \/ PressRetry \/ CloseDrawer \/ Reload \/ RecoveryEnds
           \/ \E d \in Dialogs : CancelDialog(d) \/ ConfirmDialog(d)
    PROVE  IssueShape'
<1>0. screen \in Screens /\ \A phase \in Phases, open \in BOOLEAN : [drawer |-> open, phase |-> phase] \in Screens
  BY DEF IssueShape, WorldShape, Screens
<1>1. CASE OpenDrawer
  <2>1. screen' \in Screens
    BY <1>0, <1>1 DEF OpenDrawer, Screens
  <2>2. WorldShape'
    BY <2>1, <1>1 DEF OpenDrawer, IssueShape, WorldShape, Screens
  <2>. QED BY <2>2, <1>1, SameSessions DEF OpenDrawer, IssueShape
<1>2. CASE PressIssue
  <2>1. begun < profile.calls /\ begun' = begun + 1 /\ Fresh(NewCall(begun + 1, FALSE, "form"), refs, Current)
    BY <1>2 DEF PressIssue, MayBegin
  <2>2. PICK no \in BOOLEAN : no = FALSE
    OBVIOUS
  <2>3. begun + 1 \in Numbers
    BY <2>1, NextNumber
  <2>4. /\ Fresh(NewCall(begun + 1, no, "form"), refs, Current) /\ asked' \in [Dialogs -> Question]
        /\ refs \in [abort : 0..begun, timer : 0..MaxCalls, prepared : Question]
    BY <2>1, <2>2, <1>2 DEF PressIssue, IssueShape, SessionShape
  <2>5. SessionShape' /\ CallsShape' /\ screen' \in Screens
    BY <2>1, <2>3, <2>4, BeginFresh
  <2>6. WorldShape'
    BY <2>5, <1>2 DEF PressIssue, IssueShape, WorldShape, Screens, Mixes
  <2>. QED BY <2>5, <2>6 DEF IssueShape
<1>3. CASE PressRetry
  <2>1. CASE refs.prepared = NoPrepared
    <3>1. UNCHANGED <<calls, begun, aborted, timers, refs, asked, mixed>> /\ screen' \in Screens
      BY <1>0, <1>3, <2>1 DEF PressRetry, Screens, Phases
    <3>2. WorldShape'
      BY <3>1, <1>3 DEF PressRetry, IssueShape, WorldShape, Screens
    <3>. QED BY <3>1, <3>2, SameSessions DEF IssueShape
  <2>2. CASE refs.prepared # NoPrepared
    <3>1. /\ begun < profile.calls /\ begun' = begun + 1 /\ Fresh(NewCall(refs.prepared.for, FALSE, "retry"), NoRefs, Current)
          /\ asked' = asked /\ Mixes(FALSE)
      BY <1>3, <2>2 DEF PressRetry, MayBegin
    <3>2. PICK no \in BOOLEAN : no = FALSE
      OBVIOUS
    <3>3. refs.prepared.for \in Numbers
      BY <2>2, SessionTypes DEF Question, Prepared, NoPrepared, NoQuestion
    <3>4. Fresh(NewCall(refs.prepared.for, no, "retry"), NoRefs, Current) /\ asked' \in [Dialogs -> Question]
      BY <3>1, <3>2 DEF IssueShape, SessionShape
    <3>5. SessionShape' /\ CallsShape' /\ screen' \in Screens
      BY <3>1, <3>3, <3>4, NoRefsTyped, BeginFresh
    <3>6. WorldShape'
      BY <3>1, <3>5, <1>3 DEF PressRetry, IssueShape, WorldShape, Screens, Mixes
    <3>. QED BY <3>5, <3>6 DEF IssueShape
  <2>. QED BY <2>1, <2>2
<1>4. CASE CloseDrawer
  <2>1. SessionShape' /\ CallsShape'
    BY <1>4, CleanupShape DEF CloseDrawer, IssueShape, SessionShape
  <2>2. {x.card : x \in CutOff} \subseteq Cards
    BY DEF CutOff, IssueShape, CallsShape, CallShape
  <2>3. WorldShape'
    BY <2>2, <1>0, <1>4 DEF CloseDrawer, IssueShape, WorldShape, Screens, Phases
  <2>. QED BY <2>1, <2>3 DEF IssueShape
<1>5. CASE Reload
  <2>1. SessionShape'
    BY <1>5, NoRefsTyped DEF Reload, IssueShape, SessionShape, Question
  <2>2. CallsShape'
    BY <1>5 DEF Reload, CallsShape
  <2>3. {x.card : x \in {y \in calls : y.at \in {"put", "reput"}}} \subseteq Cards
    BY DEF IssueShape, CallsShape, CallShape
  <2>4. NoRecovery.at = "off" /\ NoRecovery \in [at : {"off", "scan", "write"}, card : Cards \cup {NoCard}, for : 0..MaxCalls]
    BY SessionTypes DEF NoRecovery
  <2>5. faults' \in 0..MaxFaults
    BY <1>5, BoundAssumption DEF Reload, Fault, IssueShape, WorldShape
  <2>6. WorldShape'
    BY <2>3, <2>4, <2>5, <1>0, <1>5 DEF Reload, IssueShape, WorldShape, Screens, Phases
  <2>. QED BY <2>1, <2>2, <2>6 DEF IssueShape
<1>6. CASE RecoveryEnds
  <2>1. NoRecovery.at = "off" /\ NoRecovery \in [at : {"off", "scan", "write"}, card : Cards \cup {NoCard}, for : 0..MaxCalls]
    BY SessionTypes DEF NoRecovery
  <2>2. WorldShape'
    BY <2>1, <1>6 DEF RecoveryEnds, IssueShape, WorldShape
  <2>. QED BY <2>2, <1>6, SameSessions DEF RecoveryEnds, IssueShape
<1>7. ASSUME NEW d \in Dialogs, CancelDialog(d) PROVE IssueShape'
  <2>1. asked' \in [Dialogs -> Question]
    BY <1>7 DEF CancelDialog, IssueShape, SessionShape, Question
  <2>2. SessionShape' /\ CallsShape'
    BY <2>1, <1>7, CleanupShape DEF CancelDialog
  <2>3. {x.card : x \in CutOff} \subseteq Cards
    BY DEF CutOff, IssueShape, CallsShape, CallShape
  <2>4. screen' \in Screens
    BY <1>7, <1>0 DEF CancelDialog, Screens
  <2>5. WorldShape'
    BY <2>3, <2>4, <1>7 DEF CancelDialog, IssueShape, WorldShape, Screens
  <2>. QED BY <2>2, <2>5 DEF IssueShape
<1>8. ASSUME NEW d \in Dialogs, ConfirmDialog(d) PROVE IssueShape'
  <2>1. begun < profile.calls /\ begun' = begun + 1
    BY <1>8 DEF ConfirmDialog
  <2>2. asked' \in [Dialogs -> Question] /\ asked[d].for \in Numbers
    BY <1>8 DEF ConfirmDialog, IssueShape, SessionShape, Question, Prepared
  <2>3. PICK yes \in BOOLEAN : yes = TRUE
    OBVIOUS
  <2>4. PICK x : x = NewCall(asked[d].for, yes, d)
    OBVIOUS
  <2>5. SessionShape' /\ CallsShape' /\ screen' \in Screens
    <3>1. CASE refs.prepared # NoPrepared /\ Live(refs.abort)
      <4>1. /\ x \in Call /\ x.n = begun + 1 /\ x.n <= begun' /\ x \notin calls /\ begun' \in 0..MaxCalls
            /\ x.n \notin aborted \cup Current /\ x.force = yes /\ \A y \in calls \ {x} : y.n # x.n /\ y.session # x.n
        <5>1. \A n \in Numbers, via \in Dialogs \cup {"form", "retry"}, force \in BOOLEAN :
                x = NewCall(n, force, via) =>
                  /\ x \in Call /\ x.n = begun + 1 /\ x.n <= begun' /\ x \notin calls /\ begun' \in 0..MaxCalls
                  /\ x.n \notin aborted \cup Current /\ x.force = force /\ \A y \in calls \ {x} : y.n # x.n /\ y.session # x.n
          BY <2>1, BeginShape
        <5>. QED BY <5>1, <2>2, <2>4
      <4>2. PICK z : z = [x EXCEPT !.at = "rewrite", !.session = refs.abort, !.card = refs.prepared.card, !.prints = refs.prepared.for]
        OBVIOUS
      <4>3. refs.prepared.card \in Cards /\ refs.prepared.for \in Numbers /\ refs.abort \in 1..begun
        BY <3>1, SessionTypes DEF Question, Prepared, NoPrepared, NoQuestion, Live
      <4>4. /\ z \in Call /\ z.n = begun + 1 /\ z.session = refs.abort /\ z.at = "rewrite" /\ z.force = yes
            /\ z.card \in Cards /\ z.for = x.for
        <5>1. refs.abort \in Numbers
          BY <4>3, SessionTypes DEF Numbers
        <5>. QED BY <4>1, <4>2, <4>3, <5>1 DEF Call
      <4>5. calls' = calls \cup {z} /\ UNCHANGED <<aborted, timers, refs>> /\ screen' = [screen EXCEPT !.phase = "writing"]
        BY <1>8, <2>3, <2>4, <3>1, <4>2 DEF ConfirmDialog
      <4>6. SessionShape'
        BY <4>5, <4>1, <2>1, <2>2, SessionTypes DEF SessionShape, IssueShape
      <4>7. ASSUME NEW y \in calls' PROVE CallShape(y)'
        <5>1. CASE y \in calls
          BY <5>1, <4>5, <2>1, SessionTypes DEF IssueShape, CallsShape, CallShape
        <5>2. CASE y = z
          <6>1. z.n \notin aborted \cup timers /\ refs.abort # z.n /\ z.session # z.n
            BY <4>3, <4>4, SessionTypes DEF IssueShape, SessionShape
          <6>2. z.n <= begun' /\ z.session <= begun'
            BY <4>3, <4>4, <2>1, SessionTypes
          <6>. QED BY <5>2, <6>1, <6>2, <4>4, <4>5, <2>3 DEF CallShape, InScan, Confirmed
        <5>. QED BY <5>1, <5>2, <4>5
      <4>8. ASSUME NEW y \in calls', NEW v \in calls', y # v PROVE Apart(y, v)
        <5>1. CASE y \in calls /\ v \in calls
          BY <5>1, <4>8 DEF IssueShape, CallsShape
        <5>2. CASE y = z /\ v \in calls
          BY <5>2, <4>3, <4>4, SessionTypes DEF Apart
        <5>3. CASE y \in calls /\ v = z
          BY <5>3, <4>3, <4>4, SessionTypes DEF Apart, IssueShape, CallsShape, CallShape
        <5>. QED BY <5>1, <5>2, <5>3, <4>5, <4>8
      <4>9. CallsShape'
        BY <4>7, <4>8 DEF CallsShape, Apart
      <4>. QED BY <4>5, <4>6, <4>9, <1>0 DEF Screens, Phases
    <3>2. CASE ~(refs.prepared # NoPrepared /\ Live(refs.abort))
      <4>1. Fresh(NewCall(asked[d].for, yes, d), [refs EXCEPT !.prepared = NoPrepared], Current)
        BY <1>8, <2>3, <3>2 DEF ConfirmDialog
      <4>2. [refs EXCEPT !.prepared = NoPrepared] \in [abort : 0..begun, timer : 0..MaxCalls, prepared : Question]
        BY DEF IssueShape, SessionShape, Question, NoPrepared, NoQuestion
      <4>. QED BY <2>1, <2>2, <4>1, <4>2, BeginFresh
    <3>. QED BY <3>1, <3>2
  <2>6. mixed' \in BOOLEAN
    BY <1>8 DEF ConfirmDialog, Mixes
  <2>7. UNCHANGED <<profile, carries, row, server, recovery, faults, cut>>
    BY <1>8 DEF ConfirmDialog
  <2>8. WorldShape'
    BY <2>5, <2>6, <2>7 DEF IssueShape, WorldShape, Screens
  <2>. QED BY <2>5, <2>8 DEF IssueShape
<1>. QED BY <1>1, <1>2, <1>3, <1>4, <1>5, <1>6, <1>7, <1>8

LEMMA BlankTyped == {Blank, Garbled, Foreign} \subseteq CardStates /\ \A c \in Cards, n \in 0..MaxCalls : Printed(c, n) \in CardStates
BY DEF CardStates

LEMMA ShapeByCall ==
    ASSUME IssueShape, NEW x \in calls, CallStep(x)
    PROVE  IssueShape'
<1>0. /\ x \in Call /\ x.n \in 1..begun /\ x.session \in 1..begun /\ x.for \in Numbers /\ x.prints \in Numbers /\ CallShape(x)
      /\ screen \in Screens /\ \A phase \in Phases : [screen EXCEPT !.phase = phase] \in Screens
  BY SessionTypes DEF IssueShape, WorldShape, Screens, CallsShape, Call
<1>1. ASSUME NEW c \in Cards, Scan(x, c) PROVE IssueShape'
  <2>1. PICK r : r = [refs EXCEPT !.prepared = [card |-> c, for |-> x.for]]
    OBVIOUS
  <2>2. r \in [abort : {refs.abort}, timer : 0..MaxCalls, prepared : Question] /\ r.abort = refs.abort
        /\ r \in [abort : 0..begun, timer : 0..MaxCalls, prepared : Question]
    <3>1. [card |-> c, for |-> x.for] \in Question
      BY <1>0 DEF Question, Prepared
    <3>2. r = [abort |-> refs.abort, timer |-> refs.timer, prepared |-> [card |-> c, for |-> x.for]]
      BY <2>1 DEF IssueShape, SessionShape
    <3>. QED BY <3>1, <3>2, SessionTypes
  <2>3. UNCHANGED <<profile, carries, row, server, begun, recovery, faults, cut, mixed>> /\ x.at = "scan"
    BY <1>1 DEF Scan
  <2>4. CASE HasData(c) /\ ~x.force
    <3>1. Ask(x, "notBlank", c, r)
      BY <1>1, <2>1, <2>4 DEF Scan
    <3>2. SessionShape' /\ CallsShape' /\ screen' = screen
      BY <3>1, <2>2, <2>3, AskShape DEF Dialogs
    <3>. QED BY <3>2, <2>3 DEF IssueShape, WorldShape
  <2>5. CASE ~(HasData(c) /\ ~x.force)
    <3>1. PICK y : y = [x EXCEPT !.at = "check", !.card = c]
      OBVIOUS
    <3>2. calls' = (calls \ {x}) \cup {y} /\ refs' = r /\ UNCHANGED <<aborted, timers, screen, asked>>
      BY <1>1, <2>1, <2>5, <3>1 DEF Scan
    <3>3. /\ y \in Call /\ y.n = x.n /\ y.session = x.session /\ y.prints = x.prints /\ y.for = x.for /\ y.force = x.force
          /\ y.card = c /\ y.at = "check"
      BY <3>1, <1>0 DEF Call
    <3>4. CallsShape'
      BY <3>2, <3>3, <2>2, <2>3, MovedShape DEF InScan, Confirmed
    <3>5. SessionShape'
      BY <3>2, <2>2, <2>3 DEF IssueShape, SessionShape
    <3>. QED BY <3>2, <3>4, <3>5, <2>3 DEF IssueShape, WorldShape
  <2>. QED BY <2>4, <2>5
<1>2. ASSUME NEW c \in Cards, WriteLands(x, c) PROVE IssueShape'
  <2>1. PICK step \in {"put", "reput"} : step = IF x.at = "write" THEN "put" ELSE "reput"
    OBVIOUS
  <2>2. PICK y : y = At(x, step)
    OBVIOUS
  <2>3. /\ calls' = (calls \ {x}) \cup {y} /\ carries' = [carries EXCEPT ![c] = Prints(x)] /\ x.at \in {"write", "rewrite"}
        /\ UNCHANGED <<profile, row, server, begun, aborted, timers, refs, screen, asked, recovery, faults, cut, mixed>>
    BY <1>2, <2>1, <2>2 DEF WriteLands, Move, At
  <2>4. /\ y \in Call /\ y.n = x.n /\ y.session = x.session /\ y.prints = x.prints /\ y.for = x.for /\ y.force = x.force
        /\ y.card = x.card /\ y.at = step /\ x.card \in Cards
    BY <1>0, <2>1, <2>2, <2>3, CallParts DEF CallShape
  <2>5. CallsShape'
    BY <2>1, <2>3, <2>4, MovedShape DEF InScan, Confirmed
  <2>6. carries' \in [Cards -> CardStates]
    <3>1. x.prints \in 0..MaxCalls
      BY <1>0, BoundAssumption DEF Numbers
    <3>2. Prints(x) \in CardStates
      BY <2>4, <3>1, BlankTyped DEF Prints
    <3>. QED BY <3>2, <2>3 DEF IssueShape, WorldShape, CardStates
  <2>. QED BY <2>3, <2>5, <2>6 DEF IssueShape, WorldShape, SessionShape, CardStates
<1>3. CASE Check(x)
  <2>1. UNCHANGED <<profile, carries, row, server, begun, recovery, faults, cut, mixed>> /\ x.at = "check" /\ x.card \in Cards
    BY <1>3, <1>0 DEF Check, CallShape
  <2>2. CASE Registered(x.card) /\ ~x.force
    <3>1. Ask(x, "overwrite", x.card, refs)
      BY <1>3, <2>2 DEF Check
    <3>2. refs \in [abort : {refs.abort}, timer : 0..MaxCalls, prepared : Question]
      BY DEF IssueShape, SessionShape
    <3>3. SessionShape' /\ CallsShape' /\ screen' = screen
      BY <3>1, <3>2, <2>1, AskShape DEF Dialogs
    <3>. QED BY <3>3, <2>1 DEF IssueShape, WorldShape
  <2>3. CASE ~(Registered(x.card) /\ ~x.force)
    <3>1. PICK y : y = At(x, "write")
      OBVIOUS
    <3>2. calls' = (calls \ {x}) \cup {y} /\ UNCHANGED <<aborted, timers, refs, asked>> /\ screen' \in Screens
      BY <1>0, <1>3, <2>3, <3>1 DEF Check, Move, At, Phases
    <3>3. /\ y \in Call /\ y.n = x.n /\ y.session = x.session /\ y.prints = x.prints /\ y.for = x.for /\ y.force = x.force
          /\ y.card = x.card /\ y.at = "write"
      BY <1>0, <3>1, CallParts
    <3>4. CallsShape'
      BY <2>1, <3>2, <3>3, MovedShape DEF InScan, Confirmed
    <3>. QED BY <3>2, <3>4, <2>1 DEF IssueShape, WorldShape, SessionShape, Screens
  <2>. QED BY <2>2, <2>3
<1>4. CASE CheckFails(x) \/ ScanEndsShort(x)
  <2>1. Failed(x) /\ UNCHANGED <<profile, carries, row, server, begun, recovery, cut, mixed>>
    BY <1>4 DEF CheckFails, ScanEndsShort
  <2>2. faults' \in 0..MaxFaults
    BY <1>4, BoundAssumption DEF CheckFails, ScanEndsShort, Fault, IssueShape, WorldShape
  <2>3. SessionShape' /\ CallsShape' /\ screen' \in Screens
    BY <1>0, <2>1, FailedShape DEF Failed, Phases
  <2>. QED BY <2>1, <2>2, <2>3 DEF IssueShape, WorldShape, Screens
<1>5. CASE WriteBreaks(x)
  <2>1. UNCHANGED <<profile, row, server, begun, recovery, cut, mixed>> /\ x.at \in {"write", "rewrite"} /\ x.card \in Cards
    BY <1>5, <1>0 DEF WriteBreaks, CallShape
  <2>2. carries' \in [Cards -> CardStates] /\ faults' \in 0..MaxFaults
    <3>1. CASE UNCHANGED <<carries, faults>>
      BY <3>1 DEF IssueShape, WorldShape, CardStates
    <3>2. ASSUME NEW old \in {Garbled, carries[x.card]}, carries' = [carries EXCEPT ![x.card] = old], Fault
          PROVE  carries' \in [Cards -> CardStates] /\ faults' \in 0..MaxFaults
      <4>1. old \in CardStates
        BY <2>1, <3>2 DEF IssueShape, WorldShape, CardStates
      <4>2. carries \in [Cards -> CardStates]
        BY DEF IssueShape, WorldShape, CardStates
      <4>4. carries' \in [Cards -> CardStates]
        BY <2>1, <3>2, <4>1, <4>2
      <4>3. faults' \in 0..MaxFaults
        BY <3>2, BoundAssumption DEF Fault, IssueShape, WorldShape
      <4>. QED BY <4>3, <4>4
    <3>. QED BY <1>5, <3>1, <3>2 DEF WriteBreaks
  <2>3. SessionShape' /\ CallsShape' /\ screen' \in Screens
    <3>1. CASE x.at = "write"
      BY <1>0, <1>5, <2>1, <3>1, FailedShape DEF WriteBreaks, Failed, Phases
    <3>2. CASE x.at = "rewrite"
      <4>1. PICK l : l = [refs EXCEPT !.prepared = NoPrepared]
        OBVIOUS
      <4>2. Fresh(x, l, {x.session}) /\ asked' = asked
        BY <1>5, <3>2, <4>1 DEF WriteBreaks
      <4>3. l \in [abort : 0..begun, timer : 0..MaxCalls, prepared : Question]
        BY <4>1 DEF IssueShape, SessionShape, Question, NoPrepared, NoQuestion
      <4>4. x.n \notin aborted \cup {x.session} /\ \A y \in calls \ {x} : y.n # x.n /\ y.session # x.n
        BY <1>0, <3>2 DEF CallShape, Confirmed, IssueShape, CallsShape, Apart
      <4>5. \A y \in calls \ {x} : y.at \in Confirmed => y.n \notin {x.session}
        BY DEF IssueShape, CallsShape, Apart
      <4>6. begun' \in 0..MaxCalls /\ begun' >= begun /\ x.n <= begun' /\ asked' \in [Dialogs -> Question]
        BY <1>0, <2>1, <4>2, SessionTypes DEF IssueShape, SessionShape
      <4>. QED BY <1>0, <4>2, <4>3, <4>4, <4>5, <4>6, FreshShape DEF Screens
    <3>. QED BY <2>1, <3>1, <3>2
  <2>. QED BY <2>1, <2>2, <2>3 DEF IssueShape, WorldShape, CardStates, Screens
<1>6. CASE Put(x)
  <2>1. Recorded(x) /\ UNCHANGED <<profile, carries, server, begun, asked, recovery, faults, mixed>> /\ x.at = "put"
    BY <1>6 DEF Put
  <2>. QED BY <2>1, RecordedShape DEF IssueShape, WorldShape
<1>7. CASE Reput(x)
  <2>1. UNCHANGED <<profile, carries, server, begun, asked, recovery, faults, mixed>> /\ x.at = "reput"
    BY <1>7 DEF Reput
  <2>2. CASE Recorded(x)
    BY <2>1, <2>2, RecordedShape DEF IssueShape, WorldShape
  <2>3. CASE Fresh(x, refs, Current) /\ UNCHANGED <<row, cut>>
    <3>1. x.n \notin aborted \cup Current /\ \A y \in calls \ {x} : y.n # x.n /\ y.session # x.n
      BY <1>0, <2>1 DEF CallShape, Confirmed, IssueShape, CallsShape, Apart, Current
    <3>2. \A y \in calls \ {x} : y.at \in Confirmed => y.n \notin Current
      BY DEF IssueShape, CallsShape, CallShape, Current
    <3>3. begun' \in 0..MaxCalls /\ begun' >= begun /\ x.n <= begun' /\ asked' \in [Dialogs -> Question]
          /\ refs \in [abort : 0..begun, timer : 0..MaxCalls, prepared : Question]
      BY <1>0, <2>1, SessionTypes DEF IssueShape, SessionShape
    <3>4. SessionShape' /\ CallsShape' /\ screen' \in Screens
      BY <1>0, <2>3, <3>1, <3>2, <3>3, SessionTypes, FreshShape DEF Screens
    <3>. QED BY <2>1, <2>3, <3>4 DEF IssueShape, WorldShape, Screens
  <2>. QED BY <1>7, <2>2, <2>3 DEF Reput
<1>. QED BY <1>1, <1>2, <1>3, <1>4, <1>5, <1>6, <1>7 DEF CallStep

LEMMA RowPushed ==
    ASSUME NEW n, NEW p, NEW q
    PROVE  /\ [Row(n, p) EXCEPT !.pending = q] = Row(n, q)
           /\ Row(n, p).for = n
<1>1. \A k : [[known |-> k, for |-> n, pending |-> p] EXCEPT !.pending = q] = [known |-> k, for |-> n, pending |-> q]
  OBVIOUS
<1>2. \A k : [known |-> k, for |-> n, pending |-> p].for = n
  OBVIOUS
<1>3. \A m, r : Row(m, r) = [known |-> TRUE, for |-> m, pending |-> r]
  BY Zenon DEF Row
<1>4. PICK k : k = TRUE
  OBVIOUS
<1>. QED BY <1>1, <1>2, <1>3, <1>4

LEMMA ShapeByWorld ==
    ASSUME IssueShape,
           \/ \E s \in Numbers : TimeOut(s)
           \/ \E c \in Cards : Recover(c) \/ RecoveryScan(c) \/ RecoveryWrite(c) \/ PushRow(c) \/ Damage(c)
    PROVE  IssueShape'
<1>. DEFINE Recoveries == [at : {"off", "scan", "write"}, card : Cards \cup {NoCard}, for : 0..MaxCalls]
<1>0. /\ recovery \in Recoveries /\ (recovery.at # "off" => recovery.card \in Cards) /\ NoRecovery \in Recoveries
      /\ NoRecovery.at = "off" /\ carries \in [Cards -> CardStates] /\ row \in [Cards -> RowStates]
  BY SessionTypes DEF IssueShape, WorldShape, NoRecovery, CardStates, RowStates
<1>1. ASSUME NEW s \in Numbers, TimeOut(s) PROVE IssueShape'
  <2>1. /\ s \in timers /\ timers' = timers \ {s} /\ aborted' = aborted \cup {s}
        /\ UNCHANGED <<profile, carries, row, server, calls, begun, refs, screen, asked, recovery, faults, mixed>>
    BY <1>1 DEF TimeOut
  <2>2. SessionShape'
    BY <2>1 DEF IssueShape, SessionShape
  <2>3. \A y \in calls' : y.at \in Confirmed => y.n \notin aborted' \cup timers' /\ refs'.abort # y.n
    BY <2>1 DEF IssueShape, CallsShape, CallShape
  <2>4. CallsShape'
    BY <2>1, <2>3, RemainShape
  <2>5. cut' \subseteq Cards
    <3>1. \A x \in calls : x.at = "reput" => x.card \in Cards
      BY DEF IssueShape, CallsShape, CallShape
    <3>. QED BY <1>1, <3>1 DEF TimeOut, IssueShape, WorldShape
  <2>. QED BY <2>1, <2>2, <2>4, <2>5 DEF IssueShape, WorldShape
<1>2. ASSUME NEW c \in Cards, Recover(c) PROVE IssueShape'
  <2>1. row[c].for \in 0..MaxCalls
    BY <1>0, <1>2, BoundAssumption DEF RowStates, Row, NoRow
  <2>2. recovery' \in Recoveries /\ (recovery'.at # "off" => recovery'.card \in Cards)
    BY <1>2, <2>1 DEF Recover
  <2>3. WorldShape'
    BY <2>2, <1>2 DEF Recover, IssueShape, WorldShape
  <2>. QED BY <2>3, <1>2, SameSessions DEF Recover, IssueShape
<1>3. ASSUME NEW c \in Cards, RecoveryScan(c) PROVE IssueShape'
  <2>1. recovery' \in Recoveries /\ (recovery'.at # "off" => recovery'.card \in Cards)
    BY <1>0, <1>3 DEF RecoveryScan
  <2>2. WorldShape'
    BY <2>1, <1>3 DEF RecoveryScan, IssueShape, WorldShape
  <2>. QED BY <2>2, <1>3, SameSessions DEF RecoveryScan, IssueShape
<1>4. ASSUME NEW c \in Cards, RecoveryWrite(c) PROVE IssueShape'
  <2>1. Restored \in CardStates
    BY <1>0, <1>4, BlankTyped DEF Restored, RecoveryWrite
  <2>2. carries' \in [Cards -> CardStates] /\ recovery' \in Recoveries /\ recovery'.at = "off"
    BY <1>0, <1>4, <2>1 DEF RecoveryWrite
  <2>3. WorldShape'
    BY <2>2, <1>4 DEF RecoveryWrite, IssueShape, WorldShape, CardStates
  <2>. QED BY <2>3, <1>4, SameSessions DEF RecoveryWrite, IssueShape
<1>5. ASSUME NEW c \in Cards, PushRow(c) PROVE IssueShape'
  <2>1. [row[c] EXCEPT !.pending = FALSE] \in RowStates
    <3>1. PICK no \in BOOLEAN : no = FALSE
      OBVIOUS
    <3>2. row[c] # NoRow
      BY <1>5 DEF PushRow, NoRow
    <3>3. PICK n \in 0..MaxCalls, p \in BOOLEAN : row[c] = Row(n, p)
      BY <1>0, <3>2 DEF RowStates
    <3>4. [row[c] EXCEPT !.pending = no] = Row(n, no)
      BY <3>3, RowPushed
    <3>. QED BY <3>1, <3>4 DEF RowStates
  <2>2. row' \in [Cards -> RowStates]
    <3>1. row' = [row EXCEPT ![c] = [row[c] EXCEPT !.pending = FALSE]]
      BY <1>5 DEF PushRow
    <3>. QED BY <3>1, <2>1, <1>0
  <2>3. WorldShape'
    BY <2>2, <1>5 DEF PushRow, IssueShape, WorldShape, RowStates
  <2>. QED BY <2>3, <1>5, SameSessions DEF PushRow, IssueShape
<1>6. ASSUME NEW c \in Cards, Damage(c) PROVE IssueShape'
  <2>1. carries' \in [Cards -> CardStates] /\ faults' \in 0..MaxFaults
    <3>1. carries' \in [Cards -> CardStates]
      BY <1>0, <1>6, BlankTyped DEF Damage
    <3>2. faults' \in 0..MaxFaults
      BY <1>6, BoundAssumption DEF Damage, Fault, IssueShape, WorldShape
    <3>. QED BY <3>1, <3>2
  <2>2. WorldShape'
    BY <2>1, <1>6 DEF Damage, IssueShape, WorldShape, CardStates
  <2>. QED BY <2>2, <1>6, SameSessions DEF Damage, IssueShape
<1>. QED BY <1>1, <1>2, <1>3, <1>4, <1>5, <1>6

LEMMA ShapeStep == ASSUME IssueShape, [IssueNext]_issueVars PROVE IssueShape'
<1>1. CASE UNCHANGED issueVars
  <2>1. WorldShape'
    BY <1>1 DEF issueVars, IssueShape, WorldShape
  <2>. QED BY <1>1, <2>1, SameSessions DEF issueVars, IssueShape
<1>2. CASE IssueNext
  BY <1>2, ShapeByOperator, ShapeByCall, ShapeByWorld DEF IssueNext
<1>. QED BY <1>1, <1>2

LEMMA ShapeInit == ASSUME IssueInit PROVE IssueShape
<1>1. PICK past \in [Cards -> Pasts \cup {Today(c) : c \in Cards}] :
        /\ \A c \in Cards : past[c] \in Pasts \cup {Today(c)}
        /\ carries = [c \in Cards |-> past[c].card] /\ row = [c \in Cards |-> past[c].row]
        /\ server = {c \in Cards : past[c].server}
  BY DEF IssueInit
<1>2. ASSUME NEW c \in Cards PROVE past[c].card \in CardStates /\ past[c].row \in RowStates
  <2>1. Row(0, FALSE) \in RowStates
    <3>1. PICK no \in BOOLEAN : no = FALSE
      OBVIOUS
    <3>2. Row(0, no) \in RowStates
      BY BoundAssumption DEF RowStates
    <3>. QED BY <3>1, <3>2
  <2>2. NoRow \in RowStates /\ Printed(c, 0) \in CardStates /\ Blank \in CardStates /\ Foreign \in CardStates
    BY BoundAssumption, BlankTyped DEF RowStates
  <2>3. past[c] \in Pasts \cup {Today(c)}
    BY <1>1
  <2>5. CASE past[c] = Today(c)
    <3>1. past[c] = [card |-> Printed(c, 0), row |-> Row(0, FALSE), server |-> TRUE]
      BY <2>5, Zenon DEF Today
    <3>2. past[c].card = Printed(c, 0) /\ past[c].row = Row(0, FALSE)
      BY <3>1
    <3>. QED BY <2>1, <2>2, <3>2
  <2>6. CASE past[c] \in Pasts
    <3>1. PICK x \in {Blank, Foreign}, r \in {NoRow, Row(0, FALSE)} : \E known : past[c] = [card |-> x, row |-> r, server |-> known]
      BY <2>6, Zenon DEF Pasts
    <3>2. past[c].card = x /\ past[c].row = r
      BY <3>1
    <3>. QED BY <2>1, <2>2, <3>2
  <2>. QED BY <2>3, <2>5, <2>6
<1>3. carries \in [Cards -> CardStates] /\ row \in [Cards -> RowStates] /\ server \subseteq Cards
  BY <1>1, <1>2
<1>4. refs = NoRefs /\ begun = 0 /\ calls = {} /\ aborted = {} /\ timers = {} /\ asked = [d \in Dialogs |-> NoQuestion]
  BY DEF IssueInit
<1>5. SessionShape
  BY <1>4, BoundAssumption DEF SessionShape, NoRefs, Question, NoPrepared, NoQuestion
<1>6. CallsShape
  BY <1>4 DEF CallsShape
<1>7. recovery = NoRecovery /\ faults = 0 /\ cut = {} /\ mixed = FALSE /\ profile \in Profiles
      /\ screen = [drawer |-> FALSE, phase |-> "idle"]
  BY DEF IssueInit
<1>8. WorldShape
  <2>1. screen \in Screens
    BY <1>7 DEF Screens, Phases
  <2>2. recovery \in [at : {"off", "scan", "write"}, card : Cards \cup {NoCard}, for : 0..MaxCalls] /\ recovery.at = "off"
    BY <1>7, BoundAssumption DEF NoRecovery
  <2>3. faults \in 0..MaxFaults /\ cut \subseteq Cards
    BY <1>7, BoundAssumption
  <2>4. mixed \in BOOLEAN
    BY <1>7
  <2>. QED BY <1>3, <1>7, <2>1, <2>2, <2>3, <2>4 DEF WorldShape, CardStates, RowStates, Screens
<1>. QED BY <1>5, <1>6, <1>8 DEF IssueShape

-----------------------------------------------------------------------------
(* An operator who does not hurry has one attempt, one question or one      *)
(* restoring at a time, and what is prepared is what was asked about.       *)
OneThing ==
    /\ \A x, y \in calls : x = y
    /\ calls # {} \/ recovery.at # "off" => NothingAsked
    /\ calls = {} \/ recovery.at = "off"
    /\ \A d, e \in Dialogs : asked[d] # NoQuestion /\ asked[e] # NoQuestion => d = e
PreparedIsAsked ==
    /\ \A d \in Dialogs : asked[d] # NoQuestion => refs.prepared \in {NoPrepared, asked[d]}
    /\ \A x \in calls : x.at = "check" => refs.prepared \in {NoPrepared, [card |-> x.card, for |-> x.for]}
ConfirmedAttempt(x) ==
    /\ x.prints = x.for
    /\ x.session \notin aborted => refs.abort = x.session /\ refs.prepared # NoPrepared
    /\ x.at = "reput" /\ x.session \in aborted => x.card \in cut
OneAttempt == OneThing /\ PreparedIsAsked /\ \A x \in calls : x.at \in Confirmed => ConfirmedAttempt(x)

LEMMA ProfileKept == ASSUME IssueNext PROVE profile' = profile
BY ZenonT(60) DEF IssueNext, OpenDrawer, PressIssue, PressRetry, CloseDrawer, Reload, RecoveryEnds, CancelDialog, ConfirmDialog,
       CallStep, Scan, WriteLands, Check, CheckFails, WriteBreaks, Put, Reput, ScanEndsShort, TimeOut, Recover, RecoveryScan,
       RecoveryWrite, PushRow, Damage

(* What a step of an attempt makes of it: it ends, begins anew or goes on.  *)
LEMMA OneWhenIdle ==
    ASSUME IssueShape, calls' = {}, recovery'.at = "off" \/ (\A d \in Dialogs : asked'[d] = NoQuestion),
           \A d, e \in Dialogs : asked'[d] # NoQuestion /\ asked'[e] # NoQuestion => d = e,
           \A d \in Dialogs : asked'[d] # NoQuestion => refs'.prepared \in {NoPrepared, asked'[d]}
    PROVE  OneAttempt'
BY DEF OneAttempt, OneThing, PreparedIsAsked, NothingAsked

LEMMA OneWhenBusy ==
    ASSUME IssueShape, NEW y, calls' = {y}, recovery'.at = "off", \A d \in Dialogs : asked'[d] = NoQuestion,
           y.at = "check" => refs'.prepared \in {NoPrepared, [card |-> y.card, for |-> y.for]},
           y.at \in Confirmed => ConfirmedAttempt(y)'
    PROVE  OneAttempt'
BY DEF OneAttempt, OneThing, PreparedIsAsked, NothingAsked, ConfirmedAttempt

LEMMA OneByOperator ==
    ASSUME IssueShape, OneAttempt, ~profile.hurries,
           \/ OpenDrawer \/ PressIssue \/ PressRetry \/ CloseDrawer \/ Reload \/ RecoveryEnds
           \/ \E d \in Dialogs : CancelDialog(d) \/ ConfirmDialog(d)
    PROVE  OneAttempt'
<1>1. CASE OpenDrawer
  BY <1>1 DEF OpenDrawer, OneAttempt, OneThing, PreparedIsAsked, ConfirmedAttempt, NothingAsked
<1>2. CASE PressIssue
  <2>1. MayBegin /\ Fresh(NewCall(begun + 1, FALSE, "form"), refs, Current) /\ UNCHANGED <<asked, recovery>>
    BY <1>2 DEF PressIssue
  <2>2. calls = {} /\ recovery.at = "off" /\ NothingAsked /\ begun < profile.calls /\ begun + 1 \in Numbers
    BY <2>1, NextNumber DEF MayBegin, Idle
  <2>3. PICK no \in BOOLEAN : no = FALSE
    OBVIOUS
  <2>4. NewCall(begun + 1, no, "form") \in Call
    BY <2>2 DEF NewCall, Call
  <2>5. calls' = {Anew(NewCall(begun + 1, no, "form"))} /\ Anew(NewCall(begun + 1, no, "form")).at = "scan"
    BY <2>1, <2>2, <2>3, <2>4, CallParts DEF Fresh, Anew
  <2>6. PICK y : y = Anew(NewCall(begun + 1, no, "form"))
    OBVIOUS
  <2>7. calls' = {y} /\ y.at = "scan" /\ y.at \notin Confirmed /\ recovery'.at = "off"
    BY <2>1, <2>2, <2>5, <2>6 DEF Confirmed
  <2>8. \A d \in Dialogs : asked'[d] = NoQuestion
    BY <2>1, <2>2 DEF NothingAsked
  <2>. QED BY <2>7, <2>8, OneWhenBusy
<1>3. CASE PressRetry
  <2>1. CASE refs.prepared = NoPrepared
    BY <1>3, <2>1 DEF PressRetry, OneAttempt, OneThing, PreparedIsAsked, ConfirmedAttempt, NothingAsked
  <2>2. CASE refs.prepared # NoPrepared
    <3>1. MayBegin /\ Fresh(NewCall(refs.prepared.for, FALSE, "retry"), NoRefs, Current) /\ UNCHANGED <<asked, recovery>>
      BY <1>3, <2>2 DEF PressRetry
    <3>2. calls = {} /\ recovery.at = "off" /\ NothingAsked /\ begun < profile.calls /\ begun + 1 \in Numbers
      BY <3>1, NextNumber DEF MayBegin, Idle
    <3>3. PICK no \in BOOLEAN : no = FALSE
      OBVIOUS
    <3>4. refs.prepared.for \in Numbers
      BY <2>2, SessionTypes DEF Question, Prepared, NoPrepared, NoQuestion
    <3>5. PICK x : x = NewCall(refs.prepared.for, no, "retry")
      OBVIOUS
    <3>6. x \in Call
      BY <3>2, <3>4, <3>5 DEF NewCall, Call
    <3>7. PICK y : y = Anew(x)
      OBVIOUS
    <3>8. Fresh(x, NoRefs, Current)
      BY <3>1, <3>3, <3>5
    <3>9. calls' = {y} /\ y.at = "scan" /\ y.at \notin Confirmed /\ recovery'.at = "off"
      <4>1. calls' = {y}
        BY <3>2, <3>7, <3>8 DEF Fresh, Anew
      <4>2. y.at = "scan"
        BY <3>6, <3>7, CallParts
      <4>. QED BY <3>1, <3>2, <4>1, <4>2 DEF Confirmed
    <3>10. \A d \in Dialogs : asked'[d] = NoQuestion
      BY <3>1, <3>2 DEF NothingAsked
    <3>. QED BY <3>9, <3>10, OneWhenBusy
  <2>. QED BY <2>1, <2>2
<1>4. CASE CloseDrawer
  <2>1. /\ NothingAsked /\ refs' = NoRefs /\ aborted' = aborted \cup Current /\ cut' = cut \cup {x.card : x \in CutOff}
        /\ UNCHANGED <<calls, asked, recovery>>
    BY <1>4 DEF CloseDrawer, Cleanup
  <2>2. ASSUME NEW x \in calls, x.at \in Confirmed PROVE ConfirmedAttempt(x)'
    <3>1. ConfirmedAttempt(x) /\ x.session # 0
      BY <2>2, SessionTypes DEF OneAttempt
    <3>2. x.session \in aborted'
      BY <2>1, <3>1 DEF ConfirmedAttempt, Current
    <3>3. x.at = "reput" => x.card \in cut'
      BY <2>1, <3>1 DEF ConfirmedAttempt, CutOff
    <3>. QED BY <3>1, <3>2, <3>3 DEF ConfirmedAttempt
  <2>. QED BY <2>1, <2>2 DEF OneAttempt, OneThing, PreparedIsAsked, NothingAsked, NoRefs
<1>5. CASE Reload
  <2>1. calls' = {} /\ asked' = [d \in Dialogs |-> NoQuestion]
    BY <1>5 DEF Reload
  <2>. QED BY <2>1, OneWhenIdle
<1>6. CASE RecoveryEnds
  BY <1>6 DEF RecoveryEnds, OneAttempt, OneThing, PreparedIsAsked, ConfirmedAttempt, NothingAsked, NoRecovery
<1>7. ASSUME NEW d \in Dialogs, CancelDialog(d) PROVE OneAttempt'
  <2>1. calls' = {} /\ recovery'.at = "off"
    BY <1>7 DEF CancelDialog, OneAttempt, OneThing, NothingAsked
  <2>2. \A e \in Dialogs : asked'[e] = NoQuestion
    BY <1>7 DEF CancelDialog, OneAttempt, OneThing, IssueShape, SessionShape
  <2>. QED BY <2>1, <2>2, OneWhenIdle
<1>8. ASSUME NEW d \in Dialogs, ConfirmDialog(d) PROVE OneAttempt'
  <2>1. calls = {} /\ recovery'.at = "off"
    BY <1>8 DEF ConfirmDialog, OneAttempt, OneThing, NothingAsked
  <2>2. \A e \in Dialogs : asked'[e] = NoQuestion
    BY <1>8 DEF ConfirmDialog, OneAttempt, OneThing, IssueShape, SessionShape
  <2>3. PICK yes \in BOOLEAN : yes = TRUE
    OBVIOUS
  <2>4. begun < profile.calls /\ asked[d].for \in Numbers
    BY <1>8 DEF ConfirmDialog, IssueShape, SessionShape, Question, Prepared
  <2>5. PICK x : x = NewCall(asked[d].for, yes, d)
    OBVIOUS
  <2>6. x \in Call /\ x.for = asked[d].for
    BY <2>4, <2>5, NextNumber DEF NewCall, Call
  <2>7. CASE refs.prepared # NoPrepared /\ Live(refs.abort)
    <3>1. PICK z : z = [x EXCEPT !.at = "rewrite", !.session = refs.abort, !.card = refs.prepared.card, !.prints = refs.prepared.for]
      OBVIOUS
    <3>2. calls' = {z} /\ UNCHANGED <<aborted, refs>>
      BY <1>8, <2>1, <2>3, <2>5, <2>7, <3>1 DEF ConfirmDialog
    <3>3. z.at = "rewrite" /\ z.session = refs.abort /\ z.prints = refs.prepared.for /\ z.for = x.for
      BY <2>6, <3>1 DEF Call
    <3>4. refs.prepared = asked[d]
      BY <2>7, <1>8 DEF OneAttempt, PreparedIsAsked, ConfirmDialog
    <3>5. ConfirmedAttempt(z)'
      BY <2>6, <2>7, <3>2, <3>3, <3>4 DEF ConfirmedAttempt, Live
    <3>. QED BY <2>1, <2>2, <3>2, <3>3, <3>5, OneWhenBusy
  <2>8. CASE ~(refs.prepared # NoPrepared /\ Live(refs.abort))
    <3>1. Fresh(x, [refs EXCEPT !.prepared = NoPrepared], Current)
      BY <1>8, <2>3, <2>5, <2>8 DEF ConfirmDialog
    <3>2. calls' = {Anew(x)} /\ Anew(x).at = "scan"
      BY <2>1, <2>6, <3>1, CallParts DEF Fresh, Anew
    <3>. QED BY <2>1, <2>2, <3>2, OneWhenBusy DEF Confirmed
  <2>. QED BY <2>7, <2>8
<1>. QED BY <1>1, <1>2, <1>3, <1>4, <1>5, <1>6, <1>7, <1>8

LEMMA OneByCall ==
    ASSUME IssueShape, OneAttempt, ~profile.hurries, NEW x \in calls, CallStep(x)
    PROVE  OneAttempt'
<1>0. /\ calls = {x} /\ recovery.at = "off" /\ x \in Call /\ \A d \in Dialogs : asked[d] = NoQuestion
      /\ x.at = "check" => refs.prepared \in {NoPrepared, [card |-> x.card, for |-> x.for]}
      /\ x.at \in Confirmed => ConfirmedAttempt(x)
      /\ asked \in [Dialogs -> Question]
  BY SessionTypes DEF OneAttempt, OneThing, PreparedIsAsked, NothingAsked, IssueShape, SessionShape
<1>1. ASSUME NEW d \in Dialogs, NEW c, NEW r, Ask(x, d, c, r), r.prepared \in {NoPrepared, [card |-> c, for |-> x.for]},
             recovery' = recovery
      PROVE  OneAttempt'
  <2>1. calls' = {} /\ recovery'.at = "off" /\ refs'.prepared = r.prepared
    BY <1>0, <1>1 DEF Ask, Ended
  <2>2. \A e \in Dialogs : asked'[e] # NoQuestion => e = d /\ asked'[e] = [card |-> c, for |-> x.for]
    BY <1>0, <1>1 DEF Ask
  <2>3. \A e \in Dialogs : asked'[e] # NoQuestion => refs'.prepared \in {NoPrepared, asked'[e]}
    BY <1>1, <2>1, <2>2
  <2>. QED BY <2>1, <2>2, <2>3, OneWhenIdle
<1>2. ASSUME Ended(x), asked' = asked, recovery' = recovery PROVE OneAttempt'
  BY <1>0, <1>2, OneWhenIdle DEF Ended
<1>3. ASSUME NEW l, NEW dead, Fresh(x, l, dead), asked' = asked, recovery' = recovery PROVE OneAttempt'
  <2>1. calls' = {Anew(x)} /\ Anew(x).at = "scan"
    BY <1>0, <1>3, CallParts DEF Fresh, Anew
  <2>. QED BY <1>0, <1>3, <2>1, OneWhenBusy DEF Confirmed
<1>4. ASSUME NEW c \in Cards, Scan(x, c) PROVE OneAttempt'
  <2>1. PICK r : r = [refs EXCEPT !.prepared = [card |-> c, for |-> x.for]]
    OBVIOUS
  <2>2. r.prepared = [card |-> c, for |-> x.for]
    BY <2>1 DEF IssueShape, SessionShape
  <2>3. CASE HasData(c) /\ ~x.force
    <3>1. Ask(x, "notBlank", c, r) /\ recovery' = recovery
      BY <1>4, <2>1, <2>3 DEF Scan
    <3>. QED BY <2>2, <3>1, <1>1 DEF Dialogs
  <2>4. CASE ~(HasData(c) /\ ~x.force)
    <3>1. PICK y : y = [x EXCEPT !.at = "check", !.card = c]
      OBVIOUS
    <3>2. calls' = {y} /\ refs' = r /\ UNCHANGED <<asked, recovery>>
      BY <1>0, <1>4, <2>1, <2>4, <3>1 DEF Scan
    <3>3. y.at = "check" /\ y.card = c /\ y.for = x.for
      BY <1>0, <3>1 DEF Call
    <3>. QED BY <1>0, <2>2, <3>2, <3>3, OneWhenBusy DEF Confirmed
  <2>. QED BY <2>3, <2>4
<1>5. ASSUME NEW c \in Cards, WriteLands(x, c) PROVE OneAttempt'
  <2>1. PICK step \in {"put", "reput"} : step = IF x.at = "write" THEN "put" ELSE "reput"
    OBVIOUS
  <2>2. PICK y : y = At(x, step)
    OBVIOUS
  <2>3. calls' = {y} /\ x.at \in {"write", "rewrite"} /\ x.session \notin aborted /\ UNCHANGED <<asked, recovery, refs, aborted, cut>>
    BY <1>0, <1>5, <2>1, <2>2 DEF WriteLands, Move, At
  <2>4. y.at = step /\ y.session = x.session /\ y.prints = x.prints /\ y.for = x.for
    BY <1>0, <2>1, <2>2, CallParts
  <2>5. step = "reput" => ConfirmedAttempt(y)'
    BY <1>0, <2>1, <2>3, <2>4 DEF ConfirmedAttempt, Confirmed
  <2>. QED BY <1>0, <2>1, <2>3, <2>4, <2>5, OneWhenBusy DEF Confirmed
<1>6. CASE Check(x)
  <2>1. CASE Registered(x.card) /\ ~x.force
    <3>1. Ask(x, "overwrite", x.card, refs) /\ recovery' = recovery /\ x.at = "check"
      BY <1>6, <2>1 DEF Check
    <3>. QED BY <1>0, <3>1, <1>1 DEF Dialogs
  <2>2. CASE ~(Registered(x.card) /\ ~x.force)
    <3>1. calls' = {At(x, "write")} /\ UNCHANGED <<asked, recovery>> /\ At(x, "write").at = "write"
      BY <1>0, <1>6, <2>2, CallParts DEF Check, Move, At
    <3>. QED BY <1>0, <3>1, OneWhenBusy DEF Confirmed
  <2>. QED BY <2>1, <2>2
<1>7. CASE CheckFails(x) \/ ScanEndsShort(x) \/ Put(x)
  BY <1>2, <1>7 DEF CheckFails, ScanEndsShort, Put, Recorded, Failed
<1>8. CASE WriteBreaks(x)
  BY <1>2, <1>3, <1>8 DEF WriteBreaks, Failed
<1>9. CASE Reput(x)
  BY <1>2, <1>3, <1>9 DEF Reput, Recorded
<1>. QED BY <1>4, <1>5, <1>6, <1>7, <1>8, <1>9 DEF CallStep

LEMMA OneByWorld ==
    ASSUME IssueShape, OneAttempt, ~profile.hurries,
           \/ \E s \in Numbers : TimeOut(s)
           \/ \E c \in Cards : Recover(c) \/ RecoveryScan(c) \/ RecoveryWrite(c) \/ PushRow(c) \/ Damage(c)
    PROVE  OneAttempt'
<1>1. ASSUME NEW s \in Numbers, TimeOut(s) PROVE OneAttempt'
  <2>1. UNCHANGED <<calls, refs, asked, recovery>> /\ aborted' = aborted \cup {s}
        /\ cut' = cut \cup {x.card : x \in {y \in calls : y.at = "reput" /\ y.session = s}}
    BY <1>1 DEF TimeOut
  <2>2. \A x \in calls : x.at \in Confirmed => ConfirmedAttempt(x)'
    BY <2>1 DEF OneAttempt, ConfirmedAttempt
  <2>. QED BY <2>1, <2>2 DEF OneAttempt, OneThing, PreparedIsAsked, NothingAsked
<1>2. ASSUME NEW c \in Cards, Recover(c) PROVE OneAttempt'
  <2>1. calls' = {} /\ \A d \in Dialogs : asked'[d] = NoQuestion
    BY <1>2 DEF Recover, Idle, NothingAsked
  <2>. QED BY <2>1, OneWhenIdle
<1>3. ASSUME NEW c \in Cards, RecoveryScan(c) \/ RecoveryWrite(c) PROVE OneAttempt'
  <2>1. calls' = {} /\ \A d \in Dialogs : asked'[d] = NoQuestion
    BY <1>3 DEF RecoveryScan, RecoveryWrite, OneAttempt, OneThing, NothingAsked
  <2>. QED BY <2>1, OneWhenIdle
<1>4. ASSUME NEW c \in Cards, PushRow(c) \/ Damage(c) PROVE OneAttempt'
  BY <1>4 DEF PushRow, Damage, OneAttempt, OneThing, PreparedIsAsked, ConfirmedAttempt, NothingAsked
<1>. QED BY <1>1, <1>2, <1>3, <1>4

LEMMA OneStep == ASSUME IssueShape, ~profile.hurries => OneAttempt, [IssueNext]_issueVars PROVE (~profile.hurries => OneAttempt)'
<1>1. CASE UNCHANGED issueVars
  BY <1>1 DEF issueVars, OneAttempt, OneThing, PreparedIsAsked, ConfirmedAttempt, NothingAsked
<1>2. CASE IssueNext
  BY <1>2, ProfileKept, OneByOperator, OneByCall, OneByWorld DEF IssueNext
<1>. QED BY <1>1, <1>2

-----------------------------------------------------------------------------
(* Card and row: an attempt that has printed knows what, and a restoring    *)
(* what the row says.                                                       *)
Tidy == ~profile.swaps /\ ~profile.hurries
Done == {"put", "reput"}
Agrees(c) == carries[c].id = c /\ row[c].known /\ row[c].for = carries[c].for
CardsListed ==
    /\ \A x \in calls : x.at \in Done => carries[x.card] = Printed(x.card, x.for)
    /\ recovery.at # "off" => row[recovery.card].known /\ row[recovery.card].for = recovery.for
    /\ recovery.at = "write" => carries[recovery.card].state # "printed"
    /\ \A c \in Cards \ cut : carries[c].state = "printed" /\ (\A x \in calls : x.card = c => x.at \notin Done) => Agrees(c)

LEMMA ListedKept ==
    ASSUME CardsListed, UNCHANGED <<carries, row>>, recovery' = recovery \/ recovery'.at = "off", cut \subseteq cut',
           \A x \in calls' : x.at \in Done => x \in calls,
           \A x \in calls : x.at \in Done => x \in calls' \/ x.card \in cut'
    PROVE  CardsListed'
BY DEF CardsListed, Agrees

LEMMA ListedByOperator ==
    ASSUME IssueShape, OneAttempt, CardsListed,
           \/ OpenDrawer \/ PressIssue \/ PressRetry \/ CloseDrawer \/ Reload \/ RecoveryEnds
           \/ \E d \in Dialogs : CancelDialog(d) \/ ConfirmDialog(d)
    PROVE  CardsListed'
<1>1. CASE OpenDrawer
  <2>1. UNCHANGED <<carries, row, recovery, cut, calls>>
    BY <1>1 DEF OpenDrawer
  <2>. QED BY <2>1, ListedKept
<1>2. CASE CloseDrawer
  <2>1. UNCHANGED <<carries, row, recovery, calls>> /\ cut \subseteq cut'
    BY <1>2 DEF CloseDrawer
  <2>. QED BY <2>1, ListedKept
<1>3. CASE RecoveryEnds
  <2>1. UNCHANGED <<carries, row, cut, calls>> /\ recovery'.at = "off"
    BY <1>3 DEF RecoveryEnds, NoRecovery
  <2>. QED BY <2>1, ListedKept
<1>4. CASE Reload
  <2>1. UNCHANGED <<carries, row>> /\ recovery'.at = "off" /\ calls' = {}
        /\ cut' = cut \cup {x.card : x \in {y \in calls : y.at \in Done}}
    BY <1>4 DEF Reload, NoRecovery, Done
  <2>2. \A x \in calls : x.at \in Done => x.card \in cut'
    BY <2>1
  <2>. QED BY <2>1, <2>2, ListedKept
<1>5. ASSUME NEW d \in Dialogs, CancelDialog(d) PROVE CardsListed'
  <2>1. UNCHANGED <<carries, row, recovery, calls>> /\ cut \subseteq cut'
    BY <1>5 DEF CancelDialog
  <2>. QED BY <2>1, ListedKept
<1>6. ASSUME NEW z, calls' = calls \cup {z}, z.at \notin Done, UNCHANGED <<carries, row, recovery, cut>> PROVE CardsListed'
  BY <1>6, ListedKept
<1>7. ASSUME NEW n \in Numbers, NEW force \in BOOLEAN, NEW via \in Dialogs \cup {"form", "retry"}, NEW l,
             begun < profile.calls, Fresh(NewCall(n, force, via), l, Current), UNCHANGED <<carries, row, recovery, cut>>
      PROVE  CardsListed'
  <2>1. PICK x : x = NewCall(n, force, via)
    OBVIOUS
  <2>2. x \in Call /\ x.n = begun + 1
    BY <1>7, <2>1, NextNumber DEF NewCall, Call
  <2>3. calls \ {x} = calls
    BY <2>2, SessionTypes
  <2>4. calls' = (calls \ {x}) \cup {Anew(x)}
    BY <1>7, <2>1 DEF Fresh, Anew
  <2>5. Anew(x).at \notin Done
    BY <2>2, CallParts DEF Done
  <2>. QED BY <1>6, <1>7, <2>3, <2>4, <2>5
<1>8. PICK yes \in BOOLEAN, no \in BOOLEAN : yes = TRUE /\ no = FALSE
  OBVIOUS
<1>9. CASE PressIssue
  <2>1. begun < profile.calls /\ begun + 1 \in Numbers
    BY <1>9, NextNumber DEF PressIssue, MayBegin
  <2>2. Fresh(NewCall(begun + 1, no, "form"), refs, Current) /\ UNCHANGED <<carries, row, recovery, cut>>
    BY <1>8, <1>9 DEF PressIssue
  <2>. QED BY <1>7, <2>1, <2>2
<1>10. CASE PressRetry
  <2>1. CASE refs.prepared = NoPrepared
    <3>1. UNCHANGED <<carries, row, recovery, cut, calls>>
      BY <1>10, <2>1 DEF PressRetry
    <3>. QED BY <3>1, ListedKept
  <2>2. CASE refs.prepared # NoPrepared
    <3>1. begun < profile.calls
      BY <1>10, <2>2 DEF PressRetry, MayBegin
    <3>2. refs.prepared.for \in Numbers
      BY <2>2, SessionTypes DEF Question, Prepared, NoPrepared, NoQuestion
    <3>3. Fresh(NewCall(refs.prepared.for, no, "retry"), NoRefs, Current)
      BY <1>8, <1>10, <2>2 DEF PressRetry
    <3>4. UNCHANGED <<carries, row, recovery, cut>>
      BY <1>10 DEF PressRetry
    <3>. QED BY <1>7, <3>1, <3>2, <3>3, <3>4
  <2>. QED BY <2>1, <2>2
<1>11. ASSUME NEW d \in Dialogs, ConfirmDialog(d) PROVE CardsListed'
  <2>1. begun < profile.calls /\ asked[d].for \in Numbers /\ UNCHANGED <<carries, row, recovery, cut>>
    BY <1>11 DEF ConfirmDialog, IssueShape, SessionShape, Question, Prepared
  <2>2. CASE refs.prepared # NoPrepared /\ Live(refs.abort)
    <3>1. PICK x : x = NewCall(asked[d].for, yes, d)
      OBVIOUS
    <3>2. x \in Call
      BY <2>1, <3>1, NextNumber DEF NewCall, Call
    <3>3. PICK z : z = [x EXCEPT !.at = "rewrite", !.session = refs.abort, !.card = refs.prepared.card, !.prints = refs.prepared.for]
      OBVIOUS
    <3>4. calls' = calls \cup {z}
      BY <1>8, <1>11, <2>2, <3>1, <3>3 DEF ConfirmDialog
    <3>5. z.at \notin Done
      BY <3>2, <3>3 DEF Call, Done
    <3>. QED BY <1>6, <2>1, <3>4, <3>5
  <2>3. CASE ~(refs.prepared # NoPrepared /\ Live(refs.abort))
    <3>1. Fresh(NewCall(asked[d].for, yes, d), [refs EXCEPT !.prepared = NoPrepared], Current)
      BY <1>8, <1>11, <2>3 DEF ConfirmDialog
    <3>. QED BY <1>7, <2>1, <3>1
  <2>. QED BY <2>2, <2>3
<1>. QED BY <1>1, <1>2, <1>3, <1>4, <1>5, <1>9, <1>10, <1>11

LEMMA RowParts == ASSUME NEW n, NEW p PROVE Row(n, p).known /\ Row(n, p).for = n
BY DEF Row

LEMMA CardParts == ASSUME NEW c, NEW n PROVE Printed(c, n).id = c /\ Printed(c, n).for = n /\ Printed(c, n).state = "printed"
BY DEF Printed

LEMMA WorldTypes ==
    ASSUME IssueShape
    PROVE  /\ carries \in [Cards -> CardStates] /\ row \in [Cards -> RowStates]
           /\ \A x \in calls : x.at # "scan" => x.card \in Cards
           /\ recovery.at # "off" => recovery.card \in Cards
BY DEF IssueShape, WorldShape, CallsShape, CallShape, CardStates, RowStates

LEMMA ListedByCall ==
    ASSUME IssueShape, OneAttempt, CardsListed, ~profile.swaps, NEW x \in calls, CallStep(x)
    PROVE  CardsListed'
<1>0. /\ calls = {x} /\ recovery.at = "off" /\ x \in Call /\ carries \in [Cards -> CardStates] /\ row \in [Cards -> RowStates]
      /\ x.at \in Confirmed => ConfirmedAttempt(x)
      /\ x.at # "scan" => x.card \in Cards
      /\ x.at \in InScan => x.prints = x.for
  BY SessionTypes, WorldTypes DEF OneAttempt, OneThing, IssueShape, CallsShape, CallShape
<1>1. ASSUME x.at \notin Done, \A y \in calls' : y.at \notin Done, UNCHANGED <<carries, row, recovery, cut>> PROVE CardsListed'
  BY <1>0, <1>1, ListedKept
<1>2. ASSUME Ended(x) PROVE calls' = {}
  BY <1>0, <1>2 DEF Ended
<1>3. ASSUME NEW l, NEW dead, Fresh(x, l, dead) PROVE calls' = {Anew(x)} /\ Anew(x).at \notin Done
  BY <1>0, <1>3, CallParts DEF Fresh, Anew, Done
<1>4. ASSUME NEW c \in Cards, Scan(x, c) PROVE CardsListed'
  <2>1. UNCHANGED <<carries, row, recovery, cut>> /\ x.at \notin Done
    BY <1>4 DEF Scan, Done
  <2>2. CASE HasData(c) /\ ~x.force
    <3>1. Ended(x)
      BY <1>4, <2>2 DEF Scan, Ask
    <3>. QED BY <1>1, <1>2, <2>1, <3>1
  <2>3. CASE ~(HasData(c) /\ ~x.force)
    <3>1. PICK y : y = [x EXCEPT !.at = "check", !.card = c]
      OBVIOUS
    <3>2. calls' = {y}
      BY <1>0, <1>4, <2>3, <3>1 DEF Scan
    <3>3. y.at \notin Done
      BY <1>0, <3>1 DEF Call, Done
    <3>. QED BY <1>1, <2>1, <3>2, <3>3
  <2>. QED BY <2>2, <2>3
<1>5. ASSUME NEW c \in Cards, WriteLands(x, c) PROVE CardsListed'
  <2>1. PICK step \in {"put", "reput"} : step = IF x.at = "write" THEN "put" ELSE "reput"
    OBVIOUS
  <2>2. PICK y : y = At(x, step)
    OBVIOUS
  <2>3. c = x.card /\ x.card \in Cards /\ x.at \notin Done /\ x.prints = x.for
    BY <1>0, <1>5 DEF WriteLands, OnReader, InScan, Confirmed, ConfirmedAttempt, Done
  <2>4. calls' = {y} /\ UNCHANGED <<row, recovery, cut>>
    BY <1>0, <1>5, <2>1, <2>2 DEF WriteLands, Move, At
  <2>5. y.at \in Done /\ y.for = x.for /\ y.card = x.card
    BY <1>0, <2>1, <2>2, CallParts DEF Done
  <2>6. carries' = [carries EXCEPT ![x.card] = Printed(x.card, x.for)]
    BY <1>5, <2>3 DEF WriteLands, Prints
  <2>7. carries'[x.card] = Printed(x.card, x.for) /\ \A d \in Cards \ {x.card} : carries'[d] = carries[d]
    BY <1>0, <2>3, <2>6
  <2>8. \A d \in Cards \ cut' : carries'[d].state = "printed" /\ (\A z \in calls' : z.card = d => z.at \notin Done) => Agrees(d)'
    BY <1>0, <2>3, <2>4, <2>5, <2>7 DEF CardsListed, Agrees
  <2>. QED BY <1>0, <2>4, <2>5, <2>7, <2>8 DEF CardsListed
<1>6. CASE Check(x)
  <2>1. UNCHANGED <<carries, row, recovery, cut>> /\ x.at \notin Done
    BY <1>6 DEF Check, Done
  <2>2. CASE Registered(x.card) /\ ~x.force
    <3>1. Ended(x)
      BY <1>6, <2>2 DEF Check, Ask
    <3>. QED BY <1>1, <1>2, <2>1, <3>1
  <2>3. CASE ~(Registered(x.card) /\ ~x.force)
    <3>1. calls' = {At(x, "write")} /\ At(x, "write").at \notin Done
      BY <1>0, <1>6, <2>3, CallParts DEF Check, Move, At, Done
    <3>. QED BY <1>1, <2>1, <3>1
  <2>. QED BY <2>2, <2>3
<1>7. CASE CheckFails(x) \/ ScanEndsShort(x)
  <2>1. UNCHANGED <<carries, row, recovery, cut>> /\ x.at \notin Done /\ Ended(x)
    BY <1>7 DEF CheckFails, ScanEndsShort, Failed, Done
  <2>. QED BY <1>1, <1>2, <2>1
<1>8. CASE WriteBreaks(x)
  <2>1. UNCHANGED <<row, recovery, cut>> /\ x.at \notin Done /\ x.card \in Cards
    BY <1>0, <1>8 DEF WriteBreaks, Done
  <2>2. carries' = carries \/ carries' = [carries EXCEPT ![x.card] = Garbled] \/ carries' = [carries EXCEPT ![x.card] = carries[x.card]]
    BY <1>8 DEF WriteBreaks
  <2>3. \A d \in Cards : carries'[d] \in {carries[d], Garbled}
    BY <1>0, <2>1, <2>2
  <2>4. Garbled.state # "printed"
    BY DEF Garbled
  <2>5. \A y \in calls' : y.at \notin Done
    <3>1. CASE x.at = "write"
      BY <1>2, <1>8, <3>1 DEF WriteBreaks, Failed
    <3>2. CASE x.at # "write"
      BY <1>3, <1>8, <3>2 DEF WriteBreaks
    <3>. QED BY <3>1, <3>2
  <2>6. \A d \in Cards \ cut' : carries'[d].state = "printed" => Agrees(d)'
    BY <1>0, <2>1, <2>3, <2>4 DEF CardsListed, Agrees
  <2>. QED BY <1>0, <2>1, <2>5, <2>6 DEF CardsListed
<1>9. ASSUME x.at \in Done, Recorded(x), UNCHANGED <<carries, recovery>> PROVE CardsListed'
  <2>1. calls' = {} /\ cut' = cut \ {x.card} /\ row' = [row EXCEPT ![x.card] = Row(x.for, TRUE)]
    BY <1>2, <1>9 DEF Recorded, RecordOf
  <2>2. carries[x.card] = Printed(x.card, x.for) /\ x.card \in Cards
    BY <1>0, <1>9 DEF CardsListed, Done
  <2>3. row'[x.card].known /\ row'[x.card].for = x.for /\ \A d \in Cards \ {x.card} : row'[d] = row[d]
    BY <1>0, <2>1, <2>2, RowParts
  <2>4. Agrees(x.card)'
    BY <1>9, <2>2, <2>3, CardParts DEF Agrees
  <2>5. \A d \in Cards \ cut' : d # x.card /\ carries'[d].state = "printed" => Agrees(d)'
    BY <1>0, <1>9, <2>1, <2>3 DEF CardsListed, Agrees
  <2>. QED BY <1>0, <1>9, <2>1, <2>4, <2>5 DEF CardsListed
<1>10. CASE Put(x)
  BY <1>9, <1>10 DEF Put, Done
<1>11. CASE Reput(x)
  <2>1. x.at = "reput" /\ UNCHANGED <<carries, recovery>> /\ ConfirmedAttempt(x)
    BY <1>0, <1>11 DEF Reput, Confirmed
  <2>2. CASE x.session \notin aborted /\ refs.prepared # NoPrepared
    BY <1>9, <1>11, <2>1, <2>2 DEF Reput, Done
  <2>3. CASE ~(x.session \notin aborted /\ refs.prepared # NoPrepared)
    <3>1. Fresh(x, refs, Current) /\ UNCHANGED <<row, cut>>
      BY <1>11, <2>3 DEF Reput
    <3>2. x.card \in cut'
      BY <2>1, <2>3, <3>1 DEF ConfirmedAttempt
    <3>. QED BY <1>0, <1>3, <2>1, <3>1, <3>2, ListedKept
  <2>. QED BY <2>2, <2>3
<1>. QED BY <1>4, <1>5, <1>6, <1>7, <1>8, <1>10, <1>11 DEF CallStep

LEMMA ListedByWorld ==
    ASSUME IssueShape, OneAttempt, CardsListed, ~profile.swaps, ~profile.hurries,
           \/ \E s \in Numbers : TimeOut(s)
           \/ \E c \in Cards : Recover(c) \/ RecoveryScan(c) \/ RecoveryWrite(c) \/ PushRow(c) \/ Damage(c)
    PROVE  CardsListed'
<1>0. /\ carries \in [Cards -> CardStates] /\ row \in [Cards -> RowStates] /\ (recovery.at # "off" => recovery.card \in Cards)
  BY WorldTypes
<1>1. ASSUME NEW s \in Numbers, TimeOut(s) PROVE CardsListed'
  <2>1. UNCHANGED <<carries, row, recovery, calls>> /\ cut \subseteq cut'
    BY <1>1 DEF TimeOut
  <2>. QED BY <2>1, ListedKept
<1>2. ASSUME NEW c \in Cards, Recover(c) PROVE CardsListed'
  <2>1. /\ UNCHANGED <<carries, row, cut, calls>> /\ row[c].known
        /\ recovery' = [at |-> "scan", card |-> c, for |-> row[c].for]
    BY <1>2 DEF Recover
  <2>2. recovery'.at = "scan" /\ recovery'.card = c /\ recovery'.for = row[c].for
    BY <2>1
  <2>. QED BY <2>1, <2>2 DEF CardsListed, Agrees
<1>3. ASSUME NEW c \in Cards, RecoveryScan(c) PROVE CardsListed'
  <2>1. UNCHANGED <<carries, row, cut, calls>> /\ recovery.at = "scan"
    BY <1>3 DEF RecoveryScan
  <2>2. CASE c = recovery.card /\ c \in SixByte /\ Restorable(c)
    <3>1. recovery' = [recovery EXCEPT !.at = "write"] /\ carries[recovery.card].state # "printed"
      BY <1>3, <2>2 DEF RecoveryScan, Restorable
    <3>2. recovery'.card = recovery.card /\ recovery'.for = recovery.for
      BY <3>1 DEF IssueShape, WorldShape
    <3>. QED BY <2>1, <3>1, <3>2 DEF CardsListed, Agrees
  <2>3. CASE ~(c = recovery.card /\ c \in SixByte /\ Restorable(c))
    <3>1. recovery'.at = "off"
      BY <1>3, <2>3 DEF RecoveryScan, NoRecovery
    <3>. QED BY <2>1, <3>1, ListedKept
  <2>. QED BY <2>2, <2>3
<1>4. ASSUME NEW c \in Cards, RecoveryWrite(c) PROVE CardsListed'
  <2>1. /\ UNCHANGED <<row, cut, calls>> /\ recovery.at = "write" /\ c = recovery.card /\ recovery'.at = "off"
        /\ carries' = [carries EXCEPT ![c] = Printed(c, recovery.for)]
    BY <1>4 DEF RecoveryWrite, Restored, NoRecovery
  <2>2. calls = {}
    BY <2>1 DEF OneAttempt, OneThing
  <2>3. row[c].known /\ row[c].for = recovery.for
    BY <2>1 DEF CardsListed
  <2>4. carries'[c] = Printed(c, recovery.for) /\ \A d \in Cards \ {c} : carries'[d] = carries[d]
    BY <1>0, <2>1
  <2>5. Agrees(c)'
    BY <2>1, <2>3, <2>4, CardParts DEF Agrees
  <2>6. \A d \in Cards \ cut' : d # c /\ carries'[d].state = "printed" => Agrees(d)'
    BY <2>1, <2>2, <2>4 DEF CardsListed, Agrees
  <2>. QED BY <2>1, <2>2, <2>5, <2>6 DEF CardsListed
<1>5. ASSUME NEW c \in Cards, PushRow(c) PROVE CardsListed'
  <2>1. UNCHANGED <<carries, cut, calls, recovery>> /\ row' = [row EXCEPT ![c].pending = FALSE]
    BY <1>5 DEF PushRow
  <2>2. \A d \in Cards : row'[d].known = row[d].known /\ row'[d].for = row[d].for
    BY <1>0, <2>1
  <2>. QED BY <1>0, <2>1, <2>2, WorldTypes DEF CardsListed, Agrees
<1>6. ASSUME NEW c \in Cards, Damage(c) PROVE CardsListed'
  <2>1. UNCHANGED <<row, cut, calls, recovery>> /\ carries' = [carries EXCEPT ![c] = Garbled] /\ calls = {} /\ recovery.at = "off"
    BY <1>6 DEF Damage, Idle
  <2>2. \A d \in Cards : carries'[d] \in {carries[d], Garbled}
    BY <1>0, <2>1
  <2>3. Garbled.state # "printed"
    BY DEF Garbled
  <2>. QED BY <2>1, <2>2, <2>3 DEF CardsListed, Agrees
<1>. QED BY <1>1, <1>2, <1>3, <1>4, <1>5, <1>6

LEMMA ListedStep ==
    ASSUME IssueShape, ~profile.hurries => OneAttempt, Tidy => CardsListed, [IssueNext]_issueVars
    PROVE  (Tidy => CardsListed)'
<1>1. CASE UNCHANGED issueVars
  BY <1>1 DEF issueVars, CardsListed, Agrees, Tidy
<1>2. CASE IssueNext
  BY <1>2, ProfileKept, ListedByOperator, ListedByCall, ListedByWorld DEF IssueNext, Tidy
<1>. QED BY <1>1, <1>2

LEMMA ListedInit == ASSUME IssueInit PROVE CardsListed /\ OneAttempt
<1>1. calls = {} /\ recovery.at = "off" /\ \A d \in Dialogs : asked[d] = NoQuestion
  BY DEF IssueInit, NoRecovery
<1>2. ASSUME NEW c \in Cards, carries[c].state = "printed" PROVE Agrees(c)
  <2>1. PICK past \in [Cards -> Pasts \cup {Today(d) : d \in Cards}] :
          /\ \A d \in Cards : past[d] \in Pasts \cup {Today(d)}
          /\ carries = [d \in Cards |-> past[d].card] /\ row = [d \in Cards |-> past[d].row]
    BY DEF IssueInit
  <2>2. carries[c] = past[c].card /\ row[c] = past[c].row /\ past[c] \in Pasts \cup {Today(c)}
    BY <2>1
  <2>3. CASE past[c] \in Pasts
    <3>1. PICK x \in {Blank, Foreign} : \E r, known : past[c] = [card |-> x, row |-> r, server |-> known]
      BY <2>3, Zenon DEF Pasts
    <3>2. carries[c] = x
      BY <2>2, <3>1
    <3>. QED BY <1>2, <3>2 DEF Blank, Foreign
  <2>4. CASE past[c] = Today(c)
    <3>1. PICK no \in BOOLEAN : no = FALSE
      OBVIOUS
    <3>2. past[c] = [card |-> Printed(c, 0), row |-> Row(0, no), server |-> TRUE]
      BY <2>4, <3>1, Zenon DEF Today
    <3>3. carries[c] = Printed(c, 0) /\ row[c] = Row(0, no)
      BY <2>2, <3>2
    <3>. QED BY <3>3, CardParts, RowParts DEF Agrees
  <2>. QED BY <2>2, <2>3, <2>4
<1>. QED BY <1>1, <1>2 DEF CardsListed, OneAttempt, OneThing, PreparedIsAsked, NothingAsked

-----------------------------------------------------------------------------
(* Asked first: while one card is on the reader nothing that was printed or *)
(* listed is forgotten, and an attempt that nobody has confirmed and whose  *)
(* session is open is the one of the page and prints a card that is blank.  *)
NothingLost ==
    /\ \A x \in calls : x.at \in Done => carries[x.card].state # "blank"
    /\ recovery.at # "off" => row[recovery.card].known
StillBlank(x) ==
    /\ x.at = "check" => carries[x.card].state = "blank" \/ row[x.card].known
    /\ x.at = "write" => carries[x.card].state = "blank" /\ ~row[x.card].known
Unconfirmed(x) == ~x.force /\ x.session \notin aborted
AskedFirst ==
    /\ \A x, y \in calls : x.force => x = y
    /\ \A x \in calls : Unconfirmed(x) => refs.abort = x.session /\ StillBlank(x)

LEMMA MixedStays == ASSUME IssueNext PROVE mixed => mixed'
BY ZenonT(60) DEF IssueNext, OpenDrawer, PressIssue, PressRetry, CloseDrawer, Reload, RecoveryEnds, CancelDialog, ConfirmDialog, Mixes,
       CallStep, Scan, WriteLands, Check, CheckFails, WriteBreaks, Put, Reput, ScanEndsShort, TimeOut, Recover, RecoveryScan,
       RecoveryWrite, PushRow, Damage

(* What a step does to the cards and to the list of cards.                  *)
LEMMA CardsWritten ==
    ASSUME IssueShape, IssueNext, NEW c \in Cards
    PROVE  /\ carries'[c] = carries[c] \/ carries'[c].state # "blank"
           /\ carries'[c].state = "printed" /\ carries'[c] # carries[c] =>
                \/ \E x \in calls : WriteLands(x, c)
                \/ RecoveryWrite(c)
           /\ row[c].known => row'[c].known
<1>0. /\ carries \in [Cards -> CardStates] /\ row \in [Cards -> RowStates]
      /\ \A x \in calls : x.at # "scan" => x.card \in Cards
  BY WorldTypes
<1>1. Garbled.state = "garbled"
  BY DEF Garbled
<1>2. CASE UNCHANGED <<carries, row>>
  BY <1>2
<1>3. ASSUME NEW x \in calls, NEW d \in Cards, WriteLands(x, d)
      PROVE  UNCHANGED row /\ \A e \in Cards : carries'[e] = carries[e] \/ (e = d /\ carries'[e].state = "printed")
  <2>1. UNCHANGED row /\ carries' = [carries EXCEPT ![d] = Printed(x.card, x.prints)]
    BY <1>3 DEF WriteLands, Prints
  <2>. QED BY <1>0, <2>1, CardParts
<1>4. ASSUME NEW x \in calls, WriteBreaks(x)
      PROVE  UNCHANGED row /\ \A e \in Cards : carries'[e] \in {carries[e], Garbled}
  <2>1. UNCHANGED row /\ x.card \in Cards
    BY <1>0, <1>4 DEF WriteBreaks
  <2>2. carries' = carries \/ carries' = [carries EXCEPT ![x.card] = Garbled] \/ carries' = [carries EXCEPT ![x.card] = carries[x.card]]
    BY <1>4 DEF WriteBreaks
  <2>. QED BY <1>0, <2>1, <2>2
<1>5. ASSUME NEW x \in calls, x.card \in Cards, Recorded(x) PROVE \A e \in Cards : row[e].known => row'[e].known
  <2>1. row' = [row EXCEPT ![x.card] = Row(x.for, TRUE)]
    BY <1>5 DEF Recorded, RecordOf
  <2>. QED BY <1>0, <1>5, <2>1, RowParts
<1>6. ASSUME NEW x \in calls, Put(x) \/ Reput(x) PROVE UNCHANGED carries /\ \A e \in Cards : row[e].known => row'[e].known
  <2>1. UNCHANGED carries /\ x.card \in Cards /\ (Recorded(x) \/ UNCHANGED row)
    BY <1>0, <1>6 DEF Put, Reput
  <2>. QED BY <1>5, <2>1
<1>7. ASSUME NEW d \in Cards, RecoveryWrite(d)
      PROVE  UNCHANGED row /\ \A e \in Cards : carries'[e] = carries[e] \/ (e = d /\ carries'[e].state = "printed")
  <2>1. UNCHANGED row /\ carries' = [carries EXCEPT ![d] = Printed(recovery.card, recovery.for)]
    BY <1>7 DEF RecoveryWrite, Restored
  <2>. QED BY <1>0, <2>1, CardParts
<1>8. ASSUME NEW d \in Cards, PushRow(d) PROVE UNCHANGED carries /\ \A e \in Cards : row[e].known => row'[e].known
  <2>1. UNCHANGED carries /\ row' = [row EXCEPT ![d].pending = FALSE]
    BY <1>8 DEF PushRow
  <2>. QED BY <1>0, <2>1
<1>9. ASSUME NEW d \in Cards, Damage(d) PROVE UNCHANGED row /\ \A e \in Cards : carries'[e] \in {carries[e], Garbled}
  BY <1>0, <1>9 DEF Damage
<1>10. \/ UNCHANGED <<carries, row>>
       \/ \E x \in calls : (\E d \in Cards : WriteLands(x, d)) \/ WriteBreaks(x) \/ Put(x) \/ Reput(x)
       \/ \E d \in Cards : RecoveryWrite(d) \/ PushRow(d) \/ Damage(d)
  BY ZenonT(60) DEF IssueNext, OpenDrawer, PressIssue, PressRetry, CloseDrawer, Reload, RecoveryEnds, CancelDialog, ConfirmDialog,
         CallStep, Scan, Check, CheckFails, ScanEndsShort, TimeOut, Recover, RecoveryScan
<1>. QED BY <1>1, <1>2, <1>3, <1>4, <1>6, <1>7, <1>8, <1>9, <1>10

(* What a step of an attempt leaves under way.                              *)
LEMMA CallGoesOn ==
    ASSUME IssueShape, NEW x \in calls, CallStep(x)
    PROVE  \E z : /\ calls' \subseteq (calls \ {x}) \cup {z} /\ z.force = x.force /\ z.session \in {x.session, x.n}
                  /\ z.at \in Done => z = x \/ (z.card = x.card /\ \E c \in Cards : WriteLands(x, c))
<1>0. x \in Call
  BY SessionTypes
<1>1. ASSUME Ended(x) PROVE calls' \subseteq (calls \ {x}) \cup {x}
  BY <1>1 DEF Ended
<1>2. ASSUME NEW l, NEW dead, Fresh(x, l, dead)
      PROVE  /\ calls' \subseteq (calls \ {x}) \cup {Anew(x)} /\ Anew(x).force = x.force /\ Anew(x).session = x.n
             /\ Anew(x).at \notin Done
  BY <1>0, <1>2, CallParts DEF Fresh, Anew, Done
<1>3. ASSUME NEW step \in {"write", "put", "reput"}, calls' = Move(x, step)
      PROVE  /\ calls' \subseteq (calls \ {x}) \cup {At(x, step)} /\ At(x, step).force = x.force
             /\ At(x, step).session = x.session /\ At(x, step).at = step /\ At(x, step).card = x.card
  BY <1>0, <1>3, CallParts DEF Move, At
<1>4. ASSUME NEW c \in Cards, Scan(x, c), ~(HasData(c) /\ ~x.force)
      PROVE  \E z : calls' \subseteq (calls \ {x}) \cup {z} /\ z.force = x.force /\ z.session = x.session /\ z.at \notin Done
  <2>1. PICK z : z = [x EXCEPT !.at = "check", !.card = c]
    OBVIOUS
  <2>2. z.force = x.force /\ z.session = x.session /\ z.at \notin Done
    BY <1>0, <2>1 DEF Call, Done
  <2>3. calls' = (calls \ {x}) \cup {z}
    BY <1>4, <2>1 DEF Scan
  <2>. QED BY <2>2, <2>3
<1>5. CASE \E c \in Cards : Scan(x, c)
  BY <1>1, <1>4, <1>5 DEF Scan, Ask
<1>6. ASSUME NEW c \in Cards, WriteLands(x, c) PROVE calls' = Move(x, "put") \/ calls' = Move(x, "reput")
  BY <1>6 DEF WriteLands
<1>7. CASE \E c \in Cards : WriteLands(x, c)
  BY <1>3, <1>6, <1>7
<1>8. CASE Check(x)
  <2>1. Ended(x) \/ calls' = Move(x, "write")
    BY <1>8 DEF Check, Ask
  <2>. QED BY <1>1, <1>3, <2>1 DEF Done
<1>9. CASE CheckFails(x) \/ ScanEndsShort(x) \/ Put(x)
  BY <1>1, <1>9 DEF CheckFails, ScanEndsShort, Put, Failed, Recorded
<1>10. CASE WriteBreaks(x)
  BY <1>1, <1>2, <1>10 DEF WriteBreaks, Failed
<1>11. CASE Reput(x)
  BY <1>1, <1>2, <1>11 DEF Reput, Recorded
<1>. QED BY <1>5, <1>7, <1>8, <1>9, <1>10, <1>11 DEF CallStep

(* What the operator and the world leave under way.                         *)
LEMMA OthersGoOn ==
    ASSUME IssueShape, IssueNext, ~(\E x \in calls : CallStep(x)), NEW y \in calls', y \notin calls
    PROVE  /\ y.at \notin Done
           /\ \/ \E d \in Dialogs : ConfirmDialog(d) /\ y.force
              \/ (PressIssue \/ PressRetry) /\ y.session = begun + 1 /\ ~y.force /\ y.at = "scan"
<1>1. ASSUME NEW n \in Numbers, NEW force \in BOOLEAN, NEW via \in Dialogs \cup {"form", "retry"}, NEW l,
             begun < profile.calls, Fresh(NewCall(n, force, via), l, Current)
      PROVE  y.at \notin Done /\ y.force = force /\ y.session = begun + 1 /\ y.at = "scan"
  <2>1. PICK x : x = NewCall(n, force, via)
    OBVIOUS
  <2>2. x \in Call /\ x.n = begun + 1 /\ x.force = force
    BY <1>1, <2>1, NextNumber DEF NewCall, Call
  <2>3. calls' = (calls \ {x}) \cup {Anew(x)}
    BY <1>1, <2>1 DEF Fresh, Anew
  <2>4. y = Anew(x)
    BY <2>3
  <2>. QED BY <2>2, <2>4, CallParts DEF Done
<1>2. PICK yes \in BOOLEAN, no \in BOOLEAN : yes = TRUE /\ no = FALSE
  OBVIOUS
<1>3. CASE PressIssue
  <2>1. begun < profile.calls /\ begun + 1 \in Numbers
    BY <1>3, NextNumber DEF PressIssue, MayBegin
  <2>2. Fresh(NewCall(begun + 1, no, "form"), refs, Current)
    BY <1>2, <1>3 DEF PressIssue
  <2>. QED BY <1>1, <1>2, <1>3, <2>1, <2>2
<1>4. CASE PressRetry
  <2>1. refs.prepared # NoPrepared
    BY <1>4 DEF PressRetry
  <2>2. begun < profile.calls
    BY <1>4, <2>1 DEF PressRetry, MayBegin
  <2>3. refs.prepared.for \in Numbers
    BY <2>1, SessionTypes DEF Question, Prepared, NoPrepared, NoQuestion
  <2>4. Fresh(NewCall(refs.prepared.for, no, "retry"), NoRefs, Current)
    BY <1>2, <1>4, <2>1 DEF PressRetry
  <2>. QED BY <1>1, <1>2, <1>4, <2>2, <2>3, <2>4
<1>5. ASSUME NEW d \in Dialogs, ConfirmDialog(d) PROVE y.at \notin Done /\ y.force
  <2>1. begun < profile.calls /\ asked[d].for \in Numbers
    BY <1>5 DEF ConfirmDialog, IssueShape, SessionShape, Question, Prepared
  <2>2. CASE refs.prepared # NoPrepared /\ Live(refs.abort)
    <3>1. PICK x : x = NewCall(asked[d].for, yes, d)
      OBVIOUS
    <3>2. x \in Call /\ x.force = yes
      BY <2>1, <3>1, NextNumber DEF NewCall, Call
    <3>3. y = [x EXCEPT !.at = "rewrite", !.session = refs.abort, !.card = refs.prepared.card, !.prints = refs.prepared.for]
      BY <1>2, <1>5, <2>2, <3>1 DEF ConfirmDialog
    <3>4. y.force = yes /\ y.at \notin Done
      BY <3>2, <3>3 DEF Call, Done
    <3>. QED BY <1>2, <3>4
  <2>3. CASE ~(refs.prepared # NoPrepared /\ Live(refs.abort))
    <3>1. Fresh(NewCall(asked[d].for, yes, d), [refs EXCEPT !.prepared = NoPrepared], Current)
      BY <1>2, <1>5, <2>3 DEF ConfirmDialog
    <3>. QED BY <1>1, <1>2, <2>1, <3>1
  <2>. QED BY <2>2, <2>3
<1>6. PressIssue \/ PressRetry \/ \E d \in Dialogs : ConfirmDialog(d)
  BY ZenonT(60) DEF IssueNext, OpenDrawer, CloseDrawer, Reload, RecoveryEnds, CancelDialog, TimeOut, Recover, RecoveryScan, RecoveryWrite,
         PushRow, Damage
<1>. QED BY <1>3, <1>4, <1>5, <1>6

LEMMA LostStep ==
    ASSUME IssueShape, ~profile.swaps => NothingLost, [IssueNext]_issueVars
    PROVE  (~profile.swaps => NothingLost)'
<1>1. CASE UNCHANGED issueVars
  BY <1>1 DEF issueVars, NothingLost
<1>2. CASE IssueNext
  <2>. SUFFICES ASSUME ~profile.swaps, NothingLost PROVE NothingLost'
    BY <1>2, ProfileKept
  <2>1. ASSUME NEW y \in calls', y.at \in Done PROVE carries'[y.card].state # "blank"
    <3>1. CASE y \in calls
      <4>1. y.card \in Cards
        BY <2>1, <3>1, WorldTypes DEF Done
      <4>. QED BY <1>2, <2>1, <3>1, <4>1, CardsWritten DEF NothingLost
    <3>2. CASE y \notin calls
      <4>1. PICK x \in calls : CallStep(x)
        BY <1>2, <2>1, <3>2, OthersGoOn
      <4>2. PICK c \in Cards : WriteLands(x, c) /\ y.card = x.card
        BY <2>1, <3>2, <4>1, CallGoesOn
      <4>3. c = x.card /\ carries' = [carries EXCEPT ![c] = Printed(x.card, x.prints)]
        BY <4>2 DEF WriteLands, OnReader, Prints
      <4>. QED BY <4>2, <4>3, WorldTypes, CardParts
    <3>. QED BY <3>1, <3>2
  <2>2. ASSUME recovery'.at # "off" PROVE row'[recovery'.card].known
    <3>1. CASE recovery.at # "off" /\ recovery'.card = recovery.card
      BY <1>2, <3>1, CardsWritten, WorldTypes DEF NothingLost
    <3>2. ASSUME NEW c \in Cards, Recover(c) PROVE row'[recovery'.card].known
      <4>1. recovery' = [at |-> "scan", card |-> c, for |-> row[c].for] /\ row[c].known /\ UNCHANGED row
        BY <3>2 DEF Recover
      <4>. QED BY <4>1
    <3>3. ASSUME NEW c \in Cards, RecoveryScan(c) PROVE recovery.at # "off" /\ recovery'.card = recovery.card
      <4>1. recovery.at = "scan" /\ recovery' \in {[recovery EXCEPT !.at = "write"], NoRecovery}
        BY <3>3 DEF RecoveryScan
      <4>2. recovery' = [recovery EXCEPT !.at = "write"]
        BY <2>2, <4>1 DEF NoRecovery
      <4>3. recovery'.card = recovery.card
        BY <4>2 DEF IssueShape, WorldShape
      <4>. QED BY <4>1, <4>3
    <3>4. recovery' = recovery \/ recovery' = NoRecovery \/ \E c \in Cards : Recover(c) \/ RecoveryScan(c)
      BY <1>2 DEF IssueNext, OpenDrawer, PressIssue, PressRetry, CloseDrawer, Reload, RecoveryEnds, CancelDialog, ConfirmDialog,
                  CallStep, Scan, WriteLands, Check, CheckFails, WriteBreaks, Put, Reput, ScanEndsShort, TimeOut, RecoveryWrite,
                  PushRow, Damage
    <3>. QED BY <2>2, <3>1, <3>2, <3>3, <3>4 DEF NoRecovery
  <2>. QED BY <2>1, <2>2 DEF NothingLost
<1>. QED BY <1>1, <1>2

LEMMA OneUnconfirmed ==
    ASSUME IssueShape, AskedFirst, NEW x \in calls, NEW y \in calls, Unconfirmed(x), Unconfirmed(y)
    PROVE  x = y
BY DEF AskedFirst, Unconfirmed, IssueShape, CallsShape, CallShape, Apart, InScan, Confirmed, Call

LEMMA AskedByCall ==
    ASSUME IssueShape, AskedFirst, NothingLost, ~profile.swaps, NEW x \in calls, CallStep(x)
    PROVE  AskedFirst'
<1>0. /\ x \in Call /\ carries \in [Cards -> CardStates] /\ row \in [Cards -> RowStates]
      /\ \A y \in calls : y.at # "scan" => y.card \in Cards
  BY SessionTypes, WorldTypes
<1>1. CASE x.force
  <2>1. calls = {x}
    BY <1>1 DEF AskedFirst
  <2>. QED BY <1>1, <2>1, CallGoesOn DEF AskedFirst, Unconfirmed
<1>2. CASE ~x.force
  <2>0. /\ x.at \notin Confirmed
        /\ \A y \in calls : ~y.force
        /\ \A y \in calls \ {x} : Unconfirmed(y) => x.session \in aborted
    BY <1>2, OneUnconfirmed DEF IssueShape, CallsShape, CallShape, AskedFirst, Unconfirmed
  <2>1. ASSUME refs'.abort = refs.abort, aborted \subseteq aborted', NEW z, calls' \subseteq (calls \ {x}) \cup {z},
               ~z.force, z.session = x.session,
               z \in calls' /\ z.session \notin aborted' => StillBlank(z)',
               \A y \in calls \ {x} : Unconfirmed(y) /\ StillBlank(y) => StillBlank(y)'
        PROVE  AskedFirst'
    <3>1. \A y \in calls' : ~y.force
      BY <2>0, <2>1
    <3>2. ASSUME NEW y \in calls', y.session \notin aborted' PROVE refs'.abort = y.session /\ StillBlank(y)'
      <4>1. CASE y \in calls \ {x}
        BY <2>0, <2>1, <3>2, <4>1 DEF AskedFirst, Unconfirmed
      <4>2. CASE y = z
        BY <1>2, <2>1, <3>2, <4>2 DEF AskedFirst, Unconfirmed
      <4>. QED BY <2>1, <4>1, <4>2
    <3>. QED BY <3>1, <3>2 DEF AskedFirst, Unconfirmed
  <2>2. ASSUME UNCHANGED <<carries, row>> PROVE \A y : StillBlank(y) => StillBlank(y)'
    BY <2>2 DEF StillBlank
  <2>3. ASSUME Ended(x), refs'.abort = refs.abort, aborted \subseteq aborted',
               \A y \in calls \ {x} : Unconfirmed(y) /\ StillBlank(y) => StillBlank(y)'
        PROVE  AskedFirst'
    BY <1>2, <2>1, <2>3 DEF Ended
  <2>4. ASSUME NEW d, NEW c, NEW r, Ask(x, d, c, r), r.abort = refs.abort, UNCHANGED <<carries, row>>,
               r \in [abort : 0..begun, timer : 0..MaxCalls, prepared : Question]
        PROVE  AskedFirst'
    <3>1. Ended(x) /\ aborted' = aborted /\ refs'.abort = refs.abort
      BY <2>4 DEF Ask
    <3>. QED BY <2>2, <2>3, <2>4, <3>1
  <2>5. ASSUME Failed(x) PROVE Ended(x) /\ refs'.abort = refs.abort /\ aborted \subseteq aborted'
    BY <1>2, <2>5 DEF Failed, IssueShape, SessionShape
  <2>6. ASSUME NEW c \in Cards, Scan(x, c) PROVE AskedFirst'
    <3>1. PICK r : r = [refs EXCEPT !.prepared = [card |-> c, for |-> x.for]]
      OBVIOUS
    <3>2. /\ r \in [abort : 0..begun, timer : 0..MaxCalls, prepared : Question] /\ r.abort = refs.abort
          /\ UNCHANGED <<carries, row>>
      <4>1. [card |-> c, for |-> x.for] \in Question
        BY <1>0 DEF Question, Prepared, Call
      <4>. QED BY <2>6, <3>1, <4>1 DEF IssueShape, SessionShape, Scan
    <3>3. CASE HasData(c)
      <4>1. Ask(x, "notBlank", c, r)
        BY <1>2, <2>6, <3>1, <3>3 DEF Scan
      <4>. QED BY <2>4, <3>2, <4>1
    <3>4. CASE ~HasData(c)
      <4>1. PICK z : z = [x EXCEPT !.at = "check", !.card = c]
        OBVIOUS
      <4>2. z.force = x.force /\ z.session = x.session /\ z.at = "check" /\ z.card = c
        BY <1>0, <4>1 DEF Call
      <4>3. calls' = (calls \ {x}) \cup {z} /\ refs' = r /\ UNCHANGED aborted
        BY <2>6, <3>1, <3>4, <4>1 DEF Scan
      <4>4. StillBlank(z)'
        BY <3>2, <3>4, <4>2 DEF StillBlank, HasData
      <4>. QED BY <1>2, <2>1, <2>2, <3>2, <4>2, <4>3, <4>4
    <3>. QED BY <3>3, <3>4
  <2>7. ASSUME NEW c \in Cards, WriteLands(x, c) PROVE AskedFirst'
    <3>1. /\ x.at = "write" /\ x.session \notin aborted
          /\ calls' = Move(x, "put") /\ UNCHANGED <<refs, aborted>>
      BY <2>0, <2>7 DEF WriteLands, Confirmed
    <3>2. /\ calls' = (calls \ {x}) \cup {At(x, "put")} /\ At(x, "put").at = "put" /\ At(x, "put").force = x.force
          /\ At(x, "put").session = x.session
      BY <1>0, <3>1, CallParts DEF Move, At
    <3>3. StillBlank(At(x, "put"))'
      BY <3>2 DEF StillBlank
    <3>4. \A y \in calls \ {x} : ~Unconfirmed(y)
      BY <2>0, <3>1
    <3>. QED BY <1>2, <2>1, <3>1, <3>2, <3>3, <3>4
  <2>8. CASE Check(x)
    <3>1. UNCHANGED <<carries, row>> /\ x.at = "check" /\ x.card \in Cards
      BY <1>0, <2>8 DEF Check
    <3>2. CASE Registered(x.card)
      <4>1. Ask(x, "overwrite", x.card, refs)
        BY <1>2, <2>8, <3>2 DEF Check
      <4>. QED BY <2>4, <3>1, <4>1 DEF IssueShape, SessionShape
    <3>3. CASE ~Registered(x.card)
      <4>1. calls' = Move(x, "write") /\ UNCHANGED <<refs, aborted>>
        BY <2>8, <3>3 DEF Check
      <4>2. /\ calls' = (calls \ {x}) \cup {At(x, "write")} /\ At(x, "write").at = "write" /\ At(x, "write").force = x.force
            /\ At(x, "write").session = x.session /\ At(x, "write").card = x.card
        BY <1>0, <4>1, CallParts DEF Move, At
      <4>3. x.session \notin aborted => carries[x.card].state = "blank" /\ ~row[x.card].known
        BY <1>2, <3>1, <3>3 DEF AskedFirst, Unconfirmed, StillBlank, Registered
      <4>4. x.session \notin aborted => StillBlank(At(x, "write"))'
        BY <3>1, <4>2, <4>3 DEF StillBlank
      <4>. QED BY <1>2, <2>1, <2>2, <3>1, <4>1, <4>2, <4>4
    <3>. QED BY <3>2, <3>3
  <2>9. CASE CheckFails(x) \/ ScanEndsShort(x)
    BY <2>2, <2>3, <2>5, <2>9 DEF CheckFails, ScanEndsShort
  <2>10. CASE WriteBreaks(x)
    <3>1. Failed(x) /\ UNCHANGED row /\ (x.session \notin aborted \/ UNCHANGED carries)
      BY <2>0, <2>10 DEF WriteBreaks, Confirmed
    <3>. QED BY <2>0, <2>2, <2>3, <2>5, <3>1
  <2>11. CASE Put(x)
    <3>1. /\ Ended(x) /\ UNCHANGED <<carries, aborted>> /\ x.at = "put" /\ x.card \in Cards
          /\ row' = [row EXCEPT ![x.card] = Row(x.for, TRUE)]
          /\ refs' = [refs EXCEPT !.prepared = NoPrepared]
      BY <1>0, <2>11 DEF Put, Recorded, RecordOf
    <3>2. refs'.abort = refs.abort
      BY <3>1 DEF IssueShape, SessionShape
    <3>3. carries[x.card].state # "blank"
      BY <3>1 DEF NothingLost, Done
    <3>4. row'[x.card].known /\ \A d \in Cards \ {x.card} : row'[d] = row[d]
      BY <1>0, <3>1, RowParts
    <3>5. ASSUME NEW y \in calls \ {x}, StillBlank(y) PROVE StillBlank(y)'
      BY <1>0, <3>1, <3>3, <3>4, <3>5 DEF StillBlank
    <3>. QED BY <2>3, <3>1, <3>2, <3>5
  <2>12. ~Reput(x)
    BY <2>0 DEF Reput, Confirmed
  <2>. QED BY <2>6, <2>7, <2>8, <2>9, <2>10, <2>11, <2>12 DEF CallStep
<1>. QED BY <1>1, <1>2

LEMMA AskedByOthers ==
    ASSUME IssueShape, AskedFirst, NothingLost, ~profile.swaps, ~mixed', IssueNext, ~(\E x \in calls : CallStep(x))
    PROVE  AskedFirst'
<1>0. /\ carries \in [Cards -> CardStates] /\ row \in [Cards -> RowStates]
      /\ \A y \in calls : y.at # "scan" => y.card \in Cards
  BY WorldTypes
<1>1. ASSUME aborted \cup Current \subseteq aborted', NEW y \in calls, y.session \notin aborted' PROVE ~Unconfirmed(y)
  BY <1>1, SessionTypes DEF AskedFirst, Unconfirmed, Current
<1>2. ASSUME aborted \cup Current \subseteq aborted', calls' = calls PROVE AskedFirst'
  BY <1>1, <1>2 DEF AskedFirst, Unconfirmed
<1>3. ASSUME UNCHANGED <<carries, row, calls, refs>>, aborted \subseteq aborted' PROVE AskedFirst'
  BY <1>3 DEF AskedFirst, Unconfirmed, StillBlank
<1>4. ASSUME NEW n \in Numbers, NEW force \in BOOLEAN, NEW via, NEW l, Fresh(NewCall(n, force, via), l, Current),
             l \in [abort : 0..begun, timer : 0..MaxCalls, prepared : Question]
      PROVE  /\ aborted \cup Current \subseteq aborted' /\ refs'.abort = begun + 1
             /\ \E z : calls' \subseteq calls \cup {z}
  <2>1. PICK x : x = NewCall(n, force, via)
    OBVIOUS
  <2>2. x.n = begun + 1
    BY <2>1 DEF NewCall
  <2>3. /\ aborted' = aborted \cup Current /\ calls' = (calls \ {x}) \cup {Anew(x)}
        /\ refs' = [l EXCEPT !.abort = x.n, !.timer = x.n]
    BY <1>4, <2>1 DEF Fresh, Anew
  <2>. QED BY <1>4, <2>2, <2>3
<1>5. CASE PressIssue \/ (PressRetry /\ refs.prepared # NoPrepared)
  <2>1. PICK no \in BOOLEAN : no = FALSE
    OBVIOUS
  <2>2. begun < profile.calls /\ begun + 1 \in Numbers
    BY <1>5, NextNumber DEF PressIssue, PressRetry, MayBegin
  <2>4. aborted \cup Current \subseteq aborted' /\ refs'.abort = begun + 1 /\ \E z : calls' \subseteq calls \cup {z}
    <3>1. CASE PressIssue
      <4>1. Fresh(NewCall(begun + 1, no, "form"), refs, Current)
        BY <2>1, <3>1 DEF PressIssue
      <4>2. refs \in [abort : 0..begun, timer : 0..MaxCalls, prepared : Question]
        BY DEF IssueShape, SessionShape
      <4>. QED BY <1>4, <2>2, <4>1, <4>2
    <3>2. CASE PressRetry /\ refs.prepared # NoPrepared
      <4>1. Fresh(NewCall(refs.prepared.for, no, "retry"), NoRefs, Current)
        BY <2>1, <3>2 DEF PressRetry
      <4>2. refs.prepared.for \in Numbers
        BY <3>2, SessionTypes DEF Question, Prepared, NoPrepared, NoQuestion
      <4>. QED BY <1>4, <4>1, <4>2, NoRefsTyped
    <3>. QED BY <1>5, <3>1, <3>2
  <2>5. \A y \in calls' \ calls : y.session = begun + 1 /\ ~y.force /\ y.at = "scan"
    <3>1. ~(\E d \in Dialogs : ConfirmDialog(d))
      <4>1. ASSUME NEW d \in Dialogs, ConfirmDialog(d) PROVE FALSE
        <5>1. asked[d] # NoQuestion /\ asked'[d] = NoQuestion
          BY <4>1 DEF ConfirmDialog, IssueShape, SessionShape
        <5>2. UNCHANGED asked
          BY <1>5 DEF PressIssue, PressRetry
        <5>. QED BY <5>1, <5>2
      <4>. QED BY <4>1
    <3>. QED BY <3>1, OthersGoOn
  <2>6. \A y \in calls : ~y.force \/ calls = {}
    BY <1>5 DEF PressIssue, PressRetry, Mixes
  <2>7. \A y \in calls' : ~y.force
    BY <2>5, <2>6
  <2>8. ASSUME NEW y \in calls', y.session \notin aborted' PROVE refs'.abort = y.session /\ StillBlank(y)'
    BY <1>1, <2>4, <2>5, <2>7, <2>8 DEF Unconfirmed, StillBlank
  <2>. QED BY <2>7, <2>8 DEF AskedFirst, Unconfirmed
<1>6. ASSUME NEW d \in Dialogs, ConfirmDialog(d) PROVE AskedFirst'
  <2>1. calls = {}
    BY <1>6 DEF ConfirmDialog, Mixes
  <2>2. PICK yes \in BOOLEAN : yes = TRUE
    OBVIOUS
  <2>3. \E z : calls' \subseteq {z}
    <3>1. CASE refs.prepared # NoPrepared /\ Live(refs.abort)
      BY <1>6, <2>1, <3>1 DEF ConfirmDialog
    <3>2. CASE ~(refs.prepared # NoPrepared /\ Live(refs.abort))
      <4>1. Fresh(NewCall(asked[d].for, yes, d), [refs EXCEPT !.prepared = NoPrepared], Current)
        BY <1>6, <2>2, <3>2 DEF ConfirmDialog
      <4>. QED BY <2>1, <4>1 DEF Fresh
    <3>. QED BY <3>1, <3>2
  <2>4. \A y \in calls' : y.force
    <3>1. ~(PressIssue \/ PressRetry)
      <4>1. asked[d] # NoQuestion /\ asked'[d] = NoQuestion
        BY <1>6 DEF ConfirmDialog, IssueShape, SessionShape
      <4>. QED BY <4>1 DEF PressIssue, PressRetry
    <3>. QED BY <2>1, <3>1, OthersGoOn
  <2>. QED BY <2>3, <2>4 DEF AskedFirst, Unconfirmed
<1>7. CASE PressRetry /\ refs.prepared = NoPrepared
  BY <1>3, <1>7 DEF PressRetry
<1>8. CASE CloseDrawer \/ \E d \in Dialogs : CancelDialog(d)
  BY <1>2, <1>8 DEF CloseDrawer, CancelDialog, Cleanup
<1>9. CASE OpenDrawer \/ RecoveryEnds \/ \E c \in Cards : Recover(c) \/ RecoveryScan(c)
  BY <1>3, <1>9 DEF OpenDrawer, RecoveryEnds, Recover, RecoveryScan
<1>10. CASE Reload
  BY <1>10 DEF Reload, AskedFirst
<1>11. CASE \E s \in Numbers : TimeOut(s)
  BY <1>3, <1>11 DEF TimeOut
<1>12. ASSUME NEW c \in Cards, RecoveryWrite(c) PROVE AskedFirst'
  <2>1. /\ UNCHANGED <<row, calls, refs, aborted>> /\ c = recovery.card /\ recovery.at = "write"
        /\ carries' = [carries EXCEPT ![c] = Restored]
    BY <1>12 DEF RecoveryWrite
  <2>2. row[c].known /\ \A d \in Cards \ {c} : carries'[d] = carries[d]
    BY <1>0, <2>1 DEF NothingLost
  <2>3. ASSUME NEW y \in calls, StillBlank(y) PROVE StillBlank(y)'
    BY <1>0, <2>1, <2>2, <2>3 DEF StillBlank
  <2>. QED BY <2>1, <2>3 DEF AskedFirst, Unconfirmed
<1>13. ASSUME NEW c \in Cards, PushRow(c) PROVE AskedFirst'
  <2>1. /\ UNCHANGED <<carries, calls, refs, aborted>> /\ row' = [row EXCEPT ![c].pending = FALSE]
    BY <1>13 DEF PushRow
  <2>2. \A d \in Cards : row'[d].known = row[d].known
    BY <1>0, <2>1
  <2>3. ASSUME NEW y \in calls, StillBlank(y) PROVE StillBlank(y)'
    BY <1>0, <2>1, <2>2, <2>3 DEF StillBlank
  <2>. QED BY <2>1, <2>3 DEF AskedFirst, Unconfirmed
<1>14. CASE \E c \in Cards : Damage(c)
  BY <1>14 DEF Damage, Idle, AskedFirst
<1>15. \/ OpenDrawer \/ PressIssue \/ PressRetry \/ CloseDrawer \/ Reload \/ RecoveryEnds
       \/ \E d \in Dialogs : CancelDialog(d) \/ ConfirmDialog(d)
       \/ \E s \in Numbers : TimeOut(s)
       \/ \E c \in Cards : Recover(c) \/ RecoveryScan(c) \/ RecoveryWrite(c) \/ PushRow(c) \/ Damage(c)
  BY DEF IssueNext
<1>. QED BY <1>5, <1>6, <1>7, <1>8, <1>9, <1>10, <1>11, <1>12, <1>13, <1>14, <1>15

Asking == ~profile.swaps /\ ~mixed

LEMMA AskedStep ==
    ASSUME IssueShape, ~profile.swaps => NothingLost, Asking => AskedFirst, [IssueNext]_issueVars
    PROVE  (Asking => AskedFirst)'
<1>1. CASE UNCHANGED issueVars
  BY <1>1 DEF issueVars, AskedFirst, Unconfirmed, StillBlank, Asking
<1>2. CASE IssueNext
  <2>1. profile' = profile /\ (mixed => mixed')
    BY <1>2, ProfileKept, MixedStays
  <2>. QED BY <1>2, <2>1, AskedByCall, AskedByOthers DEF Asking
<1>. QED BY <1>1, <1>2

-----------------------------------------------------------------------------
IssueInvariant ==
    /\ IssueShape
    /\ ~profile.hurries => OneAttempt
    /\ Tidy => CardsListed
    /\ ~profile.swaps => NothingLost
    /\ Asking => AskedFirst

LEMMA IssueHolds ==
    /\ IssueInit => IssueInvariant
    /\ IssueInvariant /\ [IssueNext]_issueVars => IssueInvariant'
<1>1. IssueInit => IssueInvariant
  <2>1. ASSUME IssueInit PROVE NothingLost /\ AskedFirst
    BY <2>1 DEF IssueInit, NothingLost, AskedFirst, NoRecovery
  <2>. QED BY <2>1, ShapeInit, ListedInit DEF IssueInvariant
<1>2. IssueInvariant /\ [IssueNext]_issueVars => IssueInvariant'
  BY ShapeStep, OneStep, ListedStep, LostStep, AskedStep DEF IssueInvariant
<1>. QED BY <1>1, <1>2

LEMMA CardAndRow == ASSUME IssueInvariant PROVE CardAndRowAgree
BY ShapeTyped DEF IssueInvariant, CardAndRowAgree, Tidy, CardsListed, Agrees, Done

NotPrintedUnasked ==
    ~profile.swaps /\ ~mixed =>
      \A c \in Cards :
        carries'[c].state = "printed" /\ carries'[c] # carries[c] /\ (carries[c].state # "blank" \/ row[c].known)
          => \/ \E x \in calls : x.force /\ x.card = c
             \/ recovery.at = "write" /\ (carries[c].state = "printed" => profile.hurries)

LEMMA UnaskedNever == ASSUME IssueInvariant, [IssueNext]_issueVars PROVE NotPrintedUnasked
<1>1. SUFFICES ASSUME Asking, NEW c \in Cards, carries'[c].state = "printed", carries'[c] # carries[c],
                      carries[c].state # "blank" \/ row[c].known
               PROVE  \/ \E x \in calls : x.force /\ x.card = c
                      \/ recovery.at = "write" /\ (carries[c].state = "printed" => profile.hurries)
  BY DEF NotPrintedUnasked, Asking
<1>2. IssueNext
  BY <1>1 DEF issueVars
<1>3. CASE RecoveryWrite(c)
  <2>1. recovery.at = "write" /\ c = recovery.card
    BY <1>1, <1>3 DEF RecoveryWrite, Asking
  <2>. QED BY <1>1, <2>1 DEF IssueInvariant, CardsListed, Tidy, Asking
<1>4. ASSUME NEW x \in calls, WriteLands(x, c) PROVE x.force /\ x.card = c
  <2>1. c = x.card /\ x.session \notin aborted /\ x.at \in {"write", "rewrite"}
    BY <1>1, <1>4 DEF WriteLands, OnReader, Asking
  <2>2. CASE x.at = "rewrite"
    BY <2>1, <2>2 DEF IssueInvariant, IssueShape, CallsShape, CallShape, Confirmed
  <2>3. CASE x.at = "write"
    BY <1>1, <2>1, <2>3 DEF IssueInvariant, AskedFirst, Unconfirmed, StillBlank
  <2>. QED BY <2>1, <2>2, <2>3
<1>. QED BY <1>1, <1>2, <1>3, <1>4, CardsWritten DEF IssueInvariant

-----------------------------------------------------------------------------
(***************************************************************************)
(* CardSection: topping up cards, and what a change of a member does to the*)
(* member's cards (CardsPage, as Page).  From the shapes of the state come:*)
(* what is written was confirmed; rows follow their cards; the cards of a  *)
(* member follow the member.                                               *)
(***************************************************************************)

Pendings == [card : Cards, to : Page!Amounts] \cup {Nothing}
Scans3   == [phase : {"idle", "scanning", "ready", "writing", "success", "error"}, card : Cards \cup {Nothing}, bal : Page!Amounts,
             pending : Pendings]
Drawers  == [drawer : BOOLEAN, target : Cards \cup {Nothing}, question : Cards \cup {"member", Nothing}]

VisitShape == visit \in Visits /\ left \in [Page!Counts -> Nat] /\ undone \in BOOLEAN /\ overtaken \in BOOLEAN
BookShape ==
    /\ chip \in [Cards -> Page!Amounts] /\ rows \in [Cards -> Page!Row \cup {Nothing}] /\ member \in {"active", "suspended", "deleted"}
    /\ reads \subseteq Page!Read /\ \A r \in reads : r.found => rows[r.card] # Nothing
ReaderShape ==
    /\ nfc \in Scans3 /\ writes \subseteq Page!Write /\ journal \in [Cards -> Page!Amounts \cup {Nothing}] /\ closing \in BOOLEAN
    /\ nfc.phase \in {"ready", "success"} => nfc.card \in Cards
    /\ nfc.phase \in {"idle", "scanning"} => nfc.card = Nothing
DrawerShape == page \in Drawers /\ lookups \subseteq Cards
JobFits(k, job) ==
    /\ \A c \in job.todo : rows[c] # Nothing
    /\ k = "card" => job.at = "first" /\ job.card \in Cards
    /\ k = "delete" => job.to = "deleted"
    /\ k = "toggle" => job.to \in {"active", "suspended"}
JobShape ==
    /\ jobs \in [Page!Kinds -> Page!Job \cup {Nothing}]
    /\ \A k \in Page!Kinds : jobs[k] # Nothing => JobFits(k, jobs[k])
PageShape == VisitShape /\ BookShape /\ ReaderShape /\ DrawerShape /\ JobShape

LEMMA PageTyped == ASSUME PageShape PROVE Page!PageTypeOK
BY DEF Page!PageTypeOK, PageShape, VisitShape, BookShape, ReaderShape, DrawerShape, JobShape, Scans3, Drawers, Pendings

LEMMA NothingIsNothing ==
    /\ Nothing \notin Cards /\ Nothing \notin Page!Amounts /\ Nothing \notin Page!Row /\ Nothing \notin Page!Job
    /\ Limit \in Nat /\ Visits \subseteq [hurries : BOOLEAN, known : SUBSET Cards, left : [Page!Counts -> Nat]]
BY SectionAssumption DEF Page!NothingApart, Page!PageBounds

LEMMA Spent ==
    ASSUME left \in [Page!Counts -> Nat], NEW what \in Page!Counts, Page!Spend(what)
    PROVE  left' \in [Page!Counts -> Nat]
BY DEF Page!Spend

LEMMA VisitStep == ASSUME PageShape, Page!Next PROVE VisitShape'
<1>1. visit' = visit
  BY ZenonT(60) DEF Page!Next, Page!CodeSteps, Page!Closes, Page!GivesUp, Page!JobSteps, Page!FirstWritten, Page!LinkedRead,
                    Page!JobEnds, Page!CardChanged, Page!CheckAnswered, Page!RowRead, Page!RowWritten, Page!Lands,
                    Page!Recorded, Page!Render, Page!Confirm, Page!Retry, Page!CloseDrawer, Page!Fetch, Page!PressToggle,
                    Page!JobFails, Page!AnswerDelete, Page!AskDelete, Page!Tap, Page!ChooseTopup, Page!Pulled,
                    Page!Misses, Page!Unverified
<1>2. left' = left \/ \E what \in Page!Counts : Page!Spend(what)
  BY ZenonT(60) DEF Page!Next, Page!CodeSteps, Page!Closes, Page!GivesUp, Page!JobSteps, Page!FirstWritten, Page!LinkedRead,
                    Page!JobEnds, Page!CardChanged, Page!CheckAnswered, Page!RowRead, Page!RowWritten, Page!Lands,
                    Page!Recorded, Page!Render, Page!Confirm, Page!Retry, Page!CloseDrawer, Page!Fetch, Page!PressToggle,
                    Page!JobFails, Page!AnswerDelete, Page!AskDelete, Page!Tap, Page!ChooseTopup, Page!Pulled,
                    Page!Misses, Page!Unverified, Page!Begins, Page!Counts
<1>3. undone' \in BOOLEAN
  BY ZenonT(60) DEF Page!Next, Page!CodeSteps, Page!Closes, Page!GivesUp, Page!JobSteps, Page!FirstWritten, Page!LinkedRead,
                    Page!JobEnds, Page!CardChanged, Page!CheckAnswered, Page!RowRead, Page!RowWritten, Page!Lands,
                    Page!Recorded, Page!Render, Page!Confirm, Page!Retry, Page!CloseDrawer, Page!Fetch, Page!PressToggle,
                    Page!JobFails, Page!AnswerDelete, Page!AskDelete, Page!Tap, Page!ChooseTopup, Page!Pulled,
                    Page!Misses, Page!Unverified, Page!Begins, Page!AtRest, Page!history, PageShape, VisitShape
<1>4. overtaken' \in BOOLEAN
  BY ZenonT(60) DEF Page!Next, Page!CodeSteps, Page!Closes, Page!GivesUp, Page!JobSteps, Page!FirstWritten, Page!LinkedRead,
                    Page!JobEnds, Page!CardChanged, Page!CheckAnswered, Page!RowRead, Page!RowWritten, Page!Lands,
                    Page!Recorded, Page!Render, Page!Confirm, Page!Retry, Page!CloseDrawer, Page!Fetch, Page!PressToggle,
                    Page!JobFails, Page!AnswerDelete, Page!AskDelete, Page!Tap, Page!ChooseTopup, Page!Pulled,
                    Page!Misses, Page!Unverified, Page!Begins, Page!history, PageShape, VisitShape
<1>. QED BY <1>1, <1>2, <1>3, <1>4, Spent DEF PageShape, VisitShape

LEMMA BooksTouched ==
    ASSUME Page!Next
    PROVE  \/ UNCHANGED <<rows, member>>
           \/ \E r \in reads : Page!RowWritten(r)
           \/ \E w \in writes : Page!Recorded(w)
           \/ \E k \in Page!Kinds : Page!FirstWritten(k) \/ \E c \in Cards : Page!CardChanged(k, c)
           \/ \E c \in Cards, status \in {"active", "blocked"} : Page!Pulled(c, status)
BY ZenonT(60) DEF Page!Next, Page!CodeSteps, Page!Closes, Page!GivesUp, Page!JobSteps, Page!LinkedRead, Page!JobEnds,
                  Page!CheckAnswered, Page!RowRead, Page!Lands, Page!Render, Page!Confirm, Page!Retry, Page!CloseDrawer,
                  Page!Fetch, Page!PressToggle, Page!JobFails, Page!AnswerDelete, Page!AskDelete, Page!Tap,
                  Page!ChooseTopup, Page!Misses, Page!Unverified, Page!books

LEMMA DrawerTouched ==
    ASSUME Page!Next
    PROVE  \/ UNCHANGED <<page, lookups>>
           \/ Page!Render \/ Page!Closes \/ Page!CloseDrawer \/ Page!AskDelete("member")
           \/ \E c \in Cards : Page!CheckAnswered(c) \/ Page!Tap(c) \/ Page!ChooseTopup(c) \/ Page!AskDelete(c)
           \/ \E yes \in BOOLEAN : Page!AnswerDelete(yes)
BY ZenonT(60) DEF Page!Next, Page!CodeSteps, Page!GivesUp, Page!JobSteps, Page!FirstWritten, Page!LinkedRead, Page!JobEnds,
                  Page!CardChanged, Page!RowRead, Page!RowWritten, Page!Lands, Page!Recorded, Page!Confirm, Page!Retry,
                  Page!Fetch, Page!PressToggle, Page!JobFails, Page!Pulled, Page!Misses, Page!Unverified

LEMMA DrawerStep == ASSUME PageShape, Page!Next PROVE DrawerShape'
<1>0. /\ page \in Drawers /\ lookups \subseteq Cards /\ nfc.card \in Cards \cup {Nothing}
      /\ nfc.phase \in {"ready", "success"} => nfc.card \in Cards
  BY DEF PageShape, DrawerShape, ReaderShape, Scans3
<1>1. ASSUME NEW c \in Cards, Page!Compared(c) PROVE DrawerShape'
  BY <1>0, <1>1 DEF Page!Compared, DrawerShape, Drawers
<1>2. CASE UNCHANGED <<page, lookups>>
  BY <1>0, <1>2 DEF DrawerShape
<1>3. CASE Page!Render
  BY <1>0, <1>1, <1>2, <1>3 DEF Page!Render
<1>4. CASE Page!Closes \/ Page!CloseDrawer
  <2>1. page' = [page EXCEPT !.drawer = FALSE] /\ lookups' = lookups
    BY <1>4 DEF Page!Closes, Page!CloseDrawer
  <2>. QED BY <1>0, <2>1 DEF DrawerShape, Drawers
<1>5. ASSUME NEW what \in Cards \cup {"member"}, Page!AskDelete(what) PROVE DrawerShape'
  <2>1. page' = [page EXCEPT !.question = what] /\ lookups' = lookups
    BY <1>5 DEF Page!AskDelete
  <2>. QED BY <1>0, <2>1 DEF DrawerShape, Drawers
<1>6. ASSUME NEW c \in Cards, Page!CheckAnswered(c) PROVE DrawerShape'
  <2>1. page' \in {page, [page EXCEPT !.drawer = FALSE, !.target = Nothing]} /\ lookups' \subseteq lookups
    BY <1>6 DEF Page!CheckAnswered
  <2>. QED BY <1>0, <2>1 DEF DrawerShape, Drawers
<1>7. ASSUME NEW c \in Cards, Page!Tap(c) PROVE DrawerShape'
  <2>1. Page!Compared(c) \/ UNCHANGED <<page, lookups>>
    BY <1>7 DEF Page!Tap, Page!BecomesReady
  <2>. QED BY <1>1, <1>2, <2>1
<1>8. ASSUME NEW c \in Cards, Page!ChooseTopup(c) PROVE DrawerShape'
  <2>1. page' = [page EXCEPT !.drawer = TRUE, !.target = c] /\ lookups' = lookups
    BY <1>8 DEF Page!ChooseTopup
  <2>. QED BY <1>0, <2>1 DEF DrawerShape, Drawers
<1>9. ASSUME NEW yes \in BOOLEAN, Page!AnswerDelete(yes) PROVE DrawerShape'
  <2>1. page' = [page EXCEPT !.question = Nothing] /\ lookups' = lookups
    BY <1>9 DEF Page!AnswerDelete
  <2>. QED BY <1>0, <2>1 DEF DrawerShape, Drawers
<1>. QED BY <1>2, <1>3, <1>4, <1>5, <1>6, <1>7, <1>8, <1>9, DrawerTouched

LEMMA RowMade ==
    ASSUME NEW status \in Page!Statuses, NEW bal \in Page!Amounts, NEW owned \in BOOLEAN
    PROVE  /\ [status |-> status, bal |-> bal, owned |-> owned] \in Page!Row
           /\ \A old \in Page!Row : /\ [old EXCEPT !.bal = bal] \in Page!Row
                              /\ [old EXCEPT !.status = status] \in Page!Row
                              /\ [old EXCEPT !.status = status, !.bal = bal, !.owned = owned] \in Page!Row
BY DEF Page!Row

(* What becomes of the rows: none is forgotten.                             *)
LEMMA RowsKept ==
    ASSUME PageShape, Page!Next
    PROVE  /\ rows' \in [Cards -> Page!Row \cup {Nothing}] /\ member' \in {"active", "suspended", "deleted"}
           /\ \A c \in Cards : rows[c] # Nothing => rows'[c] # Nothing
<1>0. /\ rows \in [Cards -> Page!Row \cup {Nothing}] /\ member \in {"active", "suspended", "deleted"} /\ chip \in [Cards -> Page!Amounts]
      /\ \A r \in reads : r \in Page!Read /\ (r.found => rows[r.card] # Nothing)
      /\ \A w \in writes : w \in Page!Write
      /\ \A k \in Page!Kinds : jobs[k] # Nothing => jobs[k] \in Page!Job /\ JobFits(k, jobs[k])
  BY DEF PageShape, BookShape, ReaderShape, JobShape
<1>1. ASSUME NEW c \in Cards, NEW new, new \in Page!Row, rows' = [rows EXCEPT ![c] = new]
      PROVE  /\ rows' \in [Cards -> Page!Row \cup {Nothing}]
             /\ \A d \in Cards : rows[d] # Nothing => rows'[d] # Nothing
  BY <1>0, <1>1, NothingIsNothing
<1>2. {"active", "blocked", "deleted"} = Page!Statuses /\ 0 \in Page!Amounts
  BY NothingIsNothing DEF Page!Statuses, Page!Amounts
<1>3. PICK yes \in BOOLEAN, no \in BOOLEAN : yes = TRUE /\ no = FALSE
  OBVIOUS
<1>4. ASSUME NEW r \in reads, Page!RowWritten(r)
      PROVE  /\ rows' \in [Cards -> Page!Row \cup {Nothing}] /\ member' = member
             /\ \A d \in Cards : rows[d] # Nothing => rows'[d] # Nothing
  <2>1. r.card \in Cards /\ r.bal \in Page!Amounts /\ (r.found => rows[r.card] \in Page!Row)
    BY <1>0 DEF Page!Read
  <2>2. PICK new : new = IF r.found THEN [rows[r.card] EXCEPT !.bal = r.bal]
                         ELSE [status |-> "active", bal |-> r.bal, owned |-> no]
    OBVIOUS
  <2>3. rows' = [rows EXCEPT ![r.card] = new] /\ member' = member
    BY <1>3, <1>4, <2>2 DEF Page!RowWritten
  <2>4. new \in Page!Row
    <3>1. CASE r.found
      BY <1>2, <2>1, <2>2, <3>1, RowMade
    <3>2. CASE ~r.found
      BY <1>2, <2>1, <2>2, <3>2, RowMade
    <3>. QED BY <3>1, <3>2
  <2>. QED BY <1>1, <2>1, <2>3, <2>4
<1>5. ASSUME NEW w \in writes, Page!Recorded(w)
      PROVE  /\ rows' \in [Cards -> Page!Row \cup {Nothing}] /\ member' = member
             /\ \A d \in Cards : rows[d] # Nothing => rows'[d] # Nothing
  <2>1. w.card \in Cards /\ w.to \in Page!Amounts
    BY <1>0 DEF Page!Write
  <2>2. PICK new : new = IF rows[w.card] = Nothing THEN [status |-> "active", bal |-> w.to, owned |-> yes]
                         ELSE IF rows[w.card].status = "deleted" THEN rows[w.card]
                         ELSE [rows[w.card] EXCEPT !.status = "active", !.bal = w.to, !.owned = yes]
    OBVIOUS
  <2>3. rows' = [rows EXCEPT ![w.card] = new] /\ member' = member
    BY <1>3, <1>5, <2>2 DEF Page!Recorded, Page!FromChip
  <2>4. new \in Page!Row
    <3>1. CASE rows[w.card] = Nothing
      BY <1>2, <2>1, <2>2, <3>1, RowMade
    <3>2. CASE rows[w.card] # Nothing /\ rows[w.card].status = "deleted"
      BY <1>0, <2>1, <2>2, <3>2
    <3>3. CASE rows[w.card] # Nothing /\ rows[w.card].status # "deleted"
      <4>1. rows[w.card] \in Page!Row
        BY <1>0, <2>1, <3>3
      <4>. QED BY <1>2, <2>1, <2>2, <3>3, <4>1, RowMade
    <3>. QED BY <3>1, <3>2, <3>3
  <2>. QED BY <1>1, <2>1, <2>3, <2>4
<1>6. ASSUME NEW k \in Page!Kinds, Page!FirstWritten(k)
      PROVE  /\ rows' \in [Cards -> Page!Row \cup {Nothing}] /\ member' \in {"active", "suspended", "deleted"}
             /\ \A d \in Cards : rows[d] # Nothing => rows'[d] # Nothing
  <2>1. jobs[k] \in Page!Job /\ JobFits(k, jobs[k])
    BY <1>0, <1>6 DEF Page!FirstWritten, Page!Is
  <2>2. CASE k = "card"
    <3>1. jobs[k].card \in Cards
      BY <2>1, <2>2 DEF JobFits
    <3>2. CASE rows[jobs[k].card] = Nothing
      <4>1. rows' = [rows EXCEPT ![jobs[k].card] = rows[jobs[k].card]] /\ member' = member
        BY <1>6, <2>2, <3>2 DEF Page!FirstWritten
      <4>2. rows' = rows
        BY <1>0, <3>1, <4>1
      <4>. QED BY <1>0, <4>1, <4>2
    <3>3. CASE rows[jobs[k].card] # Nothing
      <4>1. rows' = [rows EXCEPT ![jobs[k].card] = [rows[jobs[k].card] EXCEPT !.status = "deleted"]] /\ member' = member
        BY <1>6, <2>2, <3>3 DEF Page!FirstWritten
      <4>2. [rows[jobs[k].card] EXCEPT !.status = "deleted"] \in Page!Row
        BY <1>0, <1>2, <3>1, <3>3, RowMade
      <4>. QED BY <1>0, <1>1, <3>1, <4>1, <4>2
    <3>. QED BY <3>2, <3>3
  <2>3. CASE k # "card"
    <3>1. rows' = rows /\ member' = jobs[k].to
      BY <1>6, <2>3 DEF Page!FirstWritten
    <3>. QED BY <1>0, <2>1, <3>1 DEF Page!Job
  <2>. QED BY <2>2, <2>3
<1>7. ASSUME NEW k \in Page!Kinds, NEW c \in Cards, Page!CardChanged(k, c)
      PROVE  /\ rows' \in [Cards -> Page!Row \cup {Nothing}] /\ member' = member
             /\ \A d \in Cards : rows[d] # Nothing => rows'[d] # Nothing
  <2>1. jobs[k] \in Page!Job /\ rows[c] \in Page!Row /\ k # "card"
    BY <1>0, <1>7 DEF Page!CardChanged, Page!Is, JobFits
  <2>2. k \in {"toggle", "delete"} /\ jobs[k].to \in {"active", "suspended", "deleted"}
    BY <2>1 DEF Page!Kinds, Page!Job
  <2>3. PICK status : status = Page!CardStatusOf(jobs[k].to)
    OBVIOUS
  <2>4. status \in Page!Statuses
    BY <2>2, <2>3 DEF Page!CardStatusOf, Page!Statuses
  <2>5. rows' = [rows EXCEPT ![c] = [rows[c] EXCEPT !.status = status]] /\ member' = member
    BY <1>7, <2>3 DEF Page!CardChanged
  <2>6. [rows[c] EXCEPT !.status = status] \in Page!Row
    BY <1>2, <2>1, <2>4, RowMade
  <2>. QED BY <1>1, <2>5, <2>6
<1>8. ASSUME NEW c \in Cards, NEW status \in {"active", "blocked"}, Page!Pulled(c, status)
      PROVE  /\ rows' \in [Cards -> Page!Row \cup {Nothing}] /\ member' = member
             /\ \A d \in Cards : rows[d] # Nothing => rows'[d] # Nothing
  <2>1. PICK new : new = IF rows[c] = Nothing THEN [status |-> status, bal |-> chip[c], owned |-> yes]
                         ELSE [rows[c] EXCEPT !.status = status]
    OBVIOUS
  <2>2. rows' = [rows EXCEPT ![c] = new] /\ member' = member
    BY <1>3, <1>8, <2>1 DEF Page!Pulled
  <2>3. new \in Page!Row
    <3>1. CASE rows[c] = Nothing
      BY <1>0, <1>2, <2>1, <3>1, RowMade
    <3>2. CASE rows[c] # Nothing
      <4>1. rows[c] \in Page!Row
        BY <1>0, <3>2
      <4>. QED BY <1>2, <2>1, <3>2, <4>1, RowMade
    <3>. QED BY <3>1, <3>2
  <2>. QED BY <1>1, <2>2, <2>3
<1>9. CASE UNCHANGED <<rows, member>>
  BY <1>0, <1>9
<1>. QED BY <1>0, <1>4, <1>5, <1>6, <1>7, <1>8, <1>9, BooksTouched

LEMMA ChipTouched ==
    ASSUME Page!Next
    PROVE  UNCHANGED chip \/ \E w \in writes : Page!Lands(w)
BY ZenonT(60) DEF Page!Next, Page!CodeSteps, Page!Closes, Page!GivesUp, Page!JobSteps, Page!FirstWritten, Page!LinkedRead,
                  Page!JobEnds, Page!CardChanged, Page!CheckAnswered, Page!RowRead, Page!RowWritten, Page!Recorded,
                  Page!Render, Page!Confirm, Page!Retry, Page!CloseDrawer, Page!Fetch, Page!PressToggle, Page!JobFails,
                  Page!AnswerDelete, Page!AskDelete, Page!Tap, Page!ChooseTopup, Page!Pulled, Page!Misses, Page!Unverified

LEMMA ReadsTouched ==
    ASSUME Page!Next
    PROVE  \/ UNCHANGED reads \/ Page!Render
           \/ \E r \in reads : Page!RowRead(r) \/ Page!RowWritten(r)
           \/ \E w \in writes : Page!Recorded(w)
           \/ \E c \in Cards : Page!Tap(c)
BY ZenonT(60) DEF Page!Next, Page!CodeSteps, Page!Closes, Page!GivesUp, Page!JobSteps, Page!FirstWritten, Page!LinkedRead,
                  Page!JobEnds, Page!CardChanged, Page!CheckAnswered, Page!Lands, Page!Confirm, Page!Retry,
                  Page!CloseDrawer, Page!Fetch, Page!PressToggle, Page!JobFails, Page!AnswerDelete, Page!AskDelete,
                  Page!ChooseTopup, Page!Pulled, Page!Misses, Page!Unverified

LEMMA BookStep == ASSUME PageShape, Page!Next PROVE BookShape'
<1>0. /\ chip \in [Cards -> Page!Amounts] /\ reads \subseteq Page!Read /\ writes \subseteq Page!Write
      /\ \A r \in reads : r.found => rows[r.card] # Nothing
      /\ nfc.bal \in Page!Amounts /\ (nfc.phase \in {"ready", "success"} => nfc.card \in Cards)
  BY DEF PageShape, BookShape, ReaderShape, Scans3
<1>1. chip' \in [Cards -> Page!Amounts]
  BY <1>0, ChipTouched DEF Page!Lands, Page!Write
<1>2. PICK no \in BOOLEAN : no = FALSE
  OBVIOUS
<1>3. ASSUME NEW c \in Cards, NEW bal \in Page!Amounts, NEW by \in {"ready", "success"}, Page!Reading(c, bal, by)
      PROVE  \E r \in Page!Read : reads' = reads \cup {r} /\ ~r.found
  <2>1. PICK r : r = [card |-> c, bal |-> bal, by |-> by, at |-> "get", found |-> no]
    OBVIOUS
  <2>2. r \in Page!Read /\ ~r.found
    BY <1>2, <2>1 DEF Page!Read
  <2>3. reads' = reads \cup {r}
    BY <1>2, <1>3, <2>1 DEF Page!Reading
  <2>. QED BY <2>2, <2>3
<1>4. reads' \subseteq reads \/ \E r \in Page!Read : reads' \subseteq reads \cup {r} /\ (r.found => rows[r.card] # Nothing)
  <2>1. CASE Page!Render
    <3>1. UNCHANGED reads \/ (nfc.phase = "success" /\ Page!Reading(nfc.card, nfc.bal, "success"))
      BY <2>1 DEF Page!Render
    <3>. QED BY <1>0, <1>3, <3>1
  <2>2. ASSUME NEW r \in reads, Page!RowWritten(r) PROVE reads' \subseteq reads
    BY <2>2 DEF Page!RowWritten
  <2>3. ASSUME NEW r \in reads, Page!RowRead(r)
        PROVE  reads' \subseteq reads \/ \E s \in Page!Read : reads' \subseteq reads \cup {s} /\ (s.found => rows[s.card] # Nothing)
    <3>1. PICK f \in BOOLEAN : f = (rows[r.card] # Nothing)
      OBVIOUS
    <3>2. PICK s : s = [r EXCEPT !.at = "put", !.found = f]
      OBVIOUS
    <3>3. s \in Page!Read /\ s.found = f /\ s.card = r.card
      BY <1>0, <3>2 DEF Page!Read
    <3>4. reads' \subseteq reads \cup {s}
      BY <2>3, <3>1, <3>2 DEF Page!RowRead
    <3>. QED BY <3>1, <3>3, <3>4
  <2>4. ASSUME NEW w \in writes, Page!Recorded(w) PROVE \E r \in Page!Read : reads' = reads \cup {r} /\ ~r.found
    BY <1>0, <1>3, <2>4 DEF Page!Recorded, Page!Succeeded, Page!Write
  <2>5. ASSUME NEW c \in Cards, Page!Tap(c) PROVE UNCHANGED reads \/ \E r \in Page!Read : reads' = reads \cup {r} /\ ~r.found
    <3>1. UNCHANGED reads \/ Page!Reading(c, chip[c], "ready")
      BY <2>5 DEF Page!Tap, Page!BecomesReady
    <3>. QED BY <1>0, <1>3, <3>1
  <2>. QED BY <2>1, <2>2, <2>3, <2>4, <2>5, ReadsTouched
<1>5. reads' \subseteq Page!Read /\ \A r \in reads' : r.found => rows[r.card] # Nothing
  BY <1>0, <1>4
<1>6. \A r \in reads' : r.found => rows'[r.card] # Nothing
  BY <1>5, RowsKept DEF Page!Read
<1>. QED BY <1>1, <1>5, <1>6, RowsKept DEF BookShape

LEMMA ReaderTouched ==
    ASSUME Page!Next
    PROVE  \/ UNCHANGED <<nfc, writes, journal, closing>>
           \/ Page!Render \/ Page!Closes \/ Page!GivesUp \/ Page!Confirm \/ Page!Retry \/ Page!CloseDrawer
           \/ \E c \in Cards : Page!Tap(c) \/ Page!ChooseTopup(c)
           \/ \E w \in writes : Page!Lands(w) \/ Page!Recorded(w) \/ Page!Misses(w) \/ Page!Unverified(w)
BY ZenonT(60) DEF Page!Next, Page!CodeSteps, Page!JobSteps, Page!FirstWritten, Page!LinkedRead, Page!JobEnds,
                  Page!CardChanged, Page!CheckAnswered, Page!RowRead, Page!RowWritten, Page!Fetch, Page!PressToggle,
                  Page!JobFails, Page!AnswerDelete, Page!AskDelete, Page!Pulled, Page!reader

LEMMA ScanSet ==
    ASSUME NEW n \in Scans3, NEW p \in Pendings, NEW m
    PROVE  /\ m = [n EXCEPT !.pending = p] =>
                m \in Scans3 /\ m.phase = n.phase /\ m.card = n.card /\ m.bal = n.bal /\ m.pending = p
           /\ m = [n EXCEPT !.phase = "error", !.pending = Nothing] =>
                m \in Scans3 /\ m.phase = "error" /\ m.card = n.card /\ m.bal = n.bal /\ m.pending = Nothing
           /\ m = [n EXCEPT !.phase = "writing"] =>
                m \in Scans3 /\ m.phase = "writing" /\ m.card = n.card /\ m.bal = n.bal /\ m.pending = n.pending
           /\ m = [Page!NoScan EXCEPT !.phase = "scanning", !.pending = p] =>
                m \in Scans3 /\ m.phase = "scanning" /\ m.card = Nothing /\ m.bal = 0 /\ m.pending = p
<1>1. Nothing \in Pendings /\ 0 \in Page!Amounts
  BY NothingIsNothing DEF Page!Amounts, Pendings
<1>. QED BY <1>1 DEF Scans3, Page!NoScan

LEMMA ScanMade ==
    ASSUME NEW f \in {"ready", "writing", "success"}, NEW c \in Cards, NEW b \in Page!Amounts, NEW m,
           m = [phase |-> f, card |-> c, bal |-> b, pending |-> Nothing]
    PROVE  m \in Scans3 /\ m.phase = f /\ m.card = c /\ m.bal = b /\ m.pending = Nothing
BY DEF Scans3, Pendings

(* What each step of the reader makes of its state.                         *)
Becomes(f, c, b, p) ==
    /\ nfc' \in Scans3 /\ nfc'.phase = f /\ nfc'.card = c /\ nfc'.bal = b /\ nfc'.pending = p
Begun(c, to) == \E w \in Page!Write : w.card = c /\ w.to = to /\ w.at = "write" /\ writes' = writes \cup {w}
Recordings == {w \in writes : w.at = "record"}

LEMMA ReaderTypes ==
    ASSUME PageShape
    PROVE  /\ nfc \in Scans3 /\ nfc.card \in Cards \cup {Nothing} /\ nfc.bal \in Page!Amounts /\ nfc.pending \in Pendings
           /\ nfc.phase \in {"idle", "scanning", "ready", "writing", "success", "error"}
           /\ nfc.phase \in {"ready", "success"} => nfc.card \in Cards
           /\ nfc.phase \in {"idle", "scanning"} => nfc.card = Nothing
           /\ writes \subseteq Page!Write /\ journal \in [Cards -> Page!Amounts \cup {Nothing}] /\ closing \in BOOLEAN
           /\ chip \in [Cards -> Page!Amounts]
BY DEF PageShape, ReaderShape, BookShape, Scans3

LEMMA WriteMade ==
    ASSUME NEW c \in Cards, NEW to \in Page!Amounts, Page!Starts([card |-> c, to |-> to, at |-> "write"])
    PROVE  Begun(c, to)
BY DEF Page!Starts, Begun, Page!Write

LEMMA AtTap ==
    ASSUME PageShape, NEW c \in Cards, Page!Tap(c)
    PROVE  /\ Page!Waiting
           /\ \/ /\ \E to \in Page!Amounts :
                     /\ \/ nfc.pending # Nothing /\ nfc.pending.card = c /\ to = nfc.pending.to
                        \/ (nfc.pending = Nothing \/ nfc.pending.card # c) /\ Page!Missing(c) /\ to = journal[c]
                     /\ Begun(c, to)
                 /\ Becomes("writing", c, chip[c], Nothing)
                 /\ UNCHANGED <<journal, page, lookups, reads, closing, checked>>
              \/ /\ nfc.pending = Nothing \/ nfc.pending.card # c
                 /\ ~Page!Missing(c) /\ Becomes("ready", c, chip[c], Nothing)
                 /\ Page!Compared(c) /\ Page!Reading(c, chip[c], "ready") /\ checked' = Nothing
                 /\ journal' = [journal EXCEPT ![c] = Nothing] /\ UNCHANGED <<writes, closing>>
           /\ UNCHANGED <<visit, chip, rows, member, jobs, confirmed, undone, overtaken>>
<1>0. Page!Waiting /\ UNCHANGED <<visit, chip, rows, member, jobs, confirmed, undone, overtaken>>
  BY DEF Page!Tap, Page!books
<1>. DEFINE resumed == nfc.pending # Nothing /\ nfc.pending.card = c
<1>1. PICK to : to = IF resumed THEN nfc.pending.to ELSE journal[c]
  OBVIOUS
<1>2. CASE resumed \/ Page!Missing(c)
  <2>1. /\ nfc' = [phase |-> "writing", card |-> c, bal |-> chip[c], pending |-> Nothing]
        /\ Page!Starts([card |-> c, to |-> to, at |-> "write"])
        /\ UNCHANGED <<journal, page, lookups, reads, closing, checked>>
    BY <1>1, <1>2 DEF Page!Tap
  <2>2. to \in Page!Amounts
    BY <1>1, <1>2, ReaderTypes DEF Page!Missing, Pendings
  <2>3. Becomes("writing", c, chip[c], Nothing)
    BY <2>1, ScanMade, ReaderTypes DEF Becomes
  <2>. QED BY <1>0, <1>1, <1>2, <2>1, <2>2, <2>3, WriteMade
<1>3. CASE ~(resumed \/ Page!Missing(c))
  <2>1. Page!BecomesReady(c) /\ journal' = [journal EXCEPT ![c] = Nothing] /\ UNCHANGED writes
    BY <1>3 DEF Page!Tap
  <2>2. Becomes("ready", c, chip[c], Nothing)
    BY <2>1, ScanMade, ReaderTypes DEF Becomes, Page!BecomesReady
  <2>. QED BY <1>0, <1>3, <2>1, <2>2 DEF Page!BecomesReady
<1>. QED BY <1>2, <1>3

LEMMA AtConfirm ==
    ASSUME PageShape, Page!Confirm
    PROVE  /\ nfc.phase = "ready" /\ page.drawer /\ nfc.card \in Cards /\ nfc.bal + 1 \in Page!Amounts
           /\ visit.hurries \/ (lookups = {} /\ reads = {})
           /\ Becomes("writing", nfc.card, nfc.bal, nfc.pending) /\ Begun(nfc.card, nfc.bal + 1)
           /\ journal' = [journal EXCEPT ![nfc.card] = nfc.bal + 1]
           /\ confirmed' = IF nfc.card = page.target /\ (visit.hurries \/ checked = nfc.card)
                           THEN confirmed \cup {<<nfc.card, nfc.bal + 1>>} ELSE confirmed
           /\ UNCHANGED <<visit, chip, rows, page, lookups, reads, closing, checked, overtaken>>
<1>1. nfc.phase = "ready" /\ nfc.bal < Limit /\ nfc.card \in Cards /\ nfc.bal \in 0..Limit /\ Limit \in Nat
  BY ReaderTypes, NothingIsNothing DEF Page!Confirm, Page!Offers, Page!Amounts
<1>2. nfc.bal + 1 \in Page!Amounts
  BY <1>1 DEF Page!Amounts
<1>3. nfc' = [nfc EXCEPT !.phase = "writing"]
  BY DEF Page!Confirm
<1>4. Becomes("writing", nfc.card, nfc.bal, nfc.pending)
  BY <1>3, ScanSet, ReaderTypes DEF Becomes
<1>5. Begun(nfc.card, nfc.bal + 1)
  BY <1>1, <1>2, WriteMade DEF Page!Confirm
<1>. QED BY <1>1, <1>2, <1>4, <1>5 DEF Page!Confirm, Page!Offers, Page!books

LEMMA AtWrite ==
    ASSUME PageShape, NEW w \in writes
    PROVE  /\ w \in Page!Write /\ w.card \in Cards /\ w.to \in Page!Amounts
           /\ Page!Lands(w) => /\ w.at = "write" /\ chip' = [chip EXCEPT ![w.card] = w.to]
                          /\ \E v \in Page!Write : v.card = w.card /\ v.to = w.to /\ v.at = "record" /\ writes' = (writes \ {w}) \cup {v}
                          /\ UNCHANGED <<visit, rows, nfc, journal, page, lookups, reads, closing, confirmed, checked, overtaken>>
           /\ Page!Misses(w) => /\ w.at = "write" /\ writes' = writes \ {w}
                           /\ \/ /\ nfc'.pending # Nothing => nfc'.pending.card = w.card /\ nfc'.pending.to = w.to
                                 /\ Becomes(nfc.phase, nfc.card, nfc.bal, nfc'.pending)
                              \/ Becomes("error", nfc.card, nfc.bal, Nothing)
                           /\ UNCHANGED <<visit, chip, rows, journal, page, lookups, reads, closing, confirmed, checked, overtaken>>
           /\ Page!Unverified(w) => /\ w.at = "record" /\ writes' = writes \ {w} /\ Becomes("error", nfc.card, nfc.bal, Nothing)
                               /\ UNCHANGED <<visit, chip, rows, journal, page, lookups, reads, closing, confirmed, checked, overtaken>>
           /\ Page!Recorded(w) => /\ w.at = "record" /\ writes' = writes \ {w} /\ Becomes("success", w.card, w.to, Nothing)
                             /\ rows' = [rows EXCEPT ![w.card] = Page!FromChip(w.card, w.to)]
                             /\ journal' = [journal EXCEPT ![w.card] = Nothing]
                             /\ Page!Reading(w.card, w.to, "success") /\ closing'
                             /\ UNCHANGED <<visit, chip, page, lookups, confirmed, checked, overtaken>>
<1>1. w \in Page!Write /\ w.card \in Cards /\ w.to \in Page!Amounts /\ Nothing \in Pendings
  BY ReaderTypes DEF Page!Write, Pendings
<1>2. ASSUME Page!Lands(w)
      PROVE  \E v \in Page!Write : v.card = w.card /\ v.to = w.to /\ v.at = "record" /\ writes' = (writes \ {w}) \cup {v}
  <2>1. PICK v : v = [w EXCEPT !.at = "record"]
    OBVIOUS
  <2>2. v \in Page!Write /\ v.card = w.card /\ v.to = w.to /\ v.at = "record"
    BY <1>1, <2>1 DEF Page!Write
  <2>. QED BY <1>2, <2>1, <2>2 DEF Page!Lands
<1>3. ASSUME Page!Misses(w)
      PROVE  \/ /\ nfc'.pending # Nothing => nfc'.pending.card = w.card /\ nfc'.pending.to = w.to
                /\ Becomes(nfc.phase, nfc.card, nfc.bal, nfc'.pending)
             \/ Becomes("error", nfc.card, nfc.bal, Nothing)
  <2>1. PICK p : p = [card |-> w.card, to |-> w.to]
    OBVIOUS
  <2>2. p \in Pendings /\ p.card = w.card /\ p.to = w.to
    BY <1>1, <2>1 DEF Pendings
  <2>3. nfc' = [nfc EXCEPT !.pending = p] \/ nfc' = [nfc EXCEPT !.phase = "error", !.pending = Nothing]
    BY <1>3, <2>1 DEF Page!Misses
  <2>4. CASE nfc' = [nfc EXCEPT !.pending = p]
    BY <2>2, <2>4, ReaderTypes DEF Becomes, Scans3
  <2>5. CASE nfc' = [nfc EXCEPT !.phase = "error", !.pending = Nothing]
    BY <1>1, <2>5, ReaderTypes DEF Becomes, Scans3
  <2>. QED BY <2>3, <2>4, <2>5
<1>4. ASSUME Page!Unverified(w) PROVE Becomes("error", nfc.card, nfc.bal, Nothing)
  <2>1. nfc' = [nfc EXCEPT !.phase = "error", !.pending = Nothing]
    BY <1>4 DEF Page!Unverified
  <2>. QED BY <1>1, <2>1, ReaderTypes DEF Becomes, Scans3
<1>5. ASSUME Page!Recorded(w) PROVE Becomes("success", w.card, w.to, Nothing)
  <2>1. nfc' = [phase |-> "success", card |-> w.card, bal |-> w.to, pending |-> Nothing]
    BY <1>5 DEF Page!Recorded, Page!Succeeded
  <2>. QED BY <1>1, <2>1, ScanMade DEF Becomes
<1>6. ASSUME Page!Lands(w)
      PROVE  /\ w.at = "write" /\ chip' = [chip EXCEPT ![w.card] = w.to]
             /\ UNCHANGED <<visit, rows, nfc, journal, page, lookups, reads, closing, confirmed, checked, overtaken>>
  BY <1>6 DEF Page!Lands, Page!books, Page!history
<1>7. ASSUME Page!Misses(w)
      PROVE  /\ w.at = "write" /\ writes' = writes \ {w}
             /\ UNCHANGED <<visit, chip, rows, journal, page, lookups, reads, closing, confirmed, checked, overtaken>>
  BY <1>7 DEF Page!Misses, Page!books, Page!history
<1>8. ASSUME Page!Unverified(w)
      PROVE  /\ w.at = "record" /\ writes' = writes \ {w}
             /\ UNCHANGED <<visit, chip, rows, journal, page, lookups, reads, closing, confirmed, checked, overtaken>>
  BY <1>8 DEF Page!Unverified, Page!books, Page!history
<1>9. ASSUME Page!Recorded(w)
      PROVE  /\ w.at = "record" /\ writes' = writes \ {w} /\ rows' = [rows EXCEPT ![w.card] = Page!FromChip(w.card, w.to)]
             /\ journal' = [journal EXCEPT ![w.card] = Nothing]
             /\ Page!Reading(w.card, w.to, "success") /\ closing'
             /\ UNCHANGED <<visit, chip, page, lookups, confirmed, checked, overtaken>>
  BY <1>9 DEF Page!Recorded, Page!Succeeded
<1>. QED BY <1>1, <1>2, <1>3, <1>4, <1>5, <1>6, <1>7, <1>8, <1>9

LEMMA AtOther ==
    ASSUME PageShape
    PROVE  /\ Page!GivesUp => /\ nfc.phase = "writing" /\ nfc.pending # Nothing /\ Becomes("error", nfc.card, nfc.bal, Nothing)
                         /\ UNCHANGED <<visit, chip, rows, writes, journal, page, lookups, reads, closing, confirmed, checked, overtaken>>
           /\ Page!Closes => /\ closing /\ ~closing' /\ Becomes("idle", Nothing, 0, Nothing) /\ writes' = Recordings
                        /\ page' = [page EXCEPT !.drawer = FALSE]
                        /\ UNCHANGED <<visit, chip, rows, journal, lookups, reads, confirmed, checked, overtaken>>
           /\ Page!CloseDrawer => /\ page.drawer /\ (nfc.phase = "writing" => visit.hurries) /\ ~closing'
                             /\ Becomes("idle", Nothing, 0, Nothing) /\ writes' = Recordings
                             /\ (nfc.card = Nothing \/ nfc.phase \in {"success", "error"} => journal' = journal)
                             /\ (nfc.card # Nothing /\ nfc.phase \notin {"success", "error"}
                                   => journal' = [journal EXCEPT ![nfc.card] = Nothing])
                             /\ page' = [page EXCEPT !.drawer = FALSE]
                             /\ UNCHANGED <<visit, chip, rows, lookups, reads, confirmed, checked, overtaken>>
           /\ \A c \in Cards : Page!ChooseTopup(c) =>
                 /\ ~page.drawer /\ page' = [page EXCEPT !.drawer = TRUE, !.target = c] /\ ~closing'
                 /\ Becomes("scanning", Nothing, 0, nfc.pending) /\ writes' = Recordings
                 /\ overtaken' = (overtaken \/ writes # {})
                 /\ UNCHANGED <<visit, chip, rows, journal, lookups, reads, confirmed, checked>>
           /\ Page!Retry => /\ nfc.phase = "error" /\ page.drawer /\ ~closing' /\ writes' = Recordings
                       /\ \/ /\ nfc'.pending # Nothing => nfc'.pending.card = nfc.card /\ nfc'.pending.to = journal[nfc.card]
                             /\ Becomes("scanning", Nothing, 0, nfc'.pending)
                             /\ nfc.card \in Cards /\ journal[nfc.card] # Nothing
                          \/ Becomes("scanning", Nothing, 0, nfc.pending)
                       /\ UNCHANGED <<visit, chip, rows, journal, page, lookups, reads, confirmed, checked, overtaken>>
<1>0. Nothing \in Pendings
  BY DEF Pendings
<1>1. ASSUME Page!GivesUp PROVE Becomes("error", nfc.card, nfc.bal, Nothing)
  <2>1. nfc' = [nfc EXCEPT !.phase = "error", !.pending = Nothing]
    BY <1>1 DEF Page!GivesUp
  <2>. QED BY <1>0, <2>1, ReaderTypes DEF Becomes, Scans3
<1>2. ASSUME nfc' = Page!NoScan PROVE Becomes("idle", Nothing, 0, Nothing)
  BY <1>0, <1>2, NothingIsNothing DEF Becomes, Page!NoScan, Scans3, Page!Amounts
<1>3. ASSUME NEW p \in Pendings, Page!Scans(p) PROVE Becomes("scanning", Nothing, 0, p) /\ writes' = Recordings /\ ~closing'
  <2>1. nfc' = [Page!NoScan EXCEPT !.phase = "scanning", !.pending = p]
    BY <1>3 DEF Page!Scans
  <2>2. Becomes("scanning", Nothing, 0, p)
    <3>1. nfc' = [phase |-> "scanning", card |-> Nothing, bal |-> 0, pending |-> p]
      BY <2>1 DEF Page!NoScan
    <3>2. p \in Pendings /\ 0 \in Page!Amounts
      BY <1>3, NothingIsNothing DEF Page!Amounts
    <3>. QED BY <3>1, <3>2 DEF Becomes, Scans3
  <2>. QED BY <1>3, <2>2 DEF Page!Scans, Recordings
<1>4. ASSUME Page!Retry
      PROVE  /\ ~closing' /\ writes' = Recordings
             /\ \/ /\ nfc'.pending # Nothing => nfc'.pending.card = nfc.card /\ nfc'.pending.to = journal[nfc.card]
                   /\ Becomes("scanning", Nothing, 0, nfc'.pending)
                   /\ nfc.card \in Cards /\ journal[nfc.card] # Nothing
                \/ Becomes("scanning", Nothing, 0, nfc.pending)
  <2>1. CASE nfc.card # Nothing /\ journal[nfc.card] # Nothing
    <3>1. nfc.card \in Cards /\ journal[nfc.card] \in Page!Amounts
      BY <2>1, ReaderTypes
    <3>2. PICK p : p = [card |-> nfc.card, to |-> journal[nfc.card]]
      OBVIOUS
    <3>3. p \in Pendings /\ p.card = nfc.card /\ p.to = journal[nfc.card]
      BY <3>1, <3>2 DEF Pendings
    <3>4. Page!Scans(p)
      BY <1>4, <2>1, <3>2 DEF Page!Retry
    <3>. QED BY <1>3, <2>1, <3>1, <3>3, <3>4 DEF Becomes
  <2>2. CASE ~(nfc.card # Nothing /\ journal[nfc.card] # Nothing)
    <3>1. Page!Scans(nfc.pending)
      BY <1>4, <2>2 DEF Page!Retry
    <3>. QED BY <1>3, <3>1, ReaderTypes
  <2>. QED BY <2>1, <2>2
<1>5. ASSUME NEW c \in Cards, Page!ChooseTopup(c)
      PROVE  Becomes("scanning", Nothing, 0, nfc.pending) /\ writes' = Recordings /\ ~closing'
  BY <1>3, <1>5, ReaderTypes DEF Page!ChooseTopup
<1>6. ASSUME Page!GivesUp
      PROVE  /\ nfc.phase = "writing" /\ nfc.pending # Nothing
             /\ UNCHANGED <<visit, chip, rows, writes, journal, page, lookups, reads, closing, confirmed, checked, overtaken>>
  BY <1>6 DEF Page!GivesUp, Page!books, Page!history
<1>7. ASSUME Page!Closes
      PROVE  /\ closing /\ ~closing' /\ nfc' = Page!NoScan /\ writes' = Recordings /\ page' = [page EXCEPT !.drawer = FALSE]
             /\ UNCHANGED <<visit, chip, rows, journal, lookups, reads, confirmed, checked, overtaken>>
  BY <1>7 DEF Page!Closes, Recordings, Page!books, Page!history
<1>8. ASSUME Page!CloseDrawer
      PROVE  /\ page.drawer /\ (nfc.phase = "writing" => visit.hurries) /\ ~closing' /\ nfc' = Page!NoScan /\ writes' = Recordings
             /\ (nfc.card = Nothing \/ nfc.phase \in {"success", "error"} => journal' = journal)
             /\ (nfc.card # Nothing /\ nfc.phase \notin {"success", "error"} => journal' = [journal EXCEPT ![nfc.card] = Nothing])
             /\ page' = [page EXCEPT !.drawer = FALSE]
             /\ UNCHANGED <<visit, chip, rows, lookups, reads, confirmed, checked, overtaken>>
  BY <1>8 DEF Page!CloseDrawer, Page!TornDown, Recordings, Page!books, Page!history
<1>9. ASSUME NEW c \in Cards, Page!ChooseTopup(c)
      PROVE  /\ ~page.drawer /\ page' = [page EXCEPT !.drawer = TRUE, !.target = c]
             /\ overtaken' = (overtaken \/ writes # {})
             /\ UNCHANGED <<visit, chip, rows, journal, lookups, reads, confirmed, checked>>
  BY <1>9 DEF Page!ChooseTopup, Page!AtList, Page!books
<1>10. ASSUME Page!Retry
       PROVE  /\ nfc.phase = "error" /\ page.drawer
              /\ UNCHANGED <<visit, chip, rows, journal, page, lookups, reads, confirmed, checked, overtaken>>
  BY <1>10 DEF Page!Retry, Page!Offers, Page!books, Page!history
<1>11. Page!GivesUp => /\ nfc.phase = "writing" /\ nfc.pending # Nothing /\ Becomes("error", nfc.card, nfc.bal, Nothing)
                  /\ UNCHANGED <<visit, chip, rows, writes, journal, page, lookups, reads, closing, confirmed, checked, overtaken>>
  BY <1>1, <1>6
<1>12. Page!Closes => /\ closing /\ ~closing' /\ Becomes("idle", Nothing, 0, Nothing) /\ writes' = Recordings
                 /\ page' = [page EXCEPT !.drawer = FALSE]
                 /\ UNCHANGED <<visit, chip, rows, journal, lookups, reads, confirmed, checked, overtaken>>
  BY <1>2, <1>7
<1>13. Page!CloseDrawer => /\ page.drawer /\ (nfc.phase = "writing" => visit.hurries) /\ ~closing'
                      /\ Becomes("idle", Nothing, 0, Nothing) /\ writes' = Recordings
                      /\ (nfc.card = Nothing \/ nfc.phase \in {"success", "error"} => journal' = journal)
                      /\ (nfc.card # Nothing /\ nfc.phase \notin {"success", "error"} => journal' = [journal EXCEPT ![nfc.card] = Nothing])
                      /\ page' = [page EXCEPT !.drawer = FALSE]
                      /\ UNCHANGED <<visit, chip, rows, lookups, reads, confirmed, checked, overtaken>>
  <2>1. ASSUME Page!CloseDrawer PROVE Becomes("idle", Nothing, 0, Nothing)
    BY <1>2, <1>8, <2>1
  <2>. QED BY <1>8, <2>1
<1>14. \A c \in Cards : Page!ChooseTopup(c) =>
         /\ ~page.drawer /\ page' = [page EXCEPT !.drawer = TRUE, !.target = c] /\ ~closing'
         /\ Becomes("scanning", Nothing, 0, nfc.pending) /\ writes' = Recordings
         /\ overtaken' = (overtaken \/ writes # {})
         /\ UNCHANGED <<visit, chip, rows, journal, lookups, reads, confirmed, checked>>
  BY <1>5, <1>9
<1>15. Page!Retry => /\ nfc.phase = "error" /\ page.drawer /\ ~closing' /\ writes' = Recordings
                /\ \/ /\ nfc'.pending # Nothing => nfc'.pending.card = nfc.card /\ nfc'.pending.to = journal[nfc.card]
                      /\ Becomes("scanning", Nothing, 0, nfc'.pending)
                      /\ nfc.card \in Cards /\ journal[nfc.card] # Nothing
                   \/ Becomes("scanning", Nothing, 0, nfc.pending)
                /\ UNCHANGED <<visit, chip, rows, journal, page, lookups, reads, confirmed, checked, overtaken>>
  BY <1>4, <1>10
<1>. QED BY <1>11, <1>12, <1>13, <1>14, <1>15

LEMMA ReaderStep == ASSUME PageShape, Page!Next PROVE ReaderShape'
<1>0. /\ nfc \in Scans3 /\ writes \subseteq Page!Write /\ journal \in [Cards -> Page!Amounts \cup {Nothing}] /\ closing \in BOOLEAN
      /\ nfc.phase \in {"ready", "success"} => nfc.card \in Cards
      /\ nfc.phase \in {"idle", "scanning"} => nfc.card = Nothing
      /\ nfc.card \in Cards \cup {Nothing}
  BY ReaderTypes
<1>1. ASSUME NEW f, NEW c, NEW b, NEW p, Becomes(f, c, b, p),
             f \in {"ready", "success"} => c \in Cards, f \in {"idle", "scanning"} => c = Nothing,
             writes' \subseteq Page!Write, journal' \in [Cards -> Page!Amounts \cup {Nothing}], closing' \in BOOLEAN
      PROVE  ReaderShape'
  BY <1>1 DEF Becomes, ReaderShape
<1>2. ASSUME NEW c \in Cards, NEW a \in Page!Amounts \cup {Nothing}, journal' = [journal EXCEPT ![c] = a]
      PROVE  journal' \in [Cards -> Page!Amounts \cup {Nothing}]
  BY <1>0, <1>2
<1>3. ASSUME NEW c, NEW to, Begun(c, to) PROVE writes' \subseteq Page!Write
  BY <1>0, <1>3 DEF Begun
<1>4. Recordings \subseteq Page!Write
  BY <1>0 DEF Recordings
<1>6. closing' \in BOOLEAN
  BY <1>0 DEF Page!Next, Page!CodeSteps, Page!Closes, Page!GivesUp, Page!JobSteps, Page!FirstWritten, Page!LinkedRead,
              Page!JobEnds, Page!CardChanged, Page!CheckAnswered, Page!RowRead, Page!RowWritten, Page!Lands,
              Page!Recorded, Page!Succeeded, Page!Render, Page!Confirm, Page!Retry, Page!Scans, Page!CloseDrawer,
              Page!Fetch, Page!PressToggle, Page!JobFails, Page!AnswerDelete, Page!AskDelete, Page!Tap, Page!BecomesReady,
              Page!ChooseTopup, Page!Pulled, Page!Misses, Page!Unverified
<1>7. CASE UNCHANGED <<nfc, writes, journal, closing>>
  BY <1>0, <1>7 DEF ReaderShape
<1>8. CASE Page!Render
  BY <1>0, <1>6, <1>8 DEF Page!Render, Page!reader, ReaderShape
<1>9. CASE Page!Confirm
  <2>1. /\ Becomes("writing", nfc.card, nfc.bal, nfc.pending) /\ Begun(nfc.card, nfc.bal + 1) /\ nfc.card \in Cards
        /\ nfc.bal + 1 \in Page!Amounts /\ journal' = [journal EXCEPT ![nfc.card] = nfc.bal + 1]
    BY <1>9, AtConfirm
  <2>. QED BY <1>1, <1>2, <1>3, <1>6, <2>1
<1>10. ASSUME NEW c \in Cards, Page!Tap(c) PROVE ReaderShape'
  <2>1. CASE /\ \E to \in Page!Amounts : Begun(c, to)
             /\ Becomes("writing", c, chip[c], Nothing) /\ UNCHANGED journal
    BY <1>0, <1>1, <1>3, <1>6, <2>1
  <2>2. CASE /\ Becomes("ready", c, chip[c], Nothing)
             /\ journal' = [journal EXCEPT ![c] = Nothing] /\ UNCHANGED writes
    BY <1>0, <1>1, <1>2, <1>6, <2>2
  <2>. QED BY <1>10, <2>1, <2>2, AtTap
<1>11. ASSUME NEW w \in writes, Page!Lands(w) \/ Page!Misses(w) \/ Page!Unverified(w) \/ Page!Recorded(w) PROVE ReaderShape'
  <2>1. w.card \in Cards
    BY AtWrite
  <2>2. CASE Page!Lands(w)
    BY <1>0, <1>6, <2>2, AtWrite DEF ReaderShape
  <2>3. CASE Page!Misses(w)
    <3>1. /\ writes' = writes \ {w} /\ UNCHANGED journal
          /\ Becomes(nfc.phase, nfc.card, nfc.bal, nfc'.pending) \/ Becomes("error", nfc.card, nfc.bal, Nothing)
      BY <2>3, AtWrite
    <3>. QED BY <1>0, <1>1, <1>6, <3>1
  <2>4. CASE Page!Unverified(w)
    <3>1. writes' = writes \ {w} /\ UNCHANGED journal /\ Becomes("error", nfc.card, nfc.bal, Nothing)
      BY <2>4, AtWrite
    <3>. QED BY <1>0, <1>1, <1>6, <3>1
  <2>5. CASE Page!Recorded(w)
    <3>1. /\ writes' = writes \ {w} /\ journal' = [journal EXCEPT ![w.card] = Nothing]
          /\ Becomes("success", w.card, w.to, Nothing)
      BY <2>5, AtWrite
    <3>. QED BY <1>0, <1>1, <1>2, <1>6, <2>1, <3>1
  <2>. QED BY <1>11, <2>2, <2>3, <2>4, <2>5
<1>12. CASE Page!GivesUp
  <2>1. Becomes("error", nfc.card, nfc.bal, Nothing) /\ UNCHANGED <<writes, journal>>
    BY <1>12, AtOther
  <2>. QED BY <1>0, <1>1, <1>6, <2>1
<1>13. CASE Page!Closes
  <2>1. Becomes("idle", Nothing, 0, Nothing) /\ writes' = Recordings /\ UNCHANGED journal
    BY <1>13, AtOther
  <2>. QED BY <1>0, <1>1, <1>4, <1>6, <2>1
<1>14. CASE Page!CloseDrawer
  <2>1. /\ Becomes("idle", Nothing, 0, Nothing) /\ writes' = Recordings
        /\ journal' = journal \/ (nfc.card # Nothing /\ journal' = [journal EXCEPT ![nfc.card] = Nothing])
    BY <1>14, AtOther
  <2>. QED BY <1>0, <1>1, <1>2, <1>4, <1>6, <2>1
<1>15. ASSUME NEW c \in Cards, Page!ChooseTopup(c) PROVE ReaderShape'
  <2>1. Becomes("scanning", Nothing, 0, nfc.pending) /\ writes' = Recordings /\ UNCHANGED journal
    BY <1>15, AtOther
  <2>. QED BY <1>0, <1>1, <1>4, <1>6, <2>1
<1>16. CASE Page!Retry
  <2>1. /\ Becomes("scanning", Nothing, 0, nfc'.pending) \/ Becomes("scanning", Nothing, 0, nfc.pending)
        /\ writes' = Recordings /\ UNCHANGED journal
    BY <1>16, AtOther
  <2>. QED BY <1>0, <1>1, <1>4, <1>6, <2>1
<1>. QED BY <1>7, <1>8, <1>9, <1>10, <1>11, <1>12, <1>13, <1>14, <1>15, <1>16, ReaderTouched

LEMMA JobsTouched ==
    ASSUME Page!Next
    PROVE  \/ UNCHANGED jobs \/ Page!PressToggle
           \/ \E yes \in BOOLEAN : Page!AnswerDelete(yes)
           \/ \E k \in Page!Kinds : \/ Page!FirstWritten(k) \/ Page!LinkedRead(k) \/ Page!JobEnds(k) \/ Page!JobFails(k)
                              \/ \E c \in Cards : Page!CardChanged(k, c)
BY ZenonT(60) DEF Page!Next, Page!CodeSteps, Page!Closes, Page!GivesUp, Page!JobSteps, Page!CheckAnswered, Page!RowRead,
                  Page!RowWritten, Page!Lands, Page!Recorded, Page!Render, Page!Confirm, Page!Retry, Page!CloseDrawer,
                  Page!Fetch, Page!AskDelete, Page!Tap, Page!ChooseTopup, Page!Pulled, Page!Misses, Page!Unverified


(* What each step makes of the mutation of one kind; the others stay.       *)
Goes(k, n) == n \in Page!Job /\ jobs' = [jobs EXCEPT ![k] = n]
Ends(k) == jobs' = [jobs EXCEPT ![k] = Nothing]

LEMMA AtJob ==
    ASSUME PageShape, NEW k \in Page!Kinds, NEW j, j = jobs[k], j # Nothing
    PROVE  /\ j \in Page!Job /\ JobFits(k, j)
           /\ Page!FirstWritten(k) =>
                /\ j.at = "first" /\ UNCHANGED <<reads, undone>>
                /\ \/ /\ k = "card" /\ Ends(k) /\ member' = member
                      /\ \A c \in Cards : \/ rows'[c] = rows[c]
                                          \/ rows[c] # Nothing /\ rows'[c] = [rows[c] EXCEPT !.status = "deleted"]
                   \/ /\ k # "card" /\ member' = j.to /\ rows' = rows
                      /\ \E n : Goes(k, n) /\ n.at = "read" /\ n.to = j.to /\ n.card = j.card /\ n.todo = j.todo
           /\ Page!LinkedRead(k) =>
                /\ j.at = "read" /\ UNCHANGED <<rows, member, reads, undone>>
                /\ \E n : /\ Goes(k, n) /\ n.at = "cards" /\ n.to = j.to /\ n.card = j.card
                          /\ n.todo = {c \in Cards : rows[c] # Nothing /\ rows[c].owned /\ rows[c].status \in Page!Affected(j.to)}
           /\ \A c \in Cards : Page!CardChanged(k, c) =>
                /\ j.at = "cards" /\ c \in j.todo /\ UNCHANGED <<member, reads, undone>>
                /\ rows' = [rows EXCEPT ![c] = [rows[c] EXCEPT !.status = Page!CardStatusOf(j.to)]]
                /\ \E n : Goes(k, n) /\ n.at = "cards" /\ n.to = j.to /\ n.card = j.card /\ n.todo = j.todo \ {c}
           /\ Page!JobEnds(k) => j.at = "cards" /\ j.todo = {} /\ Ends(k) /\ UNCHANGED <<rows, member, reads, undone>>
           /\ Page!JobFails(k) => Ends(k) /\ undone' /\ UNCHANGED <<rows, member, reads>>
<1>0. j \in Page!Job /\ JobFits(k, j) /\ jobs \in [Page!Kinds -> Page!Job \cup {Nothing}] /\ rows \in [Cards -> Page!Row \cup {Nothing}]
  BY DEF PageShape, JobShape, BookShape
<1>1. ASSUME Page!FirstWritten(k), k = "card"
      PROVE  /\ Ends(k) /\ member' = member
             /\ \A c \in Cards : \/ rows'[c] = rows[c]
                                 \/ rows[c] # Nothing /\ rows'[c] = [rows[c] EXCEPT !.status = "deleted"]
  <2>1. /\ jobs' = [jobs EXCEPT ![k] = Nothing] /\ member' = member
        /\ rows' = [rows EXCEPT ![j.card] = IF rows[j.card] = Nothing THEN rows[j.card]
                                            ELSE [rows[j.card] EXCEPT !.status = "deleted"]]
    BY <1>1 DEF Page!FirstWritten
  <2>2. ASSUME NEW c \in Cards
        PROVE  rows'[c] = rows[c] \/ (rows[c] # Nothing /\ rows'[c] = [rows[c] EXCEPT !.status = "deleted"])
    <3>1. CASE c # j.card \/ rows[c] = Nothing
      BY <1>0, <2>1, <3>1
    <3>2. CASE c = j.card /\ rows[c] # Nothing
      BY <1>0, <2>1, <3>2
    <3>. QED BY <3>1, <3>2
  <2>. QED BY <2>1, <2>2 DEF Ends
<1>2. ASSUME Page!FirstWritten(k), k # "card"
      PROVE  /\ member' = j.to /\ rows' = rows
             /\ \E n : Goes(k, n) /\ n.at = "read" /\ n.to = j.to /\ n.card = j.card /\ n.todo = j.todo
  <2>1. PICK n : n = [j EXCEPT !.at = "read"]
    OBVIOUS
  <2>2. n \in Page!Job /\ n.at = "read" /\ n.to = j.to /\ n.card = j.card /\ n.todo = j.todo
    BY <1>0, <2>1 DEF Page!Job
  <2>3. jobs' = [jobs EXCEPT ![k] = n] /\ member' = j.to /\ rows' = rows
    BY <1>2, <2>1 DEF Page!FirstWritten
  <2>. QED BY <2>2, <2>3 DEF Goes
<1>3. ASSUME Page!LinkedRead(k)
      PROVE  \E n : /\ Goes(k, n) /\ n.at = "cards" /\ n.to = j.to /\ n.card = j.card
                    /\ n.todo = {c \in Cards : rows[c] # Nothing /\ rows[c].owned /\ rows[c].status \in Page!Affected(j.to)}
  <2>1. PICK linked : linked = {c \in Cards : rows[c] # Nothing /\ rows[c].owned /\ rows[c].status \in Page!Affected(j.to)}
    OBVIOUS
  <2>2. PICK n : n = [j EXCEPT !.at = "cards", !.todo = linked]
    OBVIOUS
  <2>3. n \in Page!Job /\ n.at = "cards" /\ n.to = j.to /\ n.card = j.card /\ n.todo = linked
    BY <1>0, <2>1, <2>2 DEF Page!Job
  <2>4. jobs' = [jobs EXCEPT ![k] = n]
    BY <1>0, <1>3, <2>1, <2>2 DEF Page!LinkedRead
  <2>. QED BY <2>1, <2>3, <2>4 DEF Goes
<1>4. ASSUME NEW c \in Cards, Page!CardChanged(k, c)
      PROVE  /\ rows' = [rows EXCEPT ![c] = [rows[c] EXCEPT !.status = Page!CardStatusOf(j.to)]]
             /\ \E n : Goes(k, n) /\ n.at = "cards" /\ n.to = j.to /\ n.card = j.card /\ n.todo = j.todo \ {c}
  <2>1. PICK n : n = [j EXCEPT !.todo = j.todo \ {c}]
    OBVIOUS
  <2>2. j.at = "cards"
    BY <1>4 DEF Page!CardChanged, Page!Is
  <2>3. n \in Page!Job /\ n.at = "cards" /\ n.to = j.to /\ n.card = j.card /\ n.todo = j.todo \ {c}
    BY <1>0, <2>1, <2>2 DEF Page!Job
  <2>4. jobs' = [jobs EXCEPT ![k] = n]
    BY <1>0, <1>4, <2>1 DEF Page!CardChanged, Page!TodoAfter
  <2>. QED BY <1>4, <2>3, <2>4 DEF Page!CardChanged, Goes
<1>5. Page!FirstWritten(k) => j.at = "first" /\ UNCHANGED <<reads, undone>>
  BY DEF Page!FirstWritten, Page!Is, Page!history
<1>6. Page!LinkedRead(k) => j.at = "read" /\ UNCHANGED <<rows, member, reads, undone>>
  BY DEF Page!LinkedRead, Page!Is, Page!books, Page!history
<1>7. \A c \in Cards : Page!CardChanged(k, c) => j.at = "cards" /\ c \in j.todo /\ UNCHANGED <<member, reads, undone>>
  BY DEF Page!CardChanged, Page!Is, Page!history
<1>8. Page!JobEnds(k) => j.at = "cards" /\ j.todo = {} /\ Ends(k) /\ UNCHANGED <<rows, member, reads, undone>>
  BY DEF Page!JobEnds, Page!Is, Ends, Page!books, Page!history
<1>9. Page!JobFails(k) => Ends(k) /\ undone' /\ UNCHANGED <<rows, member, reads>>
  BY DEF Page!JobFails, Ends, Page!books
<1>. QED BY <1>0, <1>1, <1>2, <1>3, <1>4, <1>5, <1>6, <1>7, <1>8, <1>9

LEMMA AtBegin ==
    ASSUME PageShape, Page!PressToggle \/ \E yes \in BOOLEAN : Page!AnswerDelete(yes)
    PROVE  /\ UNCHANGED <<rows, member, reads>>
           /\ \/ UNCHANGED <<jobs, undone>>
              \/ \E k \in Page!Kinds : \E n :
                   /\ jobs[k] = Nothing /\ Goes(k, n) /\ n.at = "first" /\ n.todo = {}
                   /\ k = "card" => n.card \in Cards
                   /\ k = "delete" => n.to = "deleted"
                   /\ k = "toggle" => n.to \in {"active", "suspended"}
                   /\ undone' = IF k = "card" THEN undone ELSE ~Page!AtRest
<1>1. ASSUME NEW to \in {"active", "suspended", "deleted"}, NEW c \in Cards \cup {Nothing}, NEW k \in Page!Kinds, NEW n,
             n = [to |-> to, card |-> c, at |-> "first", todo |-> {}], Page!Begins(k, n)
      PROVE  /\ jobs[k] = Nothing /\ Goes(k, n) /\ n.at = "first" /\ n.todo = {} /\ n.to = to /\ n.card = c
             /\ undone' = IF k = "card" THEN undone ELSE ~Page!AtRest
  BY <1>1 DEF Page!Begins, Goes, Page!Job
<1>2. CASE Page!PressToggle
  <2>1. PICK to \in {"active", "suspended"} : to = IF listed.member = "active" THEN "suspended" ELSE "active"
    OBVIOUS
  <2>2. Page!Begins("toggle", [to |-> to, card |-> Nothing, at |-> "first", todo |-> {}]) /\ UNCHANGED <<rows, member, reads>>
    BY <1>2, <2>1 DEF Page!PressToggle, Page!Task, Page!books
  <2>. QED BY <1>1, <2>2 DEF Page!Kinds
<1>3. ASSUME NEW yes \in BOOLEAN, Page!AnswerDelete(yes)
      PROVE  /\ UNCHANGED <<rows, member, reads>>
             /\ \/ UNCHANGED <<jobs, undone>>
                \/ Page!Begins("delete", [to |-> "deleted", card |-> Nothing, at |-> "first", todo |-> {}])
                \/ page.question \in Cards /\ Page!Begins("card", [to |-> "deleted", card |-> page.question, at |-> "first", todo |-> {}])
  <2>1. UNCHANGED <<rows, member, reads>> /\ page.question \in Cards \cup {"member"}
    BY <1>3 DEF Page!AnswerDelete, Page!books, PageShape, DrawerShape, Drawers
  <2>2. CASE ~yes
    BY <1>3, <2>1, <2>2 DEF Page!AnswerDelete
  <2>3. CASE yes /\ page.question = "member"
    <3>1. Page!Begins("delete", [Page!Task EXCEPT !.to = "deleted"])
      BY <1>3, <2>3 DEF Page!AnswerDelete
    <3>2. [Page!Task EXCEPT !.to = "deleted"] = [to |-> "deleted", card |-> Nothing, at |-> "first", todo |-> {}]
      BY DEF Page!Task
    <3>. QED BY <2>1, <3>1, <3>2
  <2>4. CASE yes /\ page.question # "member"
    <3>1. PICK n : n = [Page!Task EXCEPT !.to = "deleted", !.card = page.question]
      OBVIOUS
    <3>2. Page!Begins("card", n) /\ page.question \in Cards
      BY <1>3, <2>1, <2>4, <3>1 DEF Page!AnswerDelete
    <3>3. n = [to |-> "deleted", card |-> page.question, at |-> "first", todo |-> {}]
      BY <3>1 DEF Page!Task
    <3>4. Page!Begins("card", [to |-> "deleted", card |-> page.question, at |-> "first", todo |-> {}])
      BY <3>2, <3>3
    <3>. QED BY <2>1, <3>2, <3>4
  <2>. QED BY <2>2, <2>3, <2>4
<1>. QED BY <1>1, <1>2, <1>3 DEF Page!Kinds

LEMMA JobStep == ASSUME PageShape, Page!Next PROVE JobShape'
<1>0. /\ jobs \in [Page!Kinds -> Page!Job \cup {Nothing}] /\ \A k \in Page!Kinds : jobs[k] # Nothing => JobFits(k, jobs[k])
      /\ \A c \in Cards : rows[c] # Nothing => rows'[c] # Nothing
      /\ \A k \in Page!Kinds : jobs[k] # Nothing => jobs[k].todo \subseteq Cards
  BY RowsKept DEF PageShape, JobShape, Page!Job
<1>1. \A k \in Page!Kinds : \A n : n # Nothing /\ n.todo \subseteq Cards /\ JobFits(k, n) => JobFits(k, n)'
  BY <1>0 DEF JobFits
<1>2. CASE UNCHANGED jobs
  BY <1>0, <1>1, <1>2 DEF JobShape
<1>3. ASSUME NEW k \in Page!Kinds, Ends(k) PROVE JobShape'
  <2>1. \A l \in Page!Kinds : jobs'[l] # Nothing => jobs'[l] = jobs[l]
    BY <1>0, <1>3 DEF Ends
  <2>2. jobs' \in [Page!Kinds -> Page!Job \cup {Nothing}]
    BY <1>0, <1>3 DEF Ends
  <2>. QED BY <1>0, <1>1, <2>1, <2>2 DEF JobShape
<1>4. ASSUME NEW k \in Page!Kinds, NEW n, Goes(k, n), JobFits(k, n) PROVE JobShape'
  <2>1. \A l \in Page!Kinds : jobs'[l] = IF l = k THEN n ELSE jobs[l]
    BY <1>0, <1>4 DEF Goes
  <2>2. jobs' \in [Page!Kinds -> Page!Job \cup {Nothing}] /\ n.todo \subseteq Cards /\ n # Nothing
    BY <1>0, <1>4, NothingIsNothing DEF Goes, Page!Job
  <2>. QED BY <1>0, <1>1, <1>4, <2>1, <2>2 DEF JobShape
<1>5. CASE Page!PressToggle \/ \E yes \in BOOLEAN : Page!AnswerDelete(yes)
  BY <1>2, <1>4, <1>5, AtBegin DEF JobFits
<1>6. ASSUME NEW k \in Page!Kinds,
             Page!FirstWritten(k) \/ Page!LinkedRead(k) \/ Page!JobEnds(k) \/ Page!JobFails(k) \/ \E c \in Cards : Page!CardChanged(k, c)
      PROVE  JobShape'
  <2>1. jobs[k] # Nothing
    BY <1>6 DEF Page!FirstWritten, Page!LinkedRead, Page!JobEnds, Page!JobFails, Page!CardChanged, Page!Is
  <2>2. PICK j : j = jobs[k]
    OBVIOUS
  <2>3. j \in Page!Job /\ JobFits(k, j)
    BY <1>0, <2>1, <2>2
  <2>4. CASE Page!FirstWritten(k)
    <3>1. Ends(k) \/ (k # "card" /\ \E n : Goes(k, n) /\ n.to = j.to /\ n.todo = j.todo)
      BY <2>1, <2>2, <2>4, AtJob
    <3>. QED BY <1>3, <1>4, <2>3, <3>1 DEF JobFits
  <2>5. CASE Page!LinkedRead(k)
    <3>1. /\ j.at = "read"
          /\ \E n : /\ Goes(k, n) /\ n.to = j.to
                    /\ n.todo = {d \in Cards : rows[d] # Nothing /\ rows[d].owned /\ rows[d].status \in Page!Affected(j.to)}
      BY <2>1, <2>2, <2>5, AtJob
    <3>. QED BY <1>4, <2>3, <3>1 DEF JobFits
  <2>6. ASSUME NEW c \in Cards, Page!CardChanged(k, c) PROVE JobShape'
    <3>1. j.at = "cards" /\ \E n : Goes(k, n) /\ n.to = j.to /\ n.todo = j.todo \ {c}
      BY <2>1, <2>2, <2>6, AtJob
    <3>. QED BY <1>4, <2>3, <3>1 DEF JobFits
  <2>7. CASE Page!JobEnds(k) \/ Page!JobFails(k)
    BY <1>3, <2>1, <2>2, <2>7, AtJob
  <2>. QED BY <1>6, <2>4, <2>5, <2>6, <2>7
<1>. QED BY <1>2, <1>5, <1>6, JobsTouched

LEMMA PageShapeStep == ASSUME PageShape, Page!Next PROVE PageShape'
BY VisitStep, BookStep, ReaderStep, DrawerStep, JobStep DEF PageShape

LEMMA PageShapeInit == ASSUME Page!Init PROVE PageShape
<1>0. visit \in Visits /\ visit \in [hurries : BOOLEAN, known : SUBSET Cards, left : [Page!Counts -> Nat]] /\ 0 \in Page!Amounts
  BY NothingIsNothing DEF Page!Init, Page!Amounts
<1>1. VisitShape
  BY <1>0 DEF Page!Init, VisitShape
<1>2. BookShape
  <2>1. PICK yes \in BOOLEAN : yes = TRUE
    OBVIOUS
  <2>2. PICK new : new = [status |-> "active", bal |-> 0, owned |-> yes]
    OBVIOUS
  <2>3. new \in Page!Row
    BY <1>0, <2>2 DEF Page!Row, Page!Statuses
  <2>4. rows = [c \in Cards |-> IF c \in visit.known THEN new ELSE Nothing]
    BY <2>1, <2>2 DEF Page!Init
  <2>. QED BY <1>0, <2>3, <2>4 DEF Page!Init, BookShape
<1>3. ReaderShape
  BY <1>0 DEF Page!Init, ReaderShape, Page!NoScan, Scans3, Pendings
<1>4. DrawerShape
  BY DEF Page!Init, DrawerShape, Page!Closed, Drawers
<1>5. JobShape
  BY DEF Page!Init, JobShape
<1>. QED BY <1>1, <1>2, <1>3, <1>4, <1>5 DEF PageShape

-----------------------------------------------------------------------------
(* A member's cards.  While no mutation failed or met another one, the      *)
(* cards that a mutation has still to change are the ones that do not fit.  *)
Fits(status, what) == (what = "suspended" => status # "active") /\ (what = "deleted" => status = "deleted")
Changes == {"toggle", "delete"}
Owned(c) == rows[c] # Nothing /\ rows[c].owned
MemberFollowed ==
    /\ jobs["toggle"] = Nothing \/ jobs["delete"] = Nothing
    /\ \A k \in Changes : jobs[k] # Nothing /\ jobs[k].at # "first" => member = jobs[k].to
    /\ \A k \in Changes : jobs[k] # Nothing /\ jobs[k].at = "cards" =>
         \A c \in Cards : Owned(c) => c \in jobs[k].todo \/ Fits(rows[c].status, member)
    /\ (\A k \in Changes : jobs[k] = Nothing) => \A c \in Cards : Owned(c) => Fits(rows[c].status, member)

LEMMA UndoneTouched ==
    ASSUME Page!Next
    PROVE  \/ UNCHANGED undone
           \/ Page!PressToggle \/ \E yes \in BOOLEAN : Page!AnswerDelete(yes)
           \/ \E r \in reads : Page!RowWritten(r)
           \/ undone'
BY ZenonT(60) DEF Page!Next, Page!CodeSteps, Page!Closes, Page!GivesUp, Page!JobSteps, Page!FirstWritten, Page!LinkedRead,
                  Page!JobEnds, Page!CardChanged, Page!CheckAnswered, Page!RowRead, Page!Lands, Page!Recorded, Page!Render,
                  Page!Confirm, Page!Retry, Page!CloseDrawer, Page!Fetch, Page!JobFails, Page!AskDelete, Page!Tap,
                  Page!ChooseTopup, Page!Pulled, Page!Misses, Page!Unverified, Page!history

LEMMA AtRow ==
    ASSUME PageShape, NEW r \in reads, Page!RowWritten(r)
    PROVE  /\ r \in Page!Read /\ r.card \in Cards /\ r.bal \in Page!Amounts /\ reads' = reads \ {r}
           /\ rows'[r.card].bal = r.bal /\ \A c \in Cards \ {r.card} : rows'[c] = rows[c]
           /\ r.found => /\ rows[r.card] # Nothing /\ rows'[r.card].status = rows[r.card].status
                         /\ rows'[r.card].owned = rows[r.card].owned /\ (undone => undone')
           /\ ~r.found => undone'
           /\ UNCHANGED <<visit, chip, member, jobs, nfc, writes, journal, closing, overtaken>>
<1>1. r \in Page!Read /\ r.card \in Cards /\ r.bal \in Page!Amounts /\ rows \in [Cards -> Page!Row \cup {Nothing}]
      /\ (r.found => rows[r.card] # Nothing)
  BY DEF PageShape, BookShape, Page!Read
<1>2. CASE r.found
  <2>1. rows' = [rows EXCEPT ![r.card] = [rows[r.card] EXCEPT !.bal = r.bal]] /\ rows[r.card] \in Page!Row
    BY <1>1, <1>2 DEF Page!RowWritten
  <2>2. [rows[r.card] EXCEPT !.bal = r.bal].bal = r.bal
        /\ [rows[r.card] EXCEPT !.bal = r.bal].status = rows[r.card].status
        /\ [rows[r.card] EXCEPT !.bal = r.bal].owned = rows[r.card].owned
    BY <2>1 DEF Page!Row
  <2>3. rows'[r.card] = [rows[r.card] EXCEPT !.bal = r.bal] /\ \A c \in Cards \ {r.card} : rows'[c] = rows[c]
    BY <1>1, <2>1
  <2>. QED BY <1>1, <1>2, <2>2, <2>3 DEF Page!RowWritten, Page!reader
<1>3. CASE ~r.found
  <2>1. PICK no \in BOOLEAN : no = FALSE
    OBVIOUS
  <2>2. rows' = [rows EXCEPT ![r.card] = [status |-> "active", bal |-> r.bal, owned |-> no]]
    BY <1>3, <2>1 DEF Page!RowWritten
  <2>3. rows'[r.card].bal = r.bal /\ \A c \in Cards \ {r.card} : rows'[c] = rows[c]
    BY <1>1, <2>2
  <2>. QED BY <1>1, <1>3, <2>3 DEF Page!RowWritten, Page!reader
<1>. QED BY <1>2, <1>3

LEMMA FollowedStep ==
    ASSUME PageShape, ~undone => MemberFollowed, Page!Next
    PROVE  (~undone => MemberFollowed)'
<1>. SUFFICES ASSUME ~undone' PROVE MemberFollowed'
  OBVIOUS
<1>0. rows \in [Cards -> Page!Row \cup {Nothing}] /\ jobs \in [Page!Kinds -> Page!Job \cup {Nothing}] /\ Changes \subseteq Page!Kinds
      /\ "toggle" \in Changes /\ "delete" \in Changes
  BY DEF PageShape, BookShape, JobShape, Changes, Page!Kinds
<1>1. ASSUME MemberFollowed, UNCHANGED member, \A k \in Changes : jobs'[k] = jobs[k],
             \A c \in Cards : Owned(c)' => Owned(c) /\ (rows'[c].status = rows[c].status \/ rows'[c].status = "deleted")
      PROVE  MemberFollowed'
  BY <1>1 DEF MemberFollowed, Changes, Fits
<1>2. ASSUME UNCHANGED <<rows, member, jobs, undone>> PROVE MemberFollowed'
  BY <1>1, <1>2 DEF Owned
<1>3. ASSUME NEW r \in reads, Page!RowWritten(r) PROVE MemberFollowed'
  <2>1. /\ r.found /\ ~undone /\ UNCHANGED <<member, jobs>> /\ rows[r.card] # Nothing
        /\ rows'[r.card].status = rows[r.card].status /\ rows'[r.card].owned = rows[r.card].owned
        /\ \A c \in Cards \ {r.card} : rows'[c] = rows[c]
    BY <1>3, AtRow
  <2>. QED BY <1>1, <2>1 DEF Owned
<1>4. CASE Page!PressToggle \/ \E yes \in BOOLEAN : Page!AnswerDelete(yes)
  <2>1. CASE UNCHANGED <<jobs, undone>>
    BY <1>2, <1>4, <2>1, AtBegin
  <2>2. ASSUME NEW k \in Page!Kinds, NEW n, jobs[k] = Nothing, Goes(k, n), n.at = "first",
               undone' = IF k = "card" THEN undone ELSE ~Page!AtRest
        PROVE  MemberFollowed'
    <3>1. UNCHANGED <<rows, member>> /\ n # Nothing /\ \A l \in Page!Kinds : jobs'[l] = IF l = k THEN n ELSE jobs[l]
      BY <1>0, <1>4, <2>2, AtBegin, NothingIsNothing DEF Goes
    <3>2. CASE k = "card"
      BY <1>0, <1>1, <2>2, <3>1, <3>2 DEF Changes, Owned
    <3>3. CASE k # "card"
      <4>1. k \in Changes /\ \A l \in Page!Kinds : jobs[l] = Nothing
        BY <2>2, <3>3 DEF Page!Kinds, Changes, Page!AtRest
      <4>. QED BY <1>0, <2>2, <3>1, <4>1 DEF MemberFollowed, Changes
    <3>. QED BY <3>2, <3>3
  <2>. QED BY <1>4, <2>1, <2>2, AtBegin
<1>5. ASSUME NEW k \in Page!Kinds, jobs[k] # Nothing,
             Page!FirstWritten(k) \/ Page!LinkedRead(k) \/ Page!JobEnds(k) \/ \E c \in Cards : Page!CardChanged(k, c)
      PROVE  MemberFollowed'
  <2>0. PICK j : j = jobs[k]
    OBVIOUS
  <2>1. j \in Page!Job /\ JobFits(k, j) /\ j # Nothing /\ ~undone
    BY <1>5, <2>0, AtJob
  <2>2. MemberFollowed
    BY <2>1
  <2>3. ASSUME NEW n, Goes(k, n), k # "card"
        PROVE  /\ k \in Changes /\ jobs'[k] = n /\ n # Nothing
               /\ \A l \in Changes : l # k => jobs'[l] = Nothing
    BY <1>0, <1>5, <2>2, <2>3, NothingIsNothing DEF Goes, Changes, Page!Kinds, MemberFollowed
  <2>4. CASE Page!FirstWritten(k)
    <3>1. CASE k = "card"
      <4>1. /\ UNCHANGED member /\ Ends(k)
            /\ \A c \in Cards : \/ rows'[c] = rows[c]
                                \/ rows[c] # Nothing /\ rows'[c] = [rows[c] EXCEPT !.status = "deleted"]
        BY <1>5, <2>0, <2>4, <3>1, AtJob
      <4>2. \A l \in Changes : jobs'[l] = jobs[l]
        BY <1>0, <3>1, <4>1 DEF Ends, Changes
      <4>3. ASSUME NEW c \in Cards, Owned(c)'
            PROVE  Owned(c) /\ (rows'[c].status = rows[c].status \/ rows'[c].status = "deleted")
        <5>1. CASE rows'[c] = rows[c]
          BY <4>3, <5>1 DEF Owned
        <5>2. CASE rows[c] # Nothing /\ rows'[c] = [rows[c] EXCEPT !.status = "deleted"]
          <6>1. rows[c] \in Page!Row
            BY <1>0, <5>2
          <6>. QED BY <4>3, <5>2, <6>1 DEF Owned, Page!Row
        <5>. QED BY <4>1, <5>1, <5>2
      <4>. QED BY <1>1, <2>2, <4>1, <4>2, <4>3
    <3>2. CASE k # "card"
      <4>1. PICK n : Goes(k, n) /\ n.at = "read" /\ n.to = j.to /\ member' = j.to
        BY <1>5, <2>0, <2>4, <3>2, AtJob
      <4>. QED BY <2>3, <3>2, <4>1 DEF MemberFollowed, Changes
    <3>. QED BY <3>1, <3>2
  <2>5. CASE Page!LinkedRead(k)
    <3>1. /\ j.at = "read" /\ UNCHANGED <<rows, member>> /\ k # "card"
      BY <1>5, <2>0, <2>1, <2>5, AtJob DEF JobFits
    <3>2. PICK n : /\ Goes(k, n) /\ n.at = "cards" /\ n.to = j.to
                   /\ n.todo = {c \in Cards : rows[c] # Nothing /\ rows[c].owned /\ rows[c].status \in Page!Affected(j.to)}
      BY <1>5, <2>0, <2>5, AtJob
    <3>3. k \in Changes /\ member = j.to /\ j.to \in {"active", "suspended", "deleted"}
      BY <2>0, <2>1, <2>2, <2>3, <3>1, <3>2 DEF MemberFollowed, Page!Job
    <3>4. ASSUME NEW c \in Cards, Owned(c)' PROVE c \in n.todo \/ Fits(rows'[c].status, member')
      <4>1. rows[c] \in Page!Row /\ rows[c] # Nothing /\ rows[c].owned
        BY <1>0, <3>1, <3>4 DEF Owned
      <4>2. rows[c].status \in Page!Affected(j.to) => c \in n.todo
        BY <3>2, <4>1
      <4>3. rows[c].status \notin Page!Affected(j.to) => Fits(rows[c].status, j.to)
        BY <3>3, <4>1 DEF Page!Affected, Fits, Page!Row, Page!Statuses
      <4>. QED BY <3>1, <3>3, <4>2, <4>3
    <3>. QED BY <2>3, <3>1, <3>2, <3>3, <3>4 DEF MemberFollowed, Changes
  <2>6. CASE Page!JobEnds(k)
    <3>1. j.at = "cards" /\ j.todo = {} /\ Ends(k) /\ UNCHANGED <<rows, member>> /\ k # "card"
      BY <1>5, <2>0, <2>1, <2>6, AtJob DEF JobFits
    <3>2. k \in Changes /\ \A c \in Cards : Owned(c) => Fits(rows[c].status, member)
      BY <1>5, <2>0, <2>2, <3>1 DEF MemberFollowed, Changes, Page!Kinds
    <3>3. \A l \in Changes : jobs'[l] = Nothing
      BY <1>0, <1>5, <2>2, <3>1, <3>2 DEF Ends, MemberFollowed, Changes
    <3>. QED BY <3>1, <3>2, <3>3 DEF MemberFollowed, Changes, Owned
  <2>7. ASSUME NEW c \in Cards, Page!CardChanged(k, c) PROVE MemberFollowed'
    <3>1. /\ j.at = "cards" /\ c \in j.todo /\ UNCHANGED member /\ k # "card"
          /\ rows' = [rows EXCEPT ![c] = [rows[c] EXCEPT !.status = Page!CardStatusOf(j.to)]]
      BY <1>5, <2>0, <2>1, <2>7, AtJob DEF JobFits
    <3>2. PICK n : Goes(k, n) /\ n.at = "cards" /\ n.to = j.to /\ n.todo = j.todo \ {c}
      BY <1>5, <2>0, <2>7, AtJob
    <3>3. k \in Changes /\ member = j.to /\ j.to \in {"active", "suspended", "deleted"}
      BY <2>0, <2>1, <2>2, <2>3, <3>1, <3>2 DEF MemberFollowed, Page!Job
    <3>4. rows[c] \in Page!Row /\ rows'[c] = [rows[c] EXCEPT !.status = Page!CardStatusOf(j.to)]
          /\ \A d \in Cards \ {c} : rows'[d] = rows[d]
      BY <1>0, <2>1, <3>1 DEF JobFits
    <3>5. rows'[c].status = Page!CardStatusOf(j.to)
      BY <3>4 DEF Page!Row
    <3>6. Fits(Page!CardStatusOf(j.to), j.to)
      BY <3>3 DEF Fits, Page!CardStatusOf
    <3>7. ASSUME NEW d \in Cards, Owned(d)' PROVE d \in n.todo \/ Fits(rows'[d].status, member')
      <4>1. CASE d = c
        BY <3>1, <3>3, <3>5, <3>6, <4>1
      <4>2. CASE d # c
        <5>1. Owned(d) /\ rows'[d] = rows[d]
          BY <3>4, <3>7, <4>2 DEF Owned
        <5>2. d \in j.todo \/ Fits(rows[d].status, member)
          BY <1>5, <2>0, <2>2, <3>1, <3>3, <5>1 DEF MemberFollowed
        <5>. QED BY <3>1, <3>2, <4>2, <5>1, <5>2
      <4>. QED BY <4>1, <4>2
    <3>. QED BY <2>3, <3>1, <3>2, <3>3, <3>7 DEF MemberFollowed, Changes
  <2>. QED BY <1>5, <2>4, <2>5, <2>6, <2>7
<1>6. ASSUME NEW k \in Page!Kinds, Page!FirstWritten(k) \/ Page!LinkedRead(k) \/ Page!JobEnds(k) \/ \E c \in Cards : Page!CardChanged(k, c)
      PROVE  jobs[k] # Nothing
  BY <1>6 DEF Page!FirstWritten, Page!LinkedRead, Page!JobEnds, Page!CardChanged, Page!Is
<1>7. /\ \A w \in writes : Page!Recorded(w) => undone'
      /\ \A k \in Page!Kinds : Page!JobFails(k) => undone'
      /\ \A c \in Cards, status \in {"active", "blocked"} : Page!Pulled(c, status) => undone'
  BY DEF Page!Recorded, Page!JobFails, Page!Pulled
<1>. QED BY <1>2, <1>3, <1>4, <1>5, <1>6, <1>7, BooksTouched, JobsTouched, UndoneTouched

LEMMA FollowedInit == ASSUME Page!Init PROVE MemberFollowed
BY DEF Page!Init, MemberFollowed, Changes, Page!Kinds, Fits

-----------------------------------------------------------------------------
(* What is written was confirmed.  A write that is under way, that waits    *)
(* for its card or that the journal keeps was confirmed for its card and    *)
(* does not take money off it; at most one is under way, and a card that is *)
(* ready while the drawer is open is the one chosen, with its check.        *)
Meant(c, to) == <<c, to>> \in confirmed /\ to >= chip[c]
Journaled(c, to) == journal[c] \in {to, Nothing}
UnderWay(w) ==
    /\ Meant(w.card, w.to) /\ Journaled(w.card, w.to)
    /\ nfc.phase \in {"writing", "success", "error"} /\ nfc.pending = Nothing
ChosenIsReady ==
    /\ page.drawer => page.target # Nothing
    /\ nfc.phase = "ready" =>
         /\ nfc.bal = chip[nfc.card]
         /\ page.drawer => nfc.card = page.target /\ (nfc.card \in lookups \/ checked = nfc.card)
WritesMeant ==
    /\ \A w \in writes : w.at = "write" => UnderWay(w) /\ \A v \in writes : v.at = "write" => v = w
    /\ nfc.pending # Nothing =>
         /\ nfc.phase \notin {"ready", "idle"}
         /\ Meant(nfc.pending.card, nfc.pending.to) /\ Journaled(nfc.pending.card, nfc.pending.to)
    /\ \A c \in Cards : journal[c] # Nothing => Meant(c, journal[c])
    /\ ChosenIsReady

LEMMA WritesTouched ==
    ASSUME Page!Next
    PROVE  \/ UNCHANGED <<chip, nfc, writes, journal, page, lookups, confirmed, checked>>
           \/ Page!Render \/ Page!Closes \/ Page!GivesUp \/ Page!Confirm \/ Page!Retry \/ Page!CloseDrawer \/ Page!AskDelete("member")
           \/ \E c \in Cards : Page!Tap(c) \/ Page!ChooseTopup(c) \/ Page!CheckAnswered(c) \/ Page!AskDelete(c)
           \/ \E yes \in BOOLEAN : Page!AnswerDelete(yes)
           \/ \E w \in writes : Page!Lands(w) \/ Page!Recorded(w) \/ Page!Misses(w) \/ Page!Unverified(w)
BY ZenonT(60) DEF Page!Next, Page!CodeSteps, Page!JobSteps, Page!FirstWritten, Page!LinkedRead, Page!JobEnds,
                  Page!CardChanged, Page!RowRead, Page!RowWritten, Page!Fetch, Page!PressToggle, Page!JobFails, Page!Pulled,
                  Page!reader, Page!history

LEMMA AtCompared ==
    ASSUME PageShape, NEW c, Page!Compared(c)
    PROVE  \/ page.target = Nothing /\ UNCHANGED <<page, lookups>>
           \/ c = page.target /\ page' = page /\ lookups' = lookups \cup {c}
           \/ ~page'.drawer /\ lookups' = lookups
<1>1. page \in Drawers
  BY DEF PageShape, DrawerShape
<1>2. page' = [page EXCEPT !.drawer = FALSE, !.target = Nothing] => ~page'.drawer
  <2>1. PICK no \in BOOLEAN : no = FALSE
    OBVIOUS
  <2>2. page' = [page EXCEPT !.drawer = no, !.target = Nothing] => page'.drawer = no
    BY <1>1 DEF Drawers
  <2>. QED BY <2>1, <2>2
<1>. QED BY <1>2 DEF Page!Compared, Page!IsChosen

LEMMA AtDrawer ==
    ASSUME PageShape
    PROVE  /\ Page!Closes \/ Page!CloseDrawer => ~page'.drawer
           /\ \A c \in Cards : Page!ChooseTopup(c) => page'.target = c /\ page'.drawer
           /\ \A c \in Cards : Page!CheckAnswered(c) =>
                /\ UNCHANGED <<chip, nfc, writes, journal, confirmed, visit, rows, reads, closing, overtaken>>
                /\ c \in lookups /\ lookups' = lookups \ {c}
                /\ \/ ~page'.drawer /\ page'.target = Nothing
                   \/ page' = page /\ checked' = IF nfc.phase = "ready" /\ nfc.card = c THEN c ELSE checked
           /\ \A what : Page!AskDelete(what) =>
                /\ UNCHANGED <<chip, nfc, writes, journal, lookups, confirmed, checked>>
                /\ page'.drawer = page.drawer /\ page'.target = page.target
           /\ \A yes \in BOOLEAN : Page!AnswerDelete(yes) =>
                /\ UNCHANGED <<chip, nfc, writes, journal, lookups, confirmed, checked>>
                /\ page'.drawer = page.drawer /\ page'.target = page.target
<1>0. page \in Drawers
  BY DEF PageShape, DrawerShape
<1>1. PICK yes \in BOOLEAN, no \in BOOLEAN : yes = TRUE /\ no = FALSE
  OBVIOUS
<1>2. [page EXCEPT !.drawer = no].drawer = no
  BY <1>0 DEF Drawers
<1>3. \A t : [page EXCEPT !.drawer = no, !.target = t].drawer = no /\ [page EXCEPT !.drawer = no, !.target = t].target = t
             /\ [page EXCEPT !.drawer = yes, !.target = t].drawer = yes /\ [page EXCEPT !.drawer = yes, !.target = t].target = t
  BY <1>0 DEF Drawers
<1>4. \A q : [page EXCEPT !.question = q].drawer = page.drawer /\ [page EXCEPT !.question = q].target = page.target
  BY <1>0 DEF Drawers
<1>5. Page!Closes \/ Page!CloseDrawer => ~page'.drawer
  <2>1. Page!Closes \/ Page!CloseDrawer => page' = [page EXCEPT !.drawer = no]
    BY <1>1 DEF Page!Closes, Page!CloseDrawer
  <2>. QED BY <1>1, <1>2, <2>1
<1>6. ASSUME NEW c \in Cards, Page!ChooseTopup(c) PROVE page'.target = c /\ page'.drawer
  <2>1. page' = [page EXCEPT !.drawer = yes, !.target = c]
    BY <1>1, <1>6 DEF Page!ChooseTopup
  <2>. QED BY <1>1, <1>3, <2>1
<1>7. ASSUME NEW c \in Cards, Page!CheckAnswered(c)
      PROVE  /\ UNCHANGED <<chip, nfc, writes, journal, confirmed, visit, rows, reads, closing, overtaken>>
             /\ c \in lookups /\ lookups' = lookups \ {c}
             /\ \/ ~page'.drawer /\ page'.target = Nothing
                \/ page' = page /\ checked' = IF nfc.phase = "ready" /\ nfc.card = c THEN c ELSE checked
  <2>1. /\ UNCHANGED <<chip, nfc, writes, journal, confirmed, visit, rows, reads, closing, overtaken>>
        /\ c \in lookups /\ lookups' = lookups \ {c}
    BY <1>7 DEF Page!CheckAnswered, Page!reader, Page!books
  <2>2. CASE Page!Blocked(c)
    <3>1. page' = [page EXCEPT !.drawer = no, !.target = Nothing]
      BY <1>1, <1>7, <2>2 DEF Page!CheckAnswered
    <3>. QED BY <1>1, <1>3, <2>1, <3>1
  <2>3. CASE ~Page!Blocked(c)
    BY <1>7, <2>1, <2>3 DEF Page!CheckAnswered
  <2>. QED BY <2>2, <2>3
<1>8. ASSUME NEW what, Page!AskDelete(what)
      PROVE  /\ UNCHANGED <<chip, nfc, writes, journal, lookups, confirmed, checked>>
             /\ page'.drawer = page.drawer /\ page'.target = page.target
  BY <1>4, <1>8 DEF Page!AskDelete, Page!reader, Page!history
<1>9. ASSUME NEW a \in BOOLEAN, Page!AnswerDelete(a)
      PROVE  /\ UNCHANGED <<chip, nfc, writes, journal, lookups, confirmed, checked>>
             /\ page'.drawer = page.drawer /\ page'.target = page.target
  BY <1>4, <1>9 DEF Page!AnswerDelete, Page!reader
<1>. QED BY <1>5, <1>6, <1>7, <1>8, <1>9

LEMMA MeantStep == ASSUME PageShape, WritesMeant, Page!Next PROVE WritesMeant'
<1>0. /\ writes \subseteq Page!Write /\ journal \in [Cards -> Page!Amounts \cup {Nothing}] /\ chip \in [Cards -> Page!Amounts]
      /\ nfc.bal \in Page!Amounts /\ Limit \in Nat /\ Page!Amounts = 0..Limit /\ Nothing \notin Cards /\ Nothing \notin Page!Amounts
      /\ nfc.pending \in Pendings
  BY ReaderTypes, NothingIsNothing DEF Page!Amounts
<1>1. \A w \in writes : w.card \in Cards /\ w.to \in Page!Amounts
  BY <1>0 DEF Page!Write
<1>2. CASE UNCHANGED <<chip, nfc, writes, journal, confirmed>> /\ ChosenIsReady'
  BY <1>2 DEF WritesMeant, UnderWay, Meant, Journaled
<1>3. CASE UNCHANGED <<chip, nfc, writes, journal, page, lookups, confirmed, checked>>
  BY <1>2, <1>3 DEF WritesMeant, ChosenIsReady
<1>4. CASE Page!Render
  <2>1. UNCHANGED <<chip, nfc, writes, journal, confirmed, checked>>
    BY <1>4 DEF Page!Render, Page!reader, Page!history
  <2>2. UNCHANGED <<page, lookups>> \/ (nfc.phase = "ready" /\ Page!Compared(nfc.card))
    BY <1>4 DEF Page!Render
  <2>3. ChosenIsReady'
    BY <2>1, <2>2, AtCompared DEF WritesMeant, ChosenIsReady
  <2>. QED BY <1>2, <2>1, <2>3
<1>5. ASSUME NEW c \in Cards, Page!CheckAnswered(c) PROVE WritesMeant'
  <2>1. ChosenIsReady'
    BY <1>5, AtDrawer DEF WritesMeant, ChosenIsReady
  <2>. QED BY <1>2, <1>5, <2>1, AtDrawer
<1>6. ASSUME NEW what, Page!AskDelete(what) \/ \E yes \in BOOLEAN : Page!AnswerDelete(yes) PROVE WritesMeant'
  <2>1. /\ UNCHANGED <<chip, nfc, writes, journal, lookups, confirmed, checked>>
        /\ page'.drawer = page.drawer /\ page'.target = page.target
    BY <1>6, AtDrawer
  <2>2. ChosenIsReady'
    BY <2>1 DEF WritesMeant, ChosenIsReady
  <2>. QED BY <1>2, <2>1, <2>2
<1>7. ASSUME \A w \in writes' : w.at # "write", UNCHANGED <<chip, confirmed>>, ChosenIsReady',
             \A c \in Cards : journal'[c] \in {journal[c], Nothing},
             nfc'.pending # Nothing =>
               /\ nfc'.phase \notin {"ready", "idle"} /\ nfc'.pending.card \in Cards
               /\ Meant(nfc'.pending.card, nfc'.pending.to) /\ Journaled(nfc'.pending.card, nfc'.pending.to)
      PROVE  WritesMeant'
  BY <1>7 DEF WritesMeant, Meant, Journaled
<1>8. nfc.pending # Nothing => nfc.pending.card \in Cards /\ nfc.pending.to \in Page!Amounts
  BY <1>0 DEF Pendings
<1>9. ASSUME Page!Waiting PROVE \A w \in writes : w.at # "write"
  BY <1>9 DEF Page!Waiting, WritesMeant, UnderWay
<1>10. CASE Page!Confirm
  <2>0. PICK c, to : c = nfc.card /\ to = nfc.bal + 1
    OBVIOUS
  <2>1. /\ nfc.phase = "ready" /\ page.drawer /\ c \in Cards /\ to \in Page!Amounts
        /\ visit.hurries \/ lookups = {}
        /\ Becomes("writing", c, nfc.bal, nfc.pending) /\ Begun(c, to)
        /\ journal' = [journal EXCEPT ![c] = to]
        /\ confirmed' = IF c = page.target /\ (visit.hurries \/ checked = c)
                        THEN confirmed \cup {<<c, to>>} ELSE confirmed
        /\ UNCHANGED <<chip, page, lookups, checked>>
    BY <1>10, <2>0, AtConfirm
  <2>2. c = page.target /\ (visit.hurries \/ checked = c) /\ nfc.bal = chip[c]
    BY <2>0, <2>1 DEF WritesMeant, ChosenIsReady
  <2>3. confirmed' = confirmed \cup {<<c, to>>}
    BY <2>1, <2>2
  <2>4. nfc.pending = Nothing /\ \A w \in writes : w.at # "write"
    BY <2>1 DEF WritesMeant, UnderWay
  <2>5. PICK w \in Page!Write : w.card = c /\ w.to = to /\ w.at = "write" /\ writes' = writes \cup {w}
    BY <2>1 DEF Begun
  <2>6. Meant(c, to)' /\ journal'[c] = to
    BY <1>0, <2>0, <2>1, <2>2, <2>3 DEF Meant
  <2>7. (\A d \in Cards : journal[d] # Nothing => Meant(d, journal[d]))'
    <3>1. ASSUME NEW d \in Cards, journal'[d] # Nothing PROVE Meant(d, journal[d])'
      <4>1. CASE d = c
        BY <2>6, <4>1 DEF Meant
      <4>2. CASE d # c
        <5>1. journal'[d] = journal[d] /\ Meant(d, journal[d])
          BY <1>0, <2>1, <3>1, <4>2 DEF WritesMeant
        <5>. QED BY <2>1, <2>3, <5>1 DEF Meant
      <4>. QED BY <4>1, <4>2
    <3>. QED BY <3>1
  <2>8. nfc'.pending = Nothing /\ nfc'.phase = "writing"
    BY <2>1, <2>4 DEF Becomes
  <2>9. ChosenIsReady'
    BY <2>1, <2>8 DEF WritesMeant, ChosenIsReady
  <2>10. UnderWay(w)'
    BY <2>5, <2>6, <2>8 DEF UnderWay, Journaled, Meant
  <2>. QED BY <2>4, <2>5, <2>7, <2>8, <2>9, <2>10 DEF WritesMeant
<1>11. ASSUME NEW c \in Cards, Page!Tap(c) PROVE WritesMeant'
  <2>0. UNCHANGED <<chip, confirmed>> /\ \A w \in writes : w.at # "write"
    BY <1>9, <1>11, AtTap
  <2>1. ASSUME NEW to \in Page!Amounts, Begun(c, to), UNCHANGED <<journal, page, lookups, checked>>,
               \/ nfc.pending # Nothing /\ nfc.pending.card = c /\ to = nfc.pending.to
               \/ Page!Missing(c) /\ to = journal[c],
               Becomes("writing", c, chip[c], Nothing)
        PROVE  WritesMeant'
    <3>1. PICK w \in Page!Write : w.card = c /\ w.to = to /\ w.at = "write" /\ writes' = writes \cup {w}
      BY <2>1 DEF Begun
    <3>2. Meant(c, to) /\ Journaled(c, to)
      BY <2>1 DEF WritesMeant, Page!Missing, Journaled
    <3>3. nfc'.pending = Nothing /\ nfc'.phase = "writing"
      BY <2>1 DEF Becomes
    <3>4. UnderWay(w)'
      BY <2>0, <2>1, <3>1, <3>2, <3>3 DEF UnderWay, Meant, Journaled
    <3>5. ChosenIsReady' /\ (\A d \in Cards : journal[d] # Nothing => Meant(d, journal[d]))'
      BY <2>0, <2>1, <3>3 DEF WritesMeant, ChosenIsReady, Meant
    <3>. QED BY <2>0, <3>1, <3>3, <3>4, <3>5 DEF WritesMeant
  <2>2. ASSUME Becomes("ready", c, chip[c], Nothing), Page!Compared(c), UNCHANGED writes,
               journal' = [journal EXCEPT ![c] = Nothing]
        PROVE  WritesMeant'
    <3>1. nfc'.phase = "ready" /\ nfc'.card = c /\ nfc'.bal = chip[c] /\ nfc'.pending = Nothing
      BY <2>2 DEF Becomes
    <3>2. ChosenIsReady'
      BY <2>0, <2>2, <3>1, AtCompared DEF WritesMeant, ChosenIsReady
    <3>3. \A d \in Cards : journal'[d] \in {journal[d], Nothing}
      BY <1>0, <2>2
    <3>. QED BY <1>7, <2>0, <2>2, <3>1, <3>2, <3>3
  <2>. QED BY <1>11, <2>1, <2>2, AtTap
<1>12. ASSUME NEW w \in writes, Page!Lands(w) \/ Page!Misses(w) \/ Page!Unverified(w) \/ Page!Recorded(w) PROVE WritesMeant'
  <2>1. w.card \in Cards /\ w.to \in Page!Amounts
    BY <1>1
  <2>2. ASSUME w.at = "write"
        PROVE  /\ UnderWay(w) /\ nfc.pending = Nothing /\ \A v \in writes : v # w => v.at # "write"
    BY <2>2 DEF WritesMeant, UnderWay
  <2>3. CASE Page!Lands(w)
    <3>1. /\ w.at = "write" /\ chip' = [chip EXCEPT ![w.card] = w.to]
          /\ UNCHANGED <<nfc, journal, page, lookups, confirmed, checked>>
          /\ \E v : v.at = "record" /\ writes' = (writes \ {w}) \cup {v}
      BY <2>3, AtWrite
    <3>2. \A v \in writes' : v.at # "write"
      BY <2>2, <3>1
    <3>3. chip'[w.card] = w.to /\ \A d \in Cards \ {w.card} : chip'[d] = chip[d]
      BY <1>0, <2>1, <3>1
    <3>4. \A d \in Cards : journal[d] # Nothing => Meant(d, journal[d])'
      BY <1>0, <2>1, <2>2, <3>1, <3>3 DEF WritesMeant, UnderWay, Meant, Journaled
    <3>5. ChosenIsReady'
      BY <2>2, <3>1 DEF WritesMeant, ChosenIsReady, UnderWay
    <3>. QED BY <2>2, <3>1, <3>2, <3>4, <3>5 DEF WritesMeant
  <2>4. CASE Page!Misses(w)
    <3>1. /\ w.at = "write" /\ writes' = writes \ {w} /\ UNCHANGED <<chip, journal, page, lookups, confirmed, checked>>
          /\ \/ /\ nfc'.pending # Nothing => nfc'.pending.card = w.card /\ nfc'.pending.to = w.to
                /\ Becomes(nfc.phase, nfc.card, nfc.bal, nfc'.pending)
             \/ Becomes("error", nfc.card, nfc.bal, Nothing)
      BY <2>4, AtWrite
    <3>2. nfc'.phase \in {"writing", "success", "error"} /\ UnderWay(w)
      BY <2>2, <3>1 DEF Becomes, UnderWay
    <3>3. nfc'.pending # Nothing => nfc'.pending.card = w.card /\ nfc'.pending.to = w.to
      BY <3>1 DEF Becomes
    <3>4. ChosenIsReady'
      BY <3>1, <3>2 DEF WritesMeant, ChosenIsReady
    <3>5. \A v \in writes' : v.at # "write"
      BY <2>2, <3>1
    <3>. QED BY <1>7, <2>1, <3>1, <3>2, <3>3, <3>4, <3>5 DEF UnderWay
  <2>5. ASSUME writes' = writes \ {w}, UNCHANGED <<chip, confirmed, page, lookups, checked>>, nfc'.pending = Nothing,
               nfc'.phase \in {"success", "error"}, \A d \in Cards : journal'[d] \in {journal[d], Nothing}
        PROVE  WritesMeant'
    <3>1. ASSUME NEW v \in writes', v.at = "write" PROVE UnderWay(v)'
      BY <1>1, <2>5, <3>1 DEF WritesMeant, UnderWay, Meant, Journaled
    <3>2. (\A d \in Cards : journal[d] # Nothing => Meant(d, journal[d]))'
      BY <2>5 DEF WritesMeant, Meant
    <3>3. ChosenIsReady'
      BY <2>5 DEF WritesMeant, ChosenIsReady
    <3>. QED BY <2>5, <3>1, <3>2, <3>3 DEF WritesMeant
  <2>6. CASE Page!Unverified(w)
    BY <2>5, <2>6, AtWrite DEF Becomes
  <2>7. CASE Page!Recorded(w)
    <3>1. /\ writes' = writes \ {w} /\ Becomes("success", w.card, w.to, Nothing)
          /\ journal' = [journal EXCEPT ![w.card] = Nothing]
          /\ UNCHANGED <<chip, confirmed, page, lookups, checked>>
      BY <2>7, AtWrite
    <3>2. \A d \in Cards : journal'[d] \in {journal[d], Nothing}
      BY <1>0, <3>1
    <3>. QED BY <2>5, <3>1, <3>2 DEF Becomes
  <2>. QED BY <1>12, <2>3, <2>4, <2>6, <2>7
<1>13. CASE Page!GivesUp
  <2>1. /\ nfc.phase = "writing" /\ nfc.pending # Nothing /\ Becomes("error", nfc.card, nfc.bal, Nothing)
        /\ UNCHANGED <<chip, writes, journal, page, lookups, confirmed, checked>>
    BY <1>13, AtOther
  <2>2. nfc'.phase = "error" /\ nfc'.pending = Nothing /\ \A w \in writes' : w.at # "write"
    BY <1>9, <2>1 DEF Becomes, Page!Waiting
  <2>3. ChosenIsReady'
    BY <2>1, <2>2 DEF WritesMeant, ChosenIsReady
  <2>. QED BY <1>7, <2>1, <2>2, <2>3
<1>14. \A w \in Recordings : w.at # "write"
  BY DEF Recordings
<1>15. CASE Page!Closes \/ Page!CloseDrawer
  <2>1. /\ Becomes("idle", Nothing, 0, Nothing) /\ writes' = Recordings
        /\ journal' = journal \/ journal' = [journal EXCEPT ![nfc.card] = Nothing]
        /\ UNCHANGED <<chip, lookups, confirmed, checked>> /\ ~page'.drawer
    BY <1>15, AtOther, AtDrawer
  <2>2. nfc'.phase = "idle" /\ nfc'.pending = Nothing
    BY <2>1 DEF Becomes
  <2>3. ChosenIsReady' /\ \A d \in Cards : journal'[d] \in {journal[d], Nothing}
    BY <1>0, <2>1, <2>2 DEF ChosenIsReady
  <2>. QED BY <1>7, <1>14, <2>1, <2>2, <2>3
<1>16. ASSUME NEW c \in Cards, Page!ChooseTopup(c) PROVE WritesMeant'
  <2>1. /\ Becomes("scanning", Nothing, 0, nfc.pending) /\ writes' = Recordings
        /\ UNCHANGED <<chip, journal, lookups, confirmed, checked>> /\ page'.target = c
    BY <1>16, AtOther, AtDrawer
  <2>2. nfc'.phase = "scanning" /\ nfc'.pending = nfc.pending
    BY <2>1 DEF Becomes
  <2>3. ChosenIsReady'
    BY <1>0, <2>1, <2>2 DEF ChosenIsReady
  <2>4. nfc.pending # Nothing => Meant(nfc.pending.card, nfc.pending.to) /\ Journaled(nfc.pending.card, nfc.pending.to)
    BY DEF WritesMeant
  <2>. QED BY <1>7, <1>8, <1>14, <2>1, <2>2, <2>3, <2>4
<1>17. CASE Page!Retry
  <2>1. /\ writes' = Recordings /\ UNCHANGED <<chip, journal, page, lookups, confirmed, checked>>
        /\ \/ /\ nfc'.pending # Nothing => nfc'.pending.card = nfc.card /\ nfc'.pending.to = journal[nfc.card]
              /\ Becomes("scanning", Nothing, 0, nfc'.pending)
              /\ nfc.card \in Cards /\ journal[nfc.card] # Nothing
           \/ Becomes("scanning", Nothing, 0, nfc.pending)
    BY <1>17, AtOther
  <2>2. nfc'.phase = "scanning"
    BY <2>1 DEF Becomes
  <2>3. ChosenIsReady'
    BY <2>1, <2>2 DEF WritesMeant, ChosenIsReady
  <2>4. nfc'.pending # Nothing =>
          /\ nfc'.pending.card \in Cards
          /\ Meant(nfc'.pending.card, nfc'.pending.to) /\ Journaled(nfc'.pending.card, nfc'.pending.to)
    <3>1. CASE Becomes("scanning", Nothing, 0, nfc.pending)
      BY <1>8, <3>1 DEF Becomes, WritesMeant
    <3>2. CASE /\ nfc'.pending # Nothing => nfc'.pending.card = nfc.card /\ nfc'.pending.to = journal[nfc.card]
               /\ nfc.card \in Cards /\ journal[nfc.card] # Nothing
      BY <3>2 DEF WritesMeant, Journaled
    <3>. QED BY <2>1, <3>1, <3>2
  <2>. QED BY <1>7, <1>14, <2>1, <2>2, <2>3, <2>4
<1>. QED BY <1>3, <1>4, <1>5, <1>6, <1>10, <1>11, <1>12, <1>13, <1>15, <1>16, <1>17, WritesTouched

LEMMA MeantInit == ASSUME Page!Init PROVE WritesMeant
BY DEF Page!Init, WritesMeant, ChosenIsReady, Page!NoScan, Page!Closed

NotLandedUnmeant == \A c \in Cards : chip'[c] # chip[c] => <<c, chip'[c]>> \in confirmed /\ chip'[c] > chip[c]

LEMMA LandedMeant == ASSUME PageShape, WritesMeant, Page!Next PROVE NotLandedUnmeant
<1>0. chip \in [Cards -> Page!Amounts] /\ Limit \in Nat /\ Page!Amounts = 0..Limit
  BY ReaderTypes, NothingIsNothing DEF Page!Amounts
<1>1. CASE UNCHANGED chip
  BY <1>1 DEF NotLandedUnmeant
<1>2. ASSUME NEW w \in writes, Page!Lands(w) PROVE NotLandedUnmeant
  <2>1. w.card \in Cards /\ w.to \in Page!Amounts /\ w.at = "write" /\ chip' = [chip EXCEPT ![w.card] = w.to]
    BY <1>2, AtWrite
  <2>2. Meant(w.card, w.to)
    BY <2>1 DEF WritesMeant, UnderWay
  <2>. QED BY <1>0, <2>1, <2>2 DEF Meant, NotLandedUnmeant
<1>. QED BY <1>1, <1>2, ChipTouched


-----------------------------------------------------------------------------
(* What the rows say.  While the operator neither hurries nor chooses a card*)
(* during a write, there is one write at a time, of the card at the reader, *)
(* with its entry in the journal; what a reading is about to write is what  *)
(* its card carries; and a row that lags behind its card has an entry in the*)
(* journal or a reading on its way.                                         *)
Calm == ~visit.hurries /\ ~overtaken
Sole(w) ==
    /\ nfc.phase = "writing" /\ nfc.pending = Nothing /\ nfc.card = w.card /\ journal[w.card] = w.to
    /\ w.at = "record" => chip[w.card] = w.to
OneWrite == \A w \in writes : Sole(w) /\ writes = {w}
ReaderTrue ==
    /\ nfc.pending # Nothing => journal[nfc.pending.card] = nfc.pending.to
    /\ nfc.phase \in {"ready", "success"} => journal[nfc.card] = Nothing
    /\ nfc.phase = "success" => nfc.bal = chip[nfc.card]
    /\ closing => nfc.phase = "success"
ReadsTrue == \A r \in reads : r.bal = chip[r.card] /\ journal[r.card] = Nothing
RowTrue(c) == rows[c] # Nothing /\ journal[c] = Nothing /\ (\A r \in reads : r.card # c) => rows[c].bal = chip[c]
RowsMeant == OneWrite /\ ReaderTrue /\ ReadsTrue /\ \A c \in Cards : RowTrue(c)

LEMMA RowsTouched ==
    ASSUME Page!Next
    PROVE  \/ UNCHANGED <<visit, overtaken, chip, rows, nfc, writes, journal, reads, closing>>
           \/ Page!Render \/ Page!Closes \/ Page!GivesUp \/ Page!Confirm \/ Page!Retry \/ Page!CloseDrawer
           \/ \E c \in Cards : Page!Tap(c) \/ Page!ChooseTopup(c) \/ Page!CheckAnswered(c)
           \/ \E c \in Cards, status \in {"active", "blocked"} : Page!Pulled(c, status)
           \/ \E w \in writes : Page!Lands(w) \/ Page!Recorded(w) \/ Page!Misses(w) \/ Page!Unverified(w)
           \/ \E r \in reads : Page!RowRead(r) \/ Page!RowWritten(r)
           \/ \E k \in Page!Kinds : Page!FirstWritten(k) \/ \E c \in Cards : Page!CardChanged(k, c)
BY ZenonT(60) DEF Page!Next, Page!CodeSteps, Page!JobSteps, Page!LinkedRead, Page!JobEnds, Page!Fetch, Page!PressToggle,
                  Page!JobFails, Page!AskDelete, Page!AnswerDelete, Page!books, Page!reader, Page!history

LEMMA CalmStays == ASSUME Page!Next, Calm' PROVE Calm
<1>1. visit' = visit
  BY ZenonT(60) DEF Page!Next, Page!CodeSteps, Page!Closes, Page!GivesUp, Page!JobSteps, Page!FirstWritten, Page!LinkedRead,
                    Page!JobEnds, Page!CardChanged, Page!CheckAnswered, Page!RowRead, Page!RowWritten, Page!Lands,
                    Page!Recorded, Page!Render, Page!Confirm, Page!Retry, Page!CloseDrawer, Page!Fetch, Page!PressToggle,
                    Page!JobFails, Page!AnswerDelete, Page!AskDelete, Page!Tap, Page!ChooseTopup, Page!Pulled,
                    Page!Misses, Page!Unverified
<1>2. overtaken => overtaken'
  BY ZenonT(60) DEF Page!Next, Page!CodeSteps, Page!Closes, Page!GivesUp, Page!JobSteps, Page!FirstWritten, Page!LinkedRead,
                    Page!JobEnds, Page!CardChanged, Page!CheckAnswered, Page!RowRead, Page!RowWritten, Page!Lands,
                    Page!Recorded, Page!Render, Page!Confirm, Page!Retry, Page!CloseDrawer, Page!Fetch, Page!PressToggle,
                    Page!JobFails, Page!AnswerDelete, Page!AskDelete, Page!Tap, Page!ChooseTopup, Page!Pulled,
                    Page!Misses, Page!Unverified, Page!history
<1>. QED BY <1>1, <1>2 DEF Calm

(* A change of status leaves the balance; a row that a pull brings has the  *)
(* balance of its card.                                                     *)
LEMMA BalanceKept ==
    ASSUME PageShape,
           \/ \E k \in Page!Kinds : Page!FirstWritten(k) \/ \E c \in Cards : Page!CardChanged(k, c)
           \/ \E c \in Cards, status \in {"active", "blocked"} : Page!Pulled(c, status)
    PROVE  /\ UNCHANGED <<chip, nfc, writes, journal, reads, closing>>
           /\ \A c \in Cards : rows'[c] # Nothing =>
                \/ rows[c] # Nothing /\ rows'[c].bal = rows[c].bal
                \/ rows'[c].bal = chip[c]
<1>0. /\ rows \in [Cards -> Page!Row \cup {Nothing}] /\ chip \in [Cards -> Page!Amounts]
      /\ \A k \in Page!Kinds : jobs[k] # Nothing => jobs[k] \in Page!Job /\ JobFits(k, jobs[k])
  BY DEF PageShape, BookShape, JobShape
<1>1. \A old \in Page!Row : \A status : [old EXCEPT !.status = status].bal = old.bal
  BY DEF Page!Row
<1>2. UNCHANGED <<chip, nfc, writes, journal, reads, closing>>
  BY DEF Page!FirstWritten, Page!CardChanged, Page!Pulled, Page!reader
<1>3. ASSUME NEW k \in Page!Kinds, Page!FirstWritten(k), NEW c \in Cards, rows'[c] # Nothing
      PROVE  rows[c] # Nothing /\ rows'[c].bal = rows[c].bal
  <2>1. jobs[k] # Nothing
    BY <1>3 DEF Page!FirstWritten, Page!Is
  <2>2. PICK j : j = jobs[k]
    OBVIOUS
  <2>3. \/ rows'[c] = rows[c]
        \/ rows[c] # Nothing /\ rows'[c] = [rows[c] EXCEPT !.status = "deleted"]
    BY <1>3, <2>1, <2>2, AtJob
  <2>4. CASE rows'[c] = rows[c]
    BY <1>3, <2>4
  <2>5. CASE rows[c] # Nothing /\ rows'[c] = [rows[c] EXCEPT !.status = "deleted"]
    <3>1. rows[c] \in Page!Row
      BY <1>0, <2>5
    <3>. QED BY <1>1, <2>5, <3>1
  <2>. QED BY <2>3, <2>4, <2>5
<1>4. ASSUME NEW k \in Page!Kinds, NEW d \in Cards, Page!CardChanged(k, d), NEW c \in Cards, rows'[c] # Nothing
      PROVE  rows[c] # Nothing /\ rows'[c].bal = rows[c].bal
  <2>1. jobs[k] # Nothing /\ d \in jobs[k].todo
    BY <1>4 DEF Page!CardChanged, Page!Is
  <2>2. rows[d] \in Page!Row
    BY <1>0, <2>1 DEF JobFits
  <2>3. rows' = [rows EXCEPT ![d] = [rows[d] EXCEPT !.status = Page!CardStatusOf(jobs[k].to)]]
    BY <1>4 DEF Page!CardChanged
  <2>4. CASE c = d
    <3>1. rows'[c] = [rows[c] EXCEPT !.status = Page!CardStatusOf(jobs[k].to)]
      BY <1>0, <2>3, <2>4
    <3>. QED BY <1>1, <2>2, <2>4, <3>1, NothingIsNothing
  <2>5. CASE c # d
    BY <1>0, <1>4, <2>3, <2>5
  <2>. QED BY <2>4, <2>5
<1>5. ASSUME NEW d \in Cards, NEW status \in {"active", "blocked"}, Page!Pulled(d, status), NEW c \in Cards, rows'[c] # Nothing
      PROVE  (rows[c] # Nothing /\ rows'[c].bal = rows[c].bal) \/ rows'[c].bal = chip[c]
  <2>1. PICK yes \in BOOLEAN : yes = TRUE
    OBVIOUS
  <2>2. rows' = [rows EXCEPT ![d] = IF rows[d] = Nothing THEN [status |-> status, bal |-> chip[d], owned |-> yes]
                                    ELSE [rows[d] EXCEPT !.status = status]]
    BY <1>5, <2>1 DEF Page!Pulled
  <2>3. CASE c # d
    BY <1>0, <1>5, <2>2, <2>3
  <2>4. CASE c = d /\ rows[d] = Nothing
    <3>1. rows'[c] = [status |-> status, bal |-> chip[d], owned |-> yes]
      BY <1>0, <2>2, <2>4
    <3>. QED BY <2>4, <3>1
  <2>5. CASE c = d /\ rows[d] # Nothing
    <3>1. rows'[c] = [rows[c] EXCEPT !.status = status]
      BY <1>0, <2>2, <2>5
    <3>. QED BY <1>0, <1>1, <2>5, <3>1
  <2>. QED BY <2>3, <2>4, <2>5
<1>. QED BY <1>2, <1>3, <1>4, <1>5

LEMMA RowsStep == ASSUME PageShape, WritesMeant, Calm, RowsMeant, Calm', Page!Next PROVE RowsMeant'
<1>0. /\ writes \subseteq Page!Write /\ journal \in [Cards -> Page!Amounts \cup {Nothing}] /\ chip \in [Cards -> Page!Amounts]
      /\ rows \in [Cards -> Page!Row \cup {Nothing}] /\ reads \subseteq Page!Read
      /\ nfc.card \in Cards \cup {Nothing} /\ Nothing \notin Cards /\ Nothing \notin Page!Amounts /\ ~visit.hurries
      /\ nfc.pending \in Pendings
  BY ReaderTypes, NothingIsNothing DEF PageShape, BookShape, Calm
<1>1. \A r \in reads : r.card \in Cards /\ r.bal \in Page!Amounts
  BY <1>0 DEF Page!Read
<1>2. OneWrite /\ ReaderTrue /\ ReadsTrue /\ \A c \in Cards : RowTrue(c)
  BY DEF RowsMeant
<1>3. nfc.phase # "writing" \/ nfc.pending # Nothing => writes = {}
  BY <1>2 DEF OneWrite, Sole
<1>4. CASE UNCHANGED <<chip, rows, nfc, writes, journal, reads, closing>>
  BY <1>2, <1>4 DEF RowsMeant, OneWrite, Sole, ReaderTrue, ReadsTrue, RowTrue
(* A step of the reader that leaves the books alone.                        *)
<1>5. ASSUME writes' = {}, UNCHANGED <<chip, rows, journal, reads>>, nfc'.phase \notin {"ready", "success"}, ~closing',
             nfc'.pending # Nothing => journal[nfc'.pending.card] = nfc'.pending.to
      PROVE  RowsMeant'
  BY <1>2, <1>5 DEF RowsMeant, OneWrite, ReaderTrue, ReadsTrue, RowTrue
<1>6. CASE \/ \E k \in Page!Kinds : Page!FirstWritten(k) \/ \E c \in Cards : Page!CardChanged(k, c)
           \/ \E c \in Cards, status \in {"active", "blocked"} : Page!Pulled(c, status)
  <2>1. /\ UNCHANGED <<chip, nfc, writes, journal, reads, closing>>
        /\ \A c \in Cards : rows'[c] # Nothing =>
             \/ rows[c] # Nothing /\ rows'[c].bal = rows[c].bal
             \/ rows'[c].bal = chip[c]
    BY <1>6, BalanceKept
  <2>2. \A c \in Cards : RowTrue(c)'
    BY <1>2, <2>1 DEF RowTrue
  <2>. QED BY <1>2, <2>1, <2>2 DEF RowsMeant, OneWrite, Sole, ReaderTrue, ReadsTrue
(* A reading begins: of a card whose entry is or has been removed.          *)
<1>7. ASSUME NEW c \in Cards, NEW by, Page!Reading(c, chip[c], by), chip' = chip, journal'[c] = Nothing,
             \A d \in Cards \ {c} : journal'[d] = journal[d] /\ rows'[d] = rows[d]
      PROVE  ReadsTrue' /\ \A d \in Cards : RowTrue(d)'
  <2>0. PICK no \in BOOLEAN : no = FALSE
    OBVIOUS
  <2>1. PICK s : s = [card |-> c, bal |-> chip[c], by |-> by, at |-> "get", found |-> no]
    OBVIOUS
  <2>2. s.card = c /\ s.bal = chip[c]
    BY <2>1
  <2>3. reads' = reads \cup {s}
    BY <1>7, <2>0, <2>1 DEF Page!Reading
  <2>4. ReadsTrue'
    BY <1>1, <1>2, <1>7, <2>2, <2>3 DEF ReadsTrue
  <2>5. \A d \in Cards : RowTrue(d)'
    BY <1>2, <1>7, <2>2, <2>3 DEF RowTrue
  <2>. QED BY <2>4, <2>5
<1>8. CASE Page!Render
  <2>1. UNCHANGED <<chip, rows, nfc, writes, journal>>
    BY <1>8 DEF Page!Render, Page!reader, Page!books
  <2>2. CASE nfc.phase = "ready"
    BY <1>4, <1>8, <2>1, <2>2 DEF Page!Render
  <2>3. CASE nfc.phase # "ready"
    <3>1. nfc.phase = "success" /\ Page!Reading(nfc.card, nfc.bal, "success") /\ closing'
      BY <1>8, <2>3 DEF Page!Render
    <3>2. PICK c : c = nfc.card
      OBVIOUS
    <3>3. c \in Cards /\ nfc.bal = chip[c] /\ journal[c] = Nothing
      BY <1>2, <3>1, <3>2, ReaderTypes DEF ReaderTrue
    <3>4. Page!Reading(c, chip[c], "success")
      BY <3>1, <3>2, <3>3
    <3>5. ReadsTrue' /\ \A d \in Cards : RowTrue(d)'
      BY <1>7, <2>1, <3>3, <3>4
    <3>6. OneWrite' /\ ReaderTrue'
      BY <1>2, <2>1, <3>1 DEF OneWrite, Sole, ReaderTrue
    <3>. QED BY <3>5, <3>6 DEF RowsMeant
  <2>. QED BY <2>2, <2>3
<1>9. ASSUME NEW c \in Cards, Page!CheckAnswered(c) PROVE RowsMeant'
  BY <1>4, <1>9, AtDrawer
<1>10. ASSUME NEW r \in reads, Page!RowRead(r) PROVE RowsMeant'
  <2>1. /\ UNCHANGED <<chip, rows, nfc, writes, journal, closing>>
        /\ reads' = (reads \ {r}) \cup
                      (IF r.by = "success" /\ rows[r.card] = Nothing THEN {}
                       ELSE {[r EXCEPT !.at = "put", !.found = (rows[r.card] # Nothing)]})
    BY <1>10 DEF Page!RowRead, Page!books, Page!reader
  <2>2. PICK f \in BOOLEAN : f = (rows[r.card] # Nothing)
    OBVIOUS
  <2>3. PICK s : s = [r EXCEPT !.at = "put", !.found = f]
    OBVIOUS
  <2>4. s.card = r.card /\ s.bal = r.bal
    BY <1>0, <2>3 DEF Page!Read
  <2>5. /\ reads' \subseteq reads \cup {s}
        /\ reads \ {r} \subseteq reads'
        /\ rows[r.card] # Nothing => s \in reads'
    BY <2>1, <2>2, <2>3
  <2>6. ReadsTrue'
    BY <1>2, <2>1, <2>4, <2>5 DEF ReadsTrue
  <2>7. ASSUME NEW d \in Cards, rows[d] # Nothing, \A q \in reads' : q.card # d PROVE \A q \in reads : q.card # d
    BY <2>4, <2>5, <2>7
  <2>8. \A d \in Cards : RowTrue(d)'
    BY <1>2, <2>1, <2>7 DEF RowTrue
  <2>. QED BY <1>2, <2>1, <2>6, <2>8 DEF RowsMeant, OneWrite, Sole, ReaderTrue
<1>11. ASSUME NEW r \in reads, Page!RowWritten(r) PROVE RowsMeant'
  <2>1. /\ reads' = reads \ {r} /\ rows'[r.card].bal = r.bal /\ \A c \in Cards \ {r.card} : rows'[c] = rows[c]
        /\ UNCHANGED <<chip, nfc, writes, journal, closing>> /\ r.card \in Cards
    BY <1>11, AtRow
  <2>2. r.bal = chip[r.card]
    BY <1>2 DEF ReadsTrue
  <2>3. \A d \in Cards : RowTrue(d)'
    BY <1>2, <2>1, <2>2 DEF RowTrue
  <2>. QED BY <1>2, <2>1, <2>3 DEF RowsMeant, OneWrite, Sole, ReaderTrue, ReadsTrue
<1>12. ASSUME NEW c \in Cards, Page!Tap(c) PROVE RowsMeant'
  <2>1. writes = {} /\ ~closing /\ nfc.phase \in {"scanning", "writing"}
    BY <1>2, <1>3, <1>12, AtTap DEF Page!Waiting, ReaderTrue, WritesMeant, UnderWay
  <2>2. UNCHANGED <<chip, rows>>
    BY <1>12, AtTap
  <2>3. ASSUME NEW to \in Page!Amounts, Begun(c, to), Becomes("writing", c, chip[c], Nothing), UNCHANGED <<journal, reads, closing>>,
               journal[c] = to
        PROVE  RowsMeant'
    <3>1. PICK w \in Page!Write : w.card = c /\ w.to = to /\ w.at = "write" /\ writes' = {w}
      BY <2>1, <2>3 DEF Begun
    <3>2. OneWrite' /\ ReaderTrue'
      BY <2>1, <2>3, <3>1 DEF OneWrite, Sole, ReaderTrue, Becomes
    <3>. QED BY <1>2, <2>2, <2>3, <3>2 DEF RowsMeant, ReadsTrue, RowTrue
  <2>4. ASSUME ~Page!Missing(c), Becomes("ready", c, chip[c], Nothing), Page!Reading(c, chip[c], "ready"),
               journal' = [journal EXCEPT ![c] = Nothing], UNCHANGED <<writes, closing>>
        PROVE  RowsMeant'
    <3>1. journal'[c] = Nothing /\ \A d \in Cards \ {c} : journal'[d] = journal[d] /\ rows'[d] = rows[d]
      BY <1>0, <2>2, <2>4
    <3>2. ReadsTrue' /\ \A d \in Cards : RowTrue(d)'
      BY <1>7, <2>2, <2>4, <3>1
    <3>3. OneWrite' /\ ReaderTrue'
      BY <2>1, <2>4, <3>1 DEF OneWrite, ReaderTrue, Becomes
    <3>. QED BY <3>2, <3>3 DEF RowsMeant
  <2>5. nfc.pending # Nothing => journal[nfc.pending.card] = nfc.pending.to
    BY <1>2 DEF ReaderTrue
  <2>. QED BY <1>12, <2>3, <2>4, <2>5, AtTap
<1>13. CASE Page!Confirm
  <2>0. PICK c, to : c = nfc.card /\ to = nfc.bal + 1
    OBVIOUS
  <2>1. /\ nfc.phase = "ready" /\ c \in Cards /\ to \in Page!Amounts /\ reads = {}
        /\ Becomes("writing", c, nfc.bal, nfc.pending) /\ Begun(c, to)
        /\ journal' = [journal EXCEPT ![c] = to]
        /\ UNCHANGED <<chip, rows, reads, closing>>
    BY <1>0, <1>13, <2>0, AtConfirm
  <2>2. writes = {} /\ ~closing /\ nfc.pending = Nothing
    BY <1>2, <1>3, <2>1 DEF ReaderTrue, WritesMeant
  <2>3. PICK w \in Page!Write : w.card = c /\ w.to = to /\ w.at = "write" /\ writes' = {w}
    BY <2>1, <2>2 DEF Begun
  <2>4. journal'[c] = to /\ \A d \in Cards \ {c} : journal'[d] = journal[d]
    BY <1>0, <2>1
  <2>5. OneWrite' /\ ReaderTrue'
    BY <2>1, <2>2, <2>3, <2>4 DEF OneWrite, Sole, ReaderTrue, Becomes
  <2>6. ReadsTrue' /\ \A d \in Cards : RowTrue(d)'
    BY <1>0, <1>2, <2>1, <2>4 DEF ReadsTrue, RowTrue
  <2>. QED BY <2>5, <2>6 DEF RowsMeant
<1>14. ASSUME NEW w \in writes, Page!Lands(w) \/ Page!Misses(w) \/ Page!Unverified(w) \/ Page!Recorded(w) PROVE RowsMeant'
  <2>1. /\ writes = {w} /\ w.card \in Cards /\ w.to \in Page!Amounts /\ nfc.phase = "writing" /\ nfc.pending = Nothing /\ ~closing
        /\ journal[w.card] = w.to /\ nfc.card = w.card /\ (w.at = "record" => chip[w.card] = w.to)
    BY <1>2, AtWrite DEF OneWrite, Sole, ReaderTrue
  <2>2. CASE Page!Lands(w)
    <3>1. /\ chip' = [chip EXCEPT ![w.card] = w.to] /\ UNCHANGED <<rows, nfc, journal, reads, closing>>
          /\ \E v \in Page!Write : v.card = w.card /\ v.to = w.to /\ v.at = "record" /\ writes' = (writes \ {w}) \cup {v}
      BY <2>2, AtWrite
    <3>2. PICK v \in Page!Write : v.card = w.card /\ v.to = w.to /\ v.at = "record" /\ writes' = {v}
      BY <2>1, <3>1
    <3>3. chip'[w.card] = w.to /\ \A d \in Cards \ {w.card} : chip'[d] = chip[d]
      BY <1>0, <2>1, <3>1
    <3>4. OneWrite' /\ ReaderTrue'
      BY <2>1, <3>1, <3>2, <3>3 DEF OneWrite, Sole, ReaderTrue
    <3>5. ReadsTrue'
      BY <1>0, <1>1, <1>2, <2>1, <3>1, <3>3 DEF ReadsTrue
    <3>6. \A d \in Cards : RowTrue(d)'
      BY <1>0, <1>2, <2>1, <3>1, <3>3 DEF RowTrue
    <3>. QED BY <3>4, <3>5, <3>6 DEF RowsMeant
  <2>3. CASE Page!Misses(w)
    <3>1. /\ writes' = {} /\ UNCHANGED <<chip, rows, journal, reads, closing>>
          /\ \/ /\ nfc'.pending # Nothing => nfc'.pending.card = w.card /\ nfc'.pending.to = w.to
                /\ Becomes(nfc.phase, nfc.card, nfc.bal, nfc'.pending)
             \/ Becomes("error", nfc.card, nfc.bal, Nothing)
      BY <2>1, <2>3, AtWrite
    <3>2. nfc'.phase \in {"writing", "error"}
      BY <2>1, <3>1 DEF Becomes
    <3>3. nfc'.pending # Nothing => journal[nfc'.pending.card] = nfc'.pending.to
      BY <2>1, <3>1 DEF Becomes
    <3>. QED BY <1>5, <2>1, <3>1, <3>2, <3>3
  <2>4. CASE Page!Unverified(w)
    <3>1. writes' = {} /\ Becomes("error", nfc.card, nfc.bal, Nothing) /\ UNCHANGED <<chip, rows, journal, reads, closing>>
      BY <2>1, <2>4, AtWrite
    <3>. QED BY <1>5, <2>1, <3>1 DEF Becomes
  <2>5. CASE Page!Recorded(w)
    <3>1. /\ writes' = {} /\ Becomes("success", w.card, w.to, Nothing)
          /\ rows' = [rows EXCEPT ![w.card] = Page!FromChip(w.card, w.to)]
          /\ journal' = [journal EXCEPT ![w.card] = Nothing]
          /\ Page!Reading(w.card, w.to, "success") /\ closing' /\ UNCHANGED chip /\ chip[w.card] = w.to
      BY <2>1, <2>5, AtWrite
    <3>2. journal'[w.card] = Nothing /\ \A d \in Cards \ {w.card} : journal'[d] = journal[d] /\ rows'[d] = rows[d]
      BY <1>0, <2>1, <3>1
    <3>3. ReadsTrue' /\ \A d \in Cards : RowTrue(d)'
      BY <1>7, <2>1, <3>1, <3>2
    <3>4. OneWrite' /\ ReaderTrue'
      BY <3>1, <3>2 DEF OneWrite, ReaderTrue, Becomes
    <3>. QED BY <3>3, <3>4 DEF RowsMeant
  <2>. QED BY <1>14, <2>2, <2>3, <2>4, <2>5
<1>15. CASE Page!GivesUp
  <2>1. /\ nfc.phase = "writing" /\ nfc.pending # Nothing /\ Becomes("error", nfc.card, nfc.bal, Nothing)
        /\ UNCHANGED <<chip, rows, writes, journal, reads, closing>>
    BY <1>15, AtOther
  <2>2. writes = {} /\ ~closing
    BY <1>2, <1>3, <2>1 DEF ReaderTrue
  <2>. QED BY <1>5, <2>1, <2>2 DEF Becomes
<1>16. CASE Page!Closes
  <2>1. /\ closing /\ ~closing' /\ Becomes("idle", Nothing, 0, Nothing) /\ writes' = Recordings
        /\ UNCHANGED <<chip, rows, journal, reads>>
    BY <1>16, AtOther
  <2>2. writes' = {}
    BY <1>2, <1>3, <2>1 DEF ReaderTrue, Recordings
  <2>. QED BY <1>5, <2>1, <2>2 DEF Becomes
<1>17. CASE Page!CloseDrawer
  <2>1. /\ nfc.phase # "writing" /\ ~closing' /\ Becomes("idle", Nothing, 0, Nothing) /\ writes' = Recordings
        /\ (nfc.card = Nothing \/ nfc.phase \in {"success", "error"} => journal' = journal)
        /\ (nfc.card # Nothing /\ nfc.phase \notin {"success", "error"} => journal' = [journal EXCEPT ![nfc.card] = Nothing])
        /\ UNCHANGED <<chip, rows, reads>>
    BY <1>0, <1>17, AtOther
  <2>2. writes' = {}
    BY <1>3, <2>1 DEF Recordings
  <2>3. journal' = journal
    <3>1. CASE nfc.card = Nothing \/ nfc.phase \in {"success", "error"}
      BY <2>1, <3>1
    <3>2. CASE nfc.card # Nothing /\ nfc.phase \notin {"success", "error"}
      <4>1. nfc.phase = "ready"
        BY <2>1, <3>2, ReaderTypes
      <4>2. journal[nfc.card] = Nothing /\ journal' = [journal EXCEPT ![nfc.card] = Nothing]
        BY <1>2, <2>1, <3>2, <4>1 DEF ReaderTrue
      <4>. QED BY <1>0, <4>2
    <3>. QED BY <3>1, <3>2
  <2>. QED BY <1>5, <2>1, <2>2, <2>3 DEF Becomes
<1>18. ASSUME NEW c \in Cards, Page!ChooseTopup(c) PROVE RowsMeant'
  <2>1. /\ ~closing' /\ Becomes("scanning", Nothing, 0, nfc.pending) /\ writes' = Recordings
        /\ overtaken' = (overtaken \/ writes # {}) /\ UNCHANGED <<chip, rows, journal, reads>>
    BY <1>18, AtOther
  <2>2. writes' = {}
    BY <2>1 DEF Calm, Recordings
  <2>3. nfc.pending # Nothing => journal[nfc.pending.card] = nfc.pending.to
    BY <1>2 DEF ReaderTrue
  <2>. QED BY <1>5, <2>1, <2>2, <2>3 DEF Becomes
<1>19. CASE Page!Retry
  <2>1. /\ nfc.phase = "error" /\ ~closing' /\ writes' = Recordings /\ UNCHANGED <<chip, rows, journal, reads>>
        /\ \/ /\ nfc'.pending # Nothing => nfc'.pending.card = nfc.card /\ nfc'.pending.to = journal[nfc.card]
              /\ Becomes("scanning", Nothing, 0, nfc'.pending)
           \/ Becomes("scanning", Nothing, 0, nfc.pending)
    BY <1>19, AtOther
  <2>2. writes' = {} /\ nfc'.phase = "scanning"
    BY <1>3, <2>1 DEF Recordings, Becomes
  <2>3. nfc'.pending # Nothing => journal[nfc'.pending.card] = nfc'.pending.to
    BY <1>2, <2>1 DEF ReaderTrue, Becomes
  <2>. QED BY <1>5, <2>1, <2>2, <2>3
<1>. QED BY <1>4, <1>6, <1>8, <1>9, <1>10, <1>11, <1>12, <1>13, <1>14, <1>15, <1>16, <1>17, <1>18, <1>19, RowsTouched

LEMMA RowsInit == ASSUME Page!Init PROVE RowsMeant
<1>1. PICK yes \in BOOLEAN : yes = TRUE
  OBVIOUS
<1>2. PICK new : new = [status |-> "active", bal |-> 0, owned |-> yes]
  OBVIOUS
<1>3. new.bal = 0 /\ rows = [c \in Cards |-> IF c \in visit.known THEN new ELSE Nothing] /\ chip = [c \in Cards |-> 0]
  BY <1>1, <1>2 DEF Page!Init
<1>4. \A c \in Cards : RowTrue(c)
  BY <1>3 DEF RowTrue
<1>5. OneWrite /\ ReaderTrue /\ ReadsTrue
  BY DEF Page!Init, Page!NoScan, OneWrite, ReaderTrue, ReadsTrue
<1>. QED BY <1>4, <1>5 DEF RowsMeant

-----------------------------------------------------------------------------
(* The invariant of the page of cards.                                      *)
PageInvariant ==
    /\ PageShape /\ WritesMeant
    /\ Calm => RowsMeant
    /\ ~undone => MemberFollowed

LEMMA PageHolds == (Page!Init => PageInvariant) /\ (PageInvariant /\ (Page!Next \/ UNCHANGED pageVars) => PageInvariant')
<1>1. Page!Init => PageInvariant
  BY PageShapeInit, MeantInit, RowsInit, FollowedInit DEF PageInvariant
<1>2. PageInvariant /\ Page!Next => PageInvariant'
  BY PageShapeStep, MeantStep, CalmStays, RowsStep, FollowedStep DEF PageInvariant
<1>3. ASSUME PageInvariant, UNCHANGED pageVars PROVE PageInvariant'
  <2>1. UNCHANGED <<visit, left, chip, rows, member, nfc, writes, journal, page, lookups, reads, closing, jobs, confirmed,
                    checked, undone, overtaken>>
    BY <1>3 DEF pageVars
  <2>2. PageShape'
    BY <1>3, <2>1 DEF PageInvariant, PageShape, VisitShape, BookShape, ReaderShape, DrawerShape, JobShape, JobFits
  <2>3. WritesMeant'
    BY <1>3, <2>1 DEF PageInvariant, WritesMeant, UnderWay, Meant, Journaled, ChosenIsReady
  <2>4. (Calm => RowsMeant)'
    BY <1>3, <2>1 DEF PageInvariant, Calm, RowsMeant, OneWrite, Sole, ReaderTrue, ReadsTrue, RowTrue
  <2>5. (~undone => MemberFollowed)'
    BY <1>3, <2>1 DEF PageInvariant, MemberFollowed, Owned
  <2>. QED BY <2>2, <2>3, <2>4, <2>5 DEF PageInvariant
<1>. QED BY <1>1, <1>2, <1>3

LEMMA PageBooks == ASSUME PageInvariant PROVE Page!PageBooksAgree
<1>1. Page!PageTypeOK
  BY PageTyped DEF PageInvariant
<1>2. ASSUME Page!Settled, Calm, NEW c \in Cards, rows[c] # Nothing, journal[c] = Nothing PROVE rows[c].bal = chip[c]
  BY <1>2 DEF PageInvariant, RowsMeant, RowTrue, Page!Settled
<1>3. ASSUME Page!Settled, ~undone, NEW c \in Cards, Owned(c) PROVE Fits(rows[c].status, member)
  BY <1>3 DEF PageInvariant, MemberFollowed, Page!Settled, Page!AtRest, Page!Kinds, Changes
<1>. QED BY <1>1, <1>2, <1>3 DEF Page!PageBooksAgree, Page!RowsFollow, Calm, Owned, Fits

-----------------------------------------------------------------------------
(* The two parts together.                                                  *)
SectionInvariant == IssueInvariant /\ PageInvariant
SectionStep == SectionNext \/ UNCHANGED <<issueVars, pageVars, part>>

LEMMA SectionHolds == (SectionInit => SectionInvariant) /\ (SectionInvariant /\ SectionStep => SectionInvariant')
<1>1. SectionInit => SectionInvariant
  BY IssueHolds, PageHolds DEF SectionInit, SectionInvariant
<1>2. SectionStep => [IssueNext]_issueVars /\ (Page!Next \/ UNCHANGED pageVars)
  BY DEF SectionStep, SectionNext
<1>. QED BY <1>1, <1>2, IssueHolds, PageHolds DEF SectionInvariant

(* What the cards carry, what the list says of them and what becomes of a   *)
(* member's cards: a card that was printed has its row, and when the page is*)
(* at rest the row of a card shows the card's balance and the cards of a    *)
(* suspended or deleted member are blocked or deleted (CardSection and      *)
(* MemberSection with useCardOperations and useCardSync).                   *)
THEOREM BooksAgreeHold == SectionSpec => []BooksAgree
<1>1. SectionInvariant => BooksAgree
  BY CardAndRow, PageBooks DEF SectionInvariant, BooksAgree
<1>2. SectionSpec => SectionInit /\ [][SectionNext]_<<issueVars, pageVars, part>>
  BY DEF SectionSpec
<1>3. SectionInvariant /\ [SectionNext]_<<issueVars, pageVars, part>> => SectionInvariant'
  BY SectionHolds DEF SectionStep
<1>4. SectionInit => SectionInvariant
  BY SectionHolds
<1>. QED BY <1>1, <1>2, <1>3, <1>4, PTL

(* No card is written that the operator did not mean: one that carries a    *)
(* member, or that the list knows, is printed over only when the operator   *)
(* has said so (handleForceOverwriteConfirm and the recovery), and what     *)
(* lands on a card was confirmed for the card that was chosen and checked   *)
(* (handleTopupConfirm).                                                    *)
THEOREM WritesMeantHold == SectionSpec => WritesAreMeant
<1>1. SectionInvariant /\ [SectionNext]_<<issueVars, pageVars, part>> => [NotPrintedUnasked]_issueVars
  BY SectionHolds, UnaskedNever DEF SectionInvariant, SectionNext
<1>2. SectionInvariant /\ [SectionNext]_<<issueVars, pageVars, part>> => [NotLandedUnmeant]_Page!pageVars
  <2>1. ASSUME SectionInvariant, SectionNext \/ UNCHANGED <<issueVars, pageVars, part>>
        PROVE  NotLandedUnmeant \/ UNCHANGED Page!pageVars
    <3>1. CASE Page!Next
      BY <2>1, <3>1, LandedMeant DEF SectionInvariant, PageInvariant
    <3>2. CASE UNCHANGED pageVars
      BY <3>2 DEF pageVars, Page!pageVars, Page!books, Page!reader, Page!history
    <3>. QED BY <2>1, <3>1, <3>2 DEF SectionNext
  <2>. QED BY <2>1
<1>3. SectionSpec => SectionInit /\ [][SectionNext]_<<issueVars, pageVars, part>>
  BY DEF SectionSpec
<1>4. SectionInvariant /\ [SectionNext]_<<issueVars, pageVars, part>> => SectionInvariant'
  BY SectionHolds DEF SectionStep
<1>5. SectionInit => SectionInvariant
  BY SectionHolds
<1>6. SectionSpec => [][NotPrintedUnasked]_issueVars
  BY <1>1, <1>3, <1>4, <1>5, PTL
<1>7. SectionSpec => [][NotLandedUnmeant]_Page!pageVars
  BY <1>2, <1>3, <1>4, <1>5, PTL
<1>8. (\A c \in Cards : chip'[c] # chip[c] => <<c, chip'[c]>> \in confirmed /\ chip'[c] > chip[c]) <=> NotLandedUnmeant
  BY DEF NotLandedUnmeant
<1>. QED BY <1>6, <1>7 DEF WritesAreMeant, AsksBeforeOverwriting, NotPrintedUnasked, Page!LandsAsConfirmed, NotLandedUnmeant
=============================================================================

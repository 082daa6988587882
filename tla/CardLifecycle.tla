--------------------------- MODULE CardLifecycle ---------------------------
(***************************************************************************)
(* One wallet card carried between the gate, the terminal and the station. *)
(* Each device reads its own clock and its own copy of the card's status   *)
(* in the local database; the devices share nothing but the card.          *)
(*                                                                         *)
(* A tap is one atomic step here: the card is read, the section's rules    *)
(* are applied to what was read, and the result is on the card.  What can  *)
(* happen inside a tap is the subject of NfcWrite and KioskTap.            *)
(*                                                                         *)
(* Bounds: MaxTime bounds the real clock, MaxCounter the number of writes. *)
(***************************************************************************)
EXTENDS CardEngine

CONSTANTS
    Skew,        \* how far a device clock (or the gate's simulated clock) may be off
    Issued,      \* balances a card may be issued with
    Amounts,     \* nominal amounts an operator may type in for a top-up
    LocalChanges, \* statuses an administrator gives the card in a local database
    MaxTime, MaxCounter

Devices == {"gate", "terminal", "station"}

ASSUME LifecycleAssumption ==
    /\ Skew \in Nat /\ MaxTime \in Nat /\ MaxCounter \in Nat
    /\ Issued \subseteq 0..MaxBalance
    /\ Amounts \subseteq Int
    /\ LocalChanges \subseteq {"active", "blocked", "deleted"}

\* What a device's local database says of the card (cards table, by card id).
LocalStatus == {"absent", "active", "blocked", "deleted"}

VARIABLES
    card,       \* the payload on the physical card
    local,      \* local[d]: status of the card in device d's IndexedDB
    offset,     \* offset[d]: device clock minus real time
    now,        \* real time, in seconds
    enteredAt   \* history: real time of the last check-in

vars == <<card, local, offset, now, enteredAt>>

TypeOK ==
    /\ card \in CardPayload
    /\ Len(card.log) <= LogSize
    /\ local \in [Devices -> LocalStatus]
    /\ offset \in [Devices -> -Skew..Skew]
    /\ now \in Nat /\ enteredAt \in Nat

\* The first instant at which no device clock can read 0 (resolveTimestamp).
Epoch == Skew + 1

\* The card as the station issues it; only the station knows it at first.
NewCard(balance) ==
    [status |-> "ACTIVE", state |-> "IDLE", balance |-> balance, lastBalance |-> 0,
     counter |-> 1, lastTimestamp |-> Epoch, startTime |-> 0, endTime |-> 0, log |-> <<>>]

Init ==
    /\ card \in {NewCard(b) : b \in Issued}
    /\ local = [d \in Devices |-> IF d = "station" THEN "active" ELSE "absent"]
    /\ offset \in [Devices -> -Skew..Skew]
    /\ now = Epoch /\ enteredAt = Epoch

Clock(d) == now + offset[d]

-----------------------------------------------------------------------------
(* checkLocalBlockedStatus: a card the database does not hold is allowed.  *)
LocallyBlocked(d) == local[d] \in {"blocked", "deleted"}

(* updateLocalCardRecord: the local copy follows the payload just written, *)
(* except that a locally deleted card stays deleted.                       *)
LocalAfter(d, p) ==
    [local EXCEPT ![d] = IF @ = "deleted" THEN @
                         ELSE IF p.status = "ACTIVE" THEN "active" ELSE "blocked"]

WriteCard(d, p) ==
    /\ card.counter < MaxCounter
    /\ card' = p
    /\ local' = LocalAfter(d, p)
    /\ UNCHANGED <<offset, now>>

(* With the 24 h limit disabled the gate validates any card that is not    *)
(* IDLE one second after its own last timestamp: never expired.            *)
GateValidationTime == IF card.state = "IDLE" THEN Clock("gate") ELSE card.lastTimestamp + 1

(* The gate acts before its lookup of the local database has answered (the *)
(* effect order is the subject of KioskTap): no guard on local here, and   *)
(* the write makes a card that was blocked there active again.             *)
GateCheckin ==
    /\ card.status = "ACTIVE"
    /\ ValidateTransition(card, "gate_checkin", GateValidationTime)
    /\ WriteCard("gate", ApplyCheckin(card, Clock("gate")))
    /\ enteredAt' = now

CheckoutTrigger == IF card.state = "STATION_OPERATION" THEN "force_checkout" ELSE "gate_checkout"

TerminalCheckout ==
    LET t == Clock("terminal") IN
    /\ ~LocallyBlocked("terminal")
    /\ card.state \in {"CHECKED_IN", "STATION_OPERATION"}
    /\ ValidateTransition(card, CheckoutTrigger, t)
    /\ CheckoutSufficient(card, t)
    /\ WriteCard("terminal", ApplyCheckout(card, t))
    /\ UNCHANGED enteredAt

(* Gate and terminal copy a block found in their database onto the card    *)
(* (the gate only when the answer of an earlier tap is still set).         *)
BlockWriteBack(d) ==
    /\ d \in {"gate", "terminal"}
    /\ LocallyBlocked(d)
    /\ card.status = "ACTIVE"
    /\ WriteCard(d, ApplyBlockStatus(card, "BLOCKED_ADMIN", Clock(d)))
    /\ UNCHANGED enteredAt

(* The station's top-up consults the local database, not the card status.  *)
StationTopup(amount) ==
    /\ ~LocallyBlocked("station")
    /\ ValidateTopup(card, amount)
    /\ WriteCard("station", ApplyTopup(card, amount, Clock("station")))
    /\ UNCHANGED enteredAt

StationReset ==
    /\ WriteCard("station", ApplyResetState(card, Clock("station")))
    /\ UNCHANGED enteredAt

-----------------------------------------------------------------------------
(* An administrator blocks, unblocks or deletes the card, on this device   *)
(* or on another one whose change a sync pull brings in.                   *)
ChangeLocalStatus(d, s) ==
    /\ local[d] # s
    /\ local' = [local EXCEPT ![d] = s]
    /\ UNCHANGED <<card, offset, now, enteredAt>>

(* A device clock is corrected or drifts; at the gate the operator may     *)
(* also switch the simulated date and time on or off.                      *)
AdjustClock(d, o) ==
    /\ offset[d] # o
    /\ offset' = [offset EXCEPT ![d] = o]
    /\ UNCHANGED <<card, local, now, enteredAt>>

Tick ==
    /\ now < MaxTime
    /\ now' = now + 1
    /\ UNCHANGED <<card, local, offset, enteredAt>>

Next ==
    \/ GateCheckin
    \/ TerminalCheckout
    \/ \E d \in Devices : BlockWriteBack(d)
    \/ \E a \in Amounts : StationTopup(a)
    \/ StationReset
    \/ \E d \in Devices, s \in LocalChanges : ChangeLocalStatus(d, s)
    \/ \E d \in Devices, o \in -Skew..Skew : AdjustClock(d, o)
    \/ Tick

Spec == Init /\ [][Next]_vars

-----------------------------------------------------------------------------
(* Properties.                                                             *)

Last(log) == log[Len(log)]

\* The amount a log entry adds to the balance, by its transaction type.
SignedAmount(e) ==
    IF e.flags = "CREDIT" THEN e.amount
    ELSE IF e.flags = "CHECKOUT" THEN -e.amount ELSE 0

Explained(p) ==
    /\ \A i \in 1..(Len(p.log) - 1) :
          p.log[i+1].balanceAfter = p.log[i].balanceAfter + SignedAmount(p.log[i+1])
    /\ Len(p.log) > 0 => Last(p.log).balanceAfter = p.balance

(* The card's own log explains its balance: replaying any two neighbouring *)
(* entries gives the later one's balance, and the newest entry's balance   *)
(* is the wallet's.  This is what a reader of the card reconstructs after  *)
(* a dispute, whatever the order of taps and however the clocks disagree.  *)
LogExplainsBalance == Explained(card)

(* The balance stays between zero and the 16,000,000 limit that the 24-bit *)
(* log field and the server's validation depend on, although no checkout   *)
(* looks at the upper limit and no top-up at the fee.                      *)
BalanceWithinLimits == card.balance >= 0 /\ card.balance <= MaxBalance

(* The card's state agrees with the newest session entry of its log: a     *)
(* card is CHECKED_IN exactly when the last entry that opened or closed a  *)
(* session opened it.  (Top-ups and block entries between them do not      *)
(* count; ADMIN entries are ambiguous, so only entries after the newest    *)
(* of them are used.)                                                      *)
SessionMatchesLog ==
    \A i \in 1..Len(card.log) :
        /\ card.log[i].flags \in {"CHECKIN", "CHECKOUT"}
        /\ \A j \in (i+1)..Len(card.log) : card.log[j].flags = "CREDIT"
        => /\ (card.log[i].flags = "CHECKIN") <=> (card.state = "CHECKED_IN")
           /\ card.log[i].flags = "CHECKIN" => card.startTime = card.log[i].timestamp
           /\ card.log[i].flags = "CHECKOUT" => card.endTime = card.log[i].timestamp

(* The fee follows the real stay: whatever the two devices' clocks say, a  *)
(* checkout charges at least the started hours of the stay shortened by    *)
(* the combined clock error, and less than one hour more than the stay     *)
(* lengthened by it.                                                       *)
IsCheckout == card.state = "CHECKED_IN" /\ card'.state = "CHECKED_OUT"
Charged    == card.balance - card'.balance
Stay       == now - enteredAt
FeeFollowsStay ==
    [][IsCheckout => /\ Charged * Hour >= Rate * (Stay - 2 * Skew)
                     /\ Charged * Hour <  Rate * (Stay + 2 * Skew + Hour)]_vars

(* The card implements the abstract purse, as long as the clocks of two    *)
(* devices agree to less than an hour.                                     *)
Purse == INSTANCE ParkingPurse WITH
            balance <- card.balance,
            parked  <- card.state = "CHECKED_IN",
            frozen  <- card.status # "ACTIVE"
RefinesPurse == Purse!Spec
=============================================================================

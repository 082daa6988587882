----------------------------- MODULE CardEngine -----------------------------
(***************************************************************************)
(* The pure rules of a wallet card: src/core/state-machine/engine.ts.      *)
(*                                                                         *)
(* A card payload is a record.  Money is counted in units of the hourly    *)
(* parking rate where an instance wants small numbers; time is in seconds, *)
(* and Hour is the number of seconds of an hour (3600 in the code, fewer   *)
(* in the model-checked instances).  The hash chain, names, identifiers,   *)
(* the terminal id of a session and the always-zero wallet flags are left  *)
(* out: no rule of this file reads them.                                   *)
(***************************************************************************)
EXTENDS Integers, Sequences

CONSTANTS
    Hour,              \* 3600: the divisor of calculateCheckoutFee
    SessionTimeout,    \* 24 h + 1 h of clock drift
    Rate,              \* PARKING_RATE_PER_HOUR
    MinBeforeCheckin,  \* MIN_BALANCE_BEFORE_CHECKIN
    MinAfterCheckout,  \* MIN_BALANCE_AFTER_CHECKOUT
    MinTopup,          \* MIN_TOPUP_AMOUNT
    MaxTopup,          \* MAX_TOPUP_AMOUNT
    MaxBalance,        \* MAX_BALANCE
    LogSize            \* LOG_ENTRY_COUNT

ASSUME EngineAssumption ==
    /\ Hour \in Nat \ {0} /\ SessionTimeout \in Nat
    /\ Rate \in Nat \ {0}
    /\ MinBeforeCheckin \in Nat /\ MinAfterCheckout \in Nat
    /\ MinTopup \in Nat \ {0} /\ MaxTopup \in Nat /\ MaxBalance \in Nat
    /\ LogSize \in Nat \ {0}

CardState  == {"IDLE", "CHECKED_IN", "STATION_OPERATION", "CHECKED_OUT"}
CardStatus == {"ACTIVE", "BLOCKED_TAMPER", "BLOCKED_FRAUD", "BLOCKED_EXPIRED", "BLOCKED_ADMIN"}
TxType     == {"CREDIT", "CHECKIN", "CHECKOUT", "ADMIN"}

LogEntry == [timestamp: Int, amount: Int, balanceAfter: Int, flags: TxType]

CardPayload ==
    [status: CardStatus, state: CardState,
     balance: Int, lastBalance: Int, counter: Nat, lastTimestamp: Int,
     startTime: Int, endTime: Int, log: Seq(LogEntry)]

-----------------------------------------------------------------------------
(* The transition table and the guards of validateTransition.              *)

TransitionTriggers(s) ==
    CASE s = "IDLE"              -> {"gate_checkin", "force_checkout"}
      [] s = "CHECKED_IN"        -> {"terminal_start", "gate_checkout", "force_checkout"}
      [] s = "STATION_OPERATION" -> {"terminal_end", "force_checkout"}
      [] s = "CHECKED_OUT"       -> {"admin_reset", "gate_checkin"}

IsSessionExpired(p, now) ==
    /\ p.state \notin {"IDLE", "CHECKED_OUT"}
    /\ now > p.lastTimestamp + SessionTimeout

(* Mutant: the minimum balance is not looked at.                          *)
ValidateTransitionAnyBalance(p, trigger, now) ==
    /\ p.status = "ACTIVE"
    /\ IF trigger # "admin_reset" /\ IsSessionExpired(p, now)
         THEN trigger \in {"gate_checkout", "force_checkout"}
         ELSE trigger \in TransitionTriggers(p.state)

ValidateTransition(p, trigger, now) ==
    /\ p.status = "ACTIVE"
    /\ IF trigger # "admin_reset" /\ IsSessionExpired(p, now)
         THEN trigger \in {"gate_checkout", "force_checkout"}
         ELSE /\ trigger = "gate_checkin" => p.balance >= MinBeforeCheckin
              /\ trigger \in TransitionTriggers(p.state)

-----------------------------------------------------------------------------
(* Fee and balance rules.  Math.ceil rounds towards plus infinity, for     *)
(* negative durations too, and \div rounds towards minus infinity.         *)

CeilDiv(a, b) == -((-a) \div b)

(* Mutant: a started hour is free.                                         *)
FeeOfFullHours(p, now) == ((now - p.startTime) \div Hour) * Rate

CalculateCheckoutFee(p, now) == CeilDiv(now - p.startTime, Hour) * Rate

CheckoutSufficient(p, now) ==
    p.balance - CalculateCheckoutFee(p, now) >= MinAfterCheckout

ValidateTopup(p, amount) ==
    /\ amount >= MinTopup
    /\ amount <= MaxTopup
    /\ p.balance + amount <= MaxBalance

-----------------------------------------------------------------------------
(* The card's log: newest last, the oldest entry drops out.                *)

BuildLogEntry(log, e) ==
    IF Len(log) >= LogSize THEN Tail(Append(log, e)) ELSE Append(log, e)

Entry(t, amount, balanceAfter, flags) ==
    [timestamp |-> t, amount |-> amount, balanceAfter |-> balanceAfter, flags |-> flags]

(* Every apply function of the engine advances the counter by one, stamps  *)
(* the wallet and appends one log entry.                                   *)
Written(p, t, amount, flags) ==
    [p EXCEPT !.counter = @ + 1,
              !.lastTimestamp = t,
              !.log = BuildLogEntry(@, Entry(t, amount, p.balance, flags))]

ApplyCheckin(p, now) ==
    [Written(p, now, 0, "CHECKIN") EXCEPT
        !.state = "CHECKED_IN", !.startTime = now, !.endTime = 0]

(* Mutant: the checkout leaves endTime as it was.                          *)
ApplyCheckoutNoEnd(p, now) ==
    LET fee == CalculateCheckoutFee(p, now)
        q   == [p EXCEPT !.balance = @ - fee, !.lastBalance = p.balance]
    IN  [Written(q, now, fee, "CHECKOUT") EXCEPT !.state = "CHECKED_OUT"]

ApplyCheckout(p, now) ==
    LET fee == CalculateCheckoutFee(p, now)
        q   == [p EXCEPT !.balance = @ - fee, !.lastBalance = p.balance]
    IN  [Written(q, now, fee, "CHECKOUT") EXCEPT !.state = "CHECKED_OUT", !.endTime = now]

(* Mutant: the log entry is built from the balance before the top-up.      *)
ApplyTopupLogsOldBalance(p, amount, now) ==
    [Written(p, now, amount, "CREDIT") EXCEPT !.balance = @ + amount, !.lastBalance = p.balance]

ApplyTopup(p, amount, now) ==
    LET q == [p EXCEPT !.balance = @ + amount, !.lastBalance = p.balance]
    IN  Written(q, now, amount, "CREDIT")

ApplyResetState(p, now) ==
    [Written(p, now, 0, "ADMIN") EXCEPT
        !.status = "ACTIVE", !.state = "IDLE", !.startTime = 0, !.endTime = 0]

ApplyBlockStatus(p, blockedStatus, now) ==
    [Written(p, now, 0, "ADMIN") EXCEPT !.status = blockedStatus]

=============================================================================

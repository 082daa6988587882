------------------------------ MODULE CardWire ------------------------------
(***************************************************************************)
(* The bytes on the chip.  CardLifecycle says what a card is worth; here   *)
(* every write is packed into fields of fixed width, its log is chained    *)
(* and sealed with the key of the tenant (prepareWrite), and the next tap  *)
(* unpacks and judges what it finds (decodeAndValidateCard).               *)
(*                                                                         *)
(* Bytes are abstracted to the fields they hold.  Encryption, HMAC and     *)
(* hash are free constructors: two of them are equal when their arguments  *)
(* are, and nothing is read out of an encryption without its key and       *)
(* nonce.  A truncated hash of four zero bytes, which would end the log    *)
(* early, is left out (one entry in 2^32).                                 *)
(***************************************************************************)
EXTENDS CardLifecycle, FiniteSets

CONSTANTS
    Word,         \* 2^32: times, balances and the counter the trailer repeats
    AmountRange,  \* 2^24: the amount of a log entry
    Tenants,      \* whose devices tap cards
    Issuer        \* the tenant this card belongs to

ASSUME WireAssumption ==
    /\ Word \in Nat \ {0} /\ AmountRange \in Nat \ {0}
    /\ Issuer \in Tenants
    /\ MaxCounter < Word /\ MaxTime >= Epoch /\ MaxTime + Skew < Word
    /\ MaxBalance < AmountRange /\ MaxTopup < AmountRange /\ AmountRange <= Word

VARIABLE bytes     \* what is stored on the card: header, sealed body, trailer

wireVars == <<vars, bytes>>

SchemaVersion == 4

\* A device's session grant; the session key depends on tenant and version.
Grant(t) == [tenant |-> t, keyVersion |-> 1, sessionKey |-> <<t, 1>>]

-----------------------------------------------------------------------------
(* The log's hash chain: an entry's hash covers its bytes and the hash     *)
(* before it, so it stands for all the entries up to it.                   *)

Packed(e) == [timestamp |-> e.timestamp % Word, amount |-> e.amount % AmountRange,
              balanceAfter |-> e.balanceAfter % Word, flags |-> e.flags]

NoHash == <<>>
ComputeChainHash(packed, prevHash) == Append(prevHash, packed)

RecomputeChainHashes(log) ==
    [i \in 1..Len(log) |-> [packed |-> Packed(log[i]),
                            hash   |-> [j \in 1..i |-> Packed(log[j])]]]

ChainValid(slots) ==
    \A i \in 1..Len(slots) :
        slots[i].hash = ComputeChainHash(slots[i].packed,
                                         IF i = 1 THEN NoHash ELSE slots[i - 1].hash)

RootHash(slots) == IF slots = <<>> THEN NoHash ELSE slots[Len(slots)].hash

-----------------------------------------------------------------------------
(* The body of a card: LogSize log slots, an unused one is all zeros.      *)

EmptySlot == [packed |-> [timestamp |-> 0, amount |-> 0, balanceAfter |-> 0, flags |-> "DEBIT"],
              hash   |-> NoHash]

EncodeBuffer(p, slots) ==
    [status |-> p.status, state |-> p.state, counter |-> p.counter,
     balance |-> p.balance % Word, lastBalance |-> p.lastBalance % Word,
     lastTimestamp |-> p.lastTimestamp % Word,
     startTime |-> p.startTime % Word, endTime |-> p.endTime % Word,
     log |-> [i \in 1..LogSize |-> IF i <= Len(slots) THEN slots[i] ELSE EmptySlot]]

\* encodeBuffer refuses an amount above the field; a negative one wraps.
Encodable(p) == \A i \in 1..Len(p.log) : p.log[i].amount < AmountRange

\* Reading stops at the first slot without a hash.
UsedSlots(slots) ==
    LET used == {i \in 1..LogSize : \A j \in 1..i : slots[j].hash # NoHash}
    IN  SubSeq(slots, 1, Cardinality(used))

DecodeBuffer(b) ==
    LET used == UsedSlots(b.log)
    IN  [payload |-> [b EXCEPT !.log = [i \in 1..Len(used) |-> used[i].packed]],
         slots   |-> used]

-----------------------------------------------------------------------------
(* Sealing.  AES-GCM opens only under the key and nonce it was made with;  *)
(* the nonce comes from the whole counter when a card is written and from  *)
(* the 32 bits in the trailer when it is read.                             *)

EncryptCardBody(buffer, key, counter) == [key |-> key, nonce |-> counter, plain |-> buffer]

Opens(body, key, counterBind) == body.key = key /\ body.nonce = counterBind

BuildHmacInput(header, body, trailer) ==
    <<header, body, trailer.keyVersion, trailer.rootHash, trailer.counterBind>>

ComputeHmac(key, data) == <<key, data>>

Header(t) == [version |-> SchemaVersion, tenantBind |-> t]

\* A new card's trailer before prepareWrite fills it in (issuance).
NewTrailer(g) == [keyVersion |-> g.keyVersion, rootHash |-> NoHash, counterBind |-> 0, hmac |-> <<>>]

(* Key version and expiry are the ones read with the card before.          *)
PrepareWrite(trailer, p, g) ==
    LET slots == RecomputeChainHashes(p.log)
        body  == EncryptCardBody(EncodeBuffer(p, slots), g.sessionKey, p.counter)
        next  == [trailer EXCEPT !.rootHash = RootHash(slots), !.counterBind = p.counter % Word]
        mac   == ComputeHmac(g.sessionKey, BuildHmacInput(Header(Issuer), body, next))
    IN  [header |-> Header(Issuer), body |-> body, trailer |-> [next EXCEPT !.hmac = mac]]

-----------------------------------------------------------------------------
(* Reading.                                                                *)

\* (A card of a bind-less older schema would pass; none is issued any more.)
TenantBindValid(header, g) == header.tenantBind = g.tenant

\* validateCard: the first check that fails, by the kind of its verdict.
ValidateCard(raw, read, g) ==
    LET mac == ComputeHmac(g.sessionKey, BuildHmacInput(raw.header, raw.body, raw.trailer))
    IN  CASE raw.header.version # SchemaVersion          -> "refused"
          [] raw.trailer.keyVersion # g.keyVersion       -> "refused"
          [] mac # raw.trailer.hmac                      -> "tampered"
          [] read.payload.counter % Word # raw.trailer.counterBind -> "tampered"
          [] ~TenantBindValid(raw.header, g)             -> "unregistered"
          [] ~ChainValid(read.slots)                     -> "tampered"
          [] OTHER                                       -> "valid"

Ready(p, warning) == [phase |-> "ready", payload |-> p, warning |-> warning]
Unread == [phase |-> "error"]

Judged(p, verdict, lenient) ==
    IF verdict = "valid" THEN Ready(p, "none")
    ELSE IF lenient /\ verdict # "tampered" THEN Ready(p, verdict) ELSE Unread

\* A device without network compares the tenant only.
OfflineVerdict(header, g) == IF TenantBindValid(header, g) THEN "valid" ELSE "unregistered"

DecodeAndValidateCard(raw, g, lenient, online) ==
    LET read == DecodeBuffer(raw.body.plain)
    IN  IF ~Opens(raw.body, g.sessionKey, raw.trailer.counterBind) THEN Unread
        ELSE Judged(read.payload,
                    IF online THEN ValidateCard(raw, read, g) ELSE OfflineVerdict(raw.header, g),
                    lenient)

(* verifyWrittenPayload compares both payloads packed again.               *)
VerifyWrittenPayload(raw, expected, g) ==
    LET read == DecodeBuffer(raw.body.plain)
    IN  /\ Opens(raw.body, g.sessionKey, raw.trailer.counterBind)
        /\ EncodeBuffer(read.payload, read.slots)
              = EncodeBuffer(expected, RecomputeChainHashes(expected.log))

-----------------------------------------------------------------------------
WireInit ==
    /\ Init
    /\ bytes = PrepareWrite(NewTrailer(Grant(Issuer)), card, Grant(Issuer))

(* A write packs the new payload with the trailer that was read.           *)
Repack ==
    bytes' = IF card' # card /\ Encodable(card')
            THEN PrepareWrite(bytes.trailer, card', Grant(Issuer)) ELSE bytes

WireNext == Next /\ Repack

WireSpec == WireInit /\ [][WireNext]_wireVars

-----------------------------------------------------------------------------
(* The record of a write, which the outbox carries to the server.          *)

\* The names the sections give their writes.
OperationType(q) ==
    CASE Last(q.log).flags = "CHECKIN"  -> "checkin"
      [] Last(q.log).flags = "CHECKOUT" -> "checkout"
      [] Last(q.log).flags = "CREDIT"   -> "topup"
      [] q.status # "ACTIVE"            -> "admin"
      [] OTHER                          -> "admin_reset"

(* Mutant: the amount keeps its sign, and a checkout's becomes negative.   *)
RecordCardWriteSigned(p, q) ==
    [type |-> OperationType(q), counter |-> q.counter, timestamp |-> q.lastTimestamp, hash |-> NoHash,
     amount |-> q.balance - p.balance, balanceAfter |-> q.balance]

\* Taken from the payloads as they were before prepareWrite filled in the hashes.
RecordCardWrite(p, q) ==
    [type |-> OperationType(q), counter |-> q.counter, timestamp |-> q.lastTimestamp, hash |-> NoHash,
     amount |-> IF p.balance > q.balance THEN p.balance - q.balance ELSE q.balance - p.balance,
     balanceAfter |-> q.balance]

(* The server's limits; no write records a "debit" or a "credit" here.     *)
ValidTypes == {"checkin", "checkout", "topup", "admin"}
ValidateTransaction(tx) ==
    /\ tx.type \in ValidTypes
    /\ tx.amount \in 0..MaxBalance /\ tx.balanceAfter \in 0..MaxBalance
    /\ tx.type = "topup" => tx.amount \in MinTopup..MaxTopup
    /\ tx.counter >= 0 /\ tx.counter <= 65535

-----------------------------------------------------------------------------
(* What one device writes is what the next one reads: after any history of *)
(* writes every device of the tenant, strict or lenient, with or without   *)
(* network, finds exactly the payload that was meant and accepts it, and   *)
(* so does the verification after the write; a device of another tenant    *)
(* gets nothing.  It needs the amounts to fit in three bytes, the chain    *)
(* to be computed over the entries that are kept, the log to lose its      *)
(* oldest entry before it is packed, and the nonces of both sides to agree *)
(* (encodeBuffer, decodeBuffer, prepareWrite, validateCard).               *)
ReadsBack ==
    \A t \in Tenants, lenient, online \in BOOLEAN :
        LET r == DecodeAndValidateCard(bytes, Grant(t), lenient, online)
        IN  IF t = Issuer
            THEN r = Ready(card, "none") /\ VerifyWrittenPayload(bytes, card, Grant(t))
            ELSE r = Unread

(* The server believes what the card says: the record of a write, which is *)
(* computed from two payloads, tells the same story as the entry the write *)
(* left in the card's own log, and it passes the server's own limits,      *)
(* which are not the device's code.  (A reset does not, see below.)        *)
ServerIsTold(p, q) ==
    LET tx == RecordCardWrite(p, q)
        e  == Last(q.log)
    IN  /\ tx.amount = e.amount /\ tx.balanceAfter = e.balanceAfter /\ tx.timestamp = e.timestamp
        /\ tx.type # "admin_reset" => ValidateTransaction(tx)

(* Every write is understood, by the next device and by the server.        *)
WritesAreUnderstood == []ReadsBack /\ [][card' # card => ServerIsTold(card, card')]_wireVars

(* tenant-management-enhanced, requirements line 31: a transaction is one  *)
(* of six types.  "admin_reset" (useCardOperations.ts:104) is none of them.*)
EveryWriteIsTaken ==
    [][card' # card => ValidateTransaction(RecordCardWrite(card, card'))]_wireVars

(* docs-arch/HLD-diagram.html:1245: the hash of a transaction is the        *)
(* "chain hash from card".  It is the one from before the write, zeros.    *)
RecordHasTheHash ==
    [][card' # card => RecordCardWrite(card, card').hash = RootHash(bytes'.body.plain.log)]_wireVars
=============================================================================

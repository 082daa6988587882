---------------------------- MODULE NfcWrite_proofs ----------------------------
(***************************************************************************)
(* Proofs about the card write pipeline, for any number of devices, cards, *)
(* operations and pipelines: BooksGoTogether, whose three parts are proved *)
(* one after the other.  The type of what is written needs to be known by  *)
(* the number of operations prepared so far; that a recorded write was on  *)
(* the card, by the verification before it; that the journal covers every  *)
(* write under way, by what a kiosk allows in each phase (KioskOK).  Then, *)
(* for one kiosk with cards no other device writes, that nothing recorded  *)
(* is taken off a card again (RecordedIsOnCard) and no write shortens what *)
(* a card holds (NoRollback): what is read, shown, written and journalled  *)
(* is a beginning of what the card holds, or one operation more (InStep).  *)
(***************************************************************************)
EXTENDS NfcWrite, SequenceTheorems, FiniteSetTheorems, TLAPS

(* The contents that n operations can have made.                           *)
Data(n)       == {s \in Seq(1..MaxOps) : Len(s) <= n}
Held(n)       == [card : Cards, data : Data(n)]
PipeRec(n)    == [kind : Kinds, step : Steps, card : Cards, data : Data(n), aborted : BOOLEAN]
JournalRec(n) == [data : Data(n), attempts : 0..MaxAttempts]

Phases == {"idle", "scanning", "ready", "writing", "success", "error"}
Errors == {"none", "verify", "read", "other"}

ScreenOK ==
    /\ phase \in [Devices -> Phases] /\ err \in [Devices -> Errors]
    /\ shown \in [Devices -> Held(ops) \cup {NoCard}] /\ triggered \in [Devices -> BOOLEAN]
    /\ \A d \in Devices : phase[d] = "ready" => shown[d] # NoCard

FlagsOK ==
    /\ last \in [Devices -> Cards \cup {NoCard}]
    /\ retry \in [Devices -> BOOLEAN] /\ inline \in [Devices -> BOOLEAN]
    /\ timer \in [Devices -> BOOLEAN] /\ autoReset \in [Devices -> BOOLEAN]

PendingOK == pending \in [Devices -> Held(ops) \cup {NoCard}]
PipesOK   == pipes \in [Devices -> SUBSET PipeRec(ops)]
JournalOK == journal \in [Devices -> [Cards -> JournalRec(ops) \cup {NoCard}]]
BooksOK   == outbox \in [Devices -> SUBSET Held(ops)] /\ txlog \in [Devices -> SUBSET Held(ops)]
WorldOK   == content \in [Cards -> Data(ops)] /\ landed \in SUBSET Held(ops)
LimitsOK  == ops \in 0..MaxOps /\ site \in Sites

TypeInv == ScreenOK /\ FlagsOK /\ PendingOK /\ PipesOK /\ JournalOK /\ BooksOK /\ WorldOK /\ LimitsOK

-----------------------------------------------------------------------------
(* What n operations have made is in Contents, and still is made by more.  *)
LEMMA DataIsContents == ASSUME NEW n \in 0..MaxOps PROVE Data(n) \subseteq Contents
<1>1. MaxOps \in Nat
  BY NfcAssumption
<1>2. SUFFICES ASSUME NEW s \in Data(n) PROVE s \in Contents
  OBVIOUS
<1>3. s \in Seq(1..MaxOps) /\ Len(s) \in 0..MaxOps
  BY <1>1, LenProperties DEF Data
<1>4. s \in [1..Len(s) -> 1..MaxOps]
  BY <1>3, LenProperties
<1>5. QED BY <1>3, <1>4 DEF Contents, SeqOf

LEMMA DataGrows ==
    ASSUME NEW n \in Nat
    PROVE  /\ Data(n) \subseteq Data(n + 1) /\ Held(n) \subseteq Held(n + 1)
           /\ PipeRec(n) \subseteq PipeRec(n + 1) /\ JournalRec(n) \subseteq JournalRec(n + 1)
<1>1. Data(n) \subseteq Data(n + 1)
  <2>1. SUFFICES ASSUME NEW s \in Data(n) PROVE s \in Data(n + 1)
    OBVIOUS
  <2>2. s \in Seq(1..MaxOps) /\ Len(s) <= n /\ Len(s) \in Nat
    BY LenProperties DEF Data
  <2>3. QED BY <2>2 DEF Data
<1>2. QED BY <1>1 DEF Held, PipeRec, JournalRec

LEMMA NextData ==
    ASSUME NEW n \in Nat, n + 1 <= MaxOps, NEW s \in Data(n)
    PROVE  Append(s, n + 1) \in Data(n + 1)
<1>1. MaxOps \in Nat
  BY NfcAssumption
<1>2. s \in Seq(1..MaxOps) /\ Len(s) <= n /\ Len(s) \in Nat
  BY LenProperties DEF Data
<1>3. n + 1 \in 1..MaxOps
  BY <1>1
<1>4. Append(s, n + 1) \in Seq(1..MaxOps) /\ Len(Append(s, n + 1)) = Len(s) + 1
  BY <1>2, <1>3, AppendProperties
<1>5. QED BY <1>2, <1>4 DEF Data

LEMMA FrontData == ASSUME NEW n \in Nat, NEW s \in Data(n) PROVE Front(s) \in Data(n)
<1>1. s \in Seq(1..MaxOps) /\ Len(s) <= n /\ Len(s) \in Nat
  BY LenProperties DEF Data
<1>2. Front(s) \in Seq(1..MaxOps) /\ Len(Front(s)) <= n
  <2>1. \A i \in 1..(Len(s) - 1) : s[i] \in 1..MaxOps
    <3>1. s \in [1..Len(s) -> 1..MaxOps]
      BY <1>1, LenProperties
    <3>2. QED BY <1>1, <3>1
  <2>2. /\ SubSeq(s, 1, Len(s) - 1) \in Seq(1..MaxOps)
        /\ Len(SubSeq(s, 1, Len(s) - 1)) = IF 1 <= Len(s) - 1 THEN Len(s) - 1 - 1 + 1 ELSE 0
    BY <1>1, <2>1, SubSeqProperties
  <2>3. QED BY <1>1, <2>2 DEF Front
<1>3. QED BY <1>2 DEF Data

(* A record of the number of operations is a well-typed state.             *)
LEMMA TypeIsOK == TypeInv => TypeOK
<1> SUFFICES ASSUME TypeInv PROVE TypeOK
  OBVIOUS
<1>1. Data(ops) \subseteq Contents
  BY DataIsContents DEF TypeInv, LimitsOK
<1>2. Held(ops) \subseteq CardData /\ JournalRec(ops) \subseteq WriteJournal
  BY <1>1 DEF Held, CardData, JournalRec, WriteJournal
<1>3. PipeRec(ops) \subseteq [kind: Kinds, step: Steps, card: Cards, data: Contents, aborted: BOOLEAN]
  BY <1>1 DEF PipeRec
<1>4. /\ phase \in [Devices -> {"idle", "scanning", "ready", "writing", "success", "error"}]
      /\ err \in [Devices -> {"none", "verify", "read", "other"}]
      /\ shown \in [Devices -> CardData \cup {NoCard}]
  BY <1>2 DEF TypeInv, ScreenOK, Phases, Errors
<1>5. /\ last \in [Devices -> Cards \cup {NoCard}]
      /\ {triggered, retry, inline, timer, autoReset} \subseteq [Devices -> BOOLEAN]
  BY DEF TypeInv, FlagsOK, ScreenOK
<1>6. pending \in [Devices -> CardData \cup {NoCard}]
  BY <1>2 DEF TypeInv, PendingOK
<1>7. \A d \in Devices : pipes[d] \subseteq
        [kind: Kinds, step: Steps, card: Cards, data: Contents, aborted: BOOLEAN]
  BY <1>3 DEF TypeInv, PipesOK
<1>8. journal \in [Devices -> [Cards -> WriteJournal \cup {NoCard}]]
  <2>1. JournalRec(ops) \cup {NoCard} \subseteq WriteJournal \cup {NoCard}
    BY <1>2
  <2>2. [Cards -> JournalRec(ops) \cup {NoCard}] \subseteq [Cards -> WriteJournal \cup {NoCard}]
    BY <2>1
  <2>3. QED BY <2>2 DEF TypeInv, JournalOK
<1>9. /\ \A d \in Devices : outbox[d] \subseteq CardData /\ txlog[d] \subseteq CardData
      /\ content \in [Cards -> Contents] /\ landed \subseteq CardData
  BY <1>1, <1>2 DEF TypeInv, BooksOK, WorldOK
<1>10. QED BY <1>4, <1>5, <1>6, <1>7, <1>8, <1>9 DEF TypeOK, TypeInv, LimitsOK

LEMMA InitType == Init => TypeInv
<1> SUFFICES ASSUME Init PROVE TypeInv
  OBVIOUS
<1>1. MaxOps \in Nat /\ ops = 0 /\ site \in Sites
  BY NfcAssumption DEF Init
<1>2. <<>> \in Data(0)
  BY DEF Data
<1>3. WorldOK
  BY <1>1, <1>2 DEF Init, WorldOK, Held
<1>4. ScreenOK /\ FlagsOK /\ PendingOK
  BY <1>1 DEF Init, ScreenOK, FlagsOK, PendingOK, Phases, Errors
<1>5. PipesOK /\ JournalOK /\ BooksOK
  BY <1>1 DEF Init, PipesOK, JournalOK, BooksOK
<1>6. QED BY <1>1, <1>3, <1>4, <1>5 DEF TypeInv, LimitsOK

-----------------------------------------------------------------------------
(* What the actions are made of keeps the types.                           *)
LEMMA ShowOK ==
    ASSUME ScreenOK, NEW d \in Devices, NEW ph \in Phases, NEW e \in Errors,
           NEW s \in Held(ops) \cup {NoCard}, ph = "ready" => s # NoCard,
           Show(d, ph, e, s), triggered' \in [Devices -> BOOLEAN], ops' = ops
    PROVE  ScreenOK'
<1>1. phase' = [phase EXCEPT ![d] = ph] /\ err' = [err EXCEPT ![d] = e] /\ shown' = [shown EXCEPT ![d] = s]
  BY DEF Show
<1>2. /\ phase' \in [Devices -> Phases] /\ err' \in [Devices -> Errors]
      /\ shown' \in [Devices -> Held(ops) \cup {NoCard}]
  BY <1>1 DEF ScreenOK
<1>3. \A x \in Devices : phase'[x] = "ready" => shown'[x] # NoCard
  BY <1>1 DEF ScreenOK
<1>4. QED BY <1>2, <1>3 DEF ScreenOK

LEMMA PipeRecs ==
    ASSUME NEW n \in Nat
    PROVE  /\ \A p \in PipeRec(n) : Of(p) \in Held(n)
           /\ \A p \in PipeRec(n), s \in Steps : [p EXCEPT !.step = s] \in PipeRec(n)
           /\ \A ps \in SUBSET PipeRec(n) : Aborted(ps) \in SUBSET PipeRec(n)
           /\ \A k \in Kinds, s \in Steps, w \in Held(n) : Fresh(k, s, w) \in PipeRec(n)
BY DEF PipeRec, Held, Of, Aborted, Fresh

(* What is found in the journal of a card.                                 *)
LEMMA JournalFound ==
    ASSUME JournalOK, NEW d \in Devices, NEW c \in Cards, PendingJournal(d, c) # NoCard
    PROVE  /\ journal[d][c] # NoCard /\ journal[d][c] \in JournalRec(ops)
           /\ journal[d][c].attempts < MaxAttempts
           /\ PendingJournal(d, c) = [card |-> c, data |-> journal[d][c].data]
           /\ PendingJournal(d, c) \in Held(ops)
<1>1. journal[d][c] # NoCard
  BY DEF PendingJournal
<1>2. journal[d][c] \in JournalRec(ops)
  BY <1>1 DEF JournalOK
<1>3. ~(journal[d][c].attempts >= MaxAttempts)
  BY <1>1 DEF PendingJournal
<1>4. PendingJournal(d, c) = [card |-> c, data |-> journal[d][c].data]
  BY <1>1, <1>3 DEF PendingJournal
<1>5. journal[d][c].attempts < MaxAttempts
  BY <1>2, <1>3, NfcAssumption DEF JournalRec
<1>6. QED BY <1>1, <1>2, <1>4, <1>5 DEF JournalRec, Held

(* The three writes of the journal.                                        *)
LEMMA JournalWritten ==
    ASSUME JournalOK, NEW d \in Devices, ops' = ops
    PROVE  /\ \A c \in Cards : ClearWriteJournal(d, c) => JournalOK'
           /\ \A p \in PipeRec(ops) : SaveWriteJournal(d, p) => JournalOK'
           /\ \A c \in Cards : PendingJournal(d, c) # NoCard /\ MarkJournalRecovering(d, c) => JournalOK'
<1>1. ASSUME NEW c \in Cards, NEW j \in JournalRec(ops) \cup {NoCard},
             journal' = [journal EXCEPT ![d][c] = j]
      PROVE  JournalOK'
  BY <1>1 DEF JournalOK
<1>2. ASSUME NEW c \in Cards, ClearWriteJournal(d, c)
      PROVE  JournalOK'
  BY <1>1, <1>2 DEF ClearWriteJournal
<1>3. ASSUME NEW p \in PipeRec(ops), SaveWriteJournal(d, p)
      PROVE  JournalOK'
  <2>1. p.card \in Cards /\ [data |-> p.data, attempts |-> 0] \in JournalRec(ops)
    BY NfcAssumption DEF PipeRec, JournalRec
  <2>2. QED BY <1>1, <1>3, <2>1 DEF SaveWriteJournal
<1>4. ASSUME NEW c \in Cards, PendingJournal(d, c) # NoCard, MarkJournalRecovering(d, c)
      PROVE  JournalOK'
  <2> DEFINE j == [journal[d][c] EXCEPT !.attempts = @ + 1]
  <2>1. j \in JournalRec(ops)
    BY <1>4, JournalFound, NfcAssumption DEF JournalRec
  <2>2. journal' = [journal EXCEPT ![d][c] = j]
    BY <1>4 DEF MarkJournalRecovering, JournalOK
  <2> HIDE DEF j
  <2>3. QED BY <1>1, <2>1, <2>2
<1>5. QED BY <1>2, <1>3, <1>4

-----------------------------------------------------------------------------
(* The types are kept, action by action.                                   *)
LEMMA ScanType ==
    ASSUME TypeInv, NEW d \in Devices, Scan(d) \/ RetryScan(d)
    PROVE  TypeInv'
<1>0. ScreenOK /\ FlagsOK /\ PendingOK /\ PipesOK /\ JournalOK /\ BooksOK /\ WorldOK /\ LimitsOK /\ ops \in Nat
  BY NfcAssumption DEF TypeInv, LimitsOK
<1>1. ASSUME NEW w \in Held(ops) \cup {NoCard}, StartScan(d, w), triggered' \in [Devices -> BOOLEAN],
             retry' \in [Devices -> BOOLEAN]
      PROVE  TypeInv'
  <2>1. UNCHANGED <<last, inline, journal, outbox, txlog, content, landed, ops, site>>
    BY <1>1 DEF StartScan, books, world, limits
  <2>2. Show(d, "scanning", "none", NoCard)
    BY <1>1 DEF StartScan
  <2>3. ScreenOK'
    BY <1>0, <1>1, <2>1, <2>2, ShowOK DEF Phases, Errors
  <2>4. FlagsOK'
    BY <1>0, <1>1, <2>1 DEF StartScan, FlagsOK
  <2>5. PendingOK'
    BY <1>0, <1>1, <2>1 DEF StartScan, PendingOK
  <2>6. PipesOK'
    <3>1. Aborted(pipes[d]) \in SUBSET PipeRec(ops) /\ pipes' = [pipes EXCEPT ![d] = Aborted(pipes[d])]
      BY <1>0, <1>1, PipeRecs DEF PipesOK, StartScan
    <3>2. QED BY <1>0, <2>1, <3>1 DEF PipesOK
  <2>7. JournalOK' /\ BooksOK' /\ WorldOK' /\ LimitsOK'
    BY <1>0, <2>1 DEF JournalOK, BooksOK, WorldOK, LimitsOK
  <2>8. QED BY <2>3, <2>4, <2>5, <2>6, <2>7 DEF TypeInv
<1>2. CASE Scan(d)
  <2>1. pending[d] \in Held(ops) \cup {NoCard}
    BY <1>0 DEF PendingOK
  <2>2. QED BY <1>0, <1>1, <1>2, <2>1 DEF Scan, ScreenOK, FlagsOK
<1>3. CASE RetryScan(d)
  <2> DEFINE w == IF last[d] = NoCard THEN NoCard ELSE PendingJournal(d, last[d])
             v == IF w # NoCard THEN w ELSE pending[d]
  <2>1. w \in Held(ops) \cup {NoCard}
    BY <1>0, JournalFound DEF FlagsOK
  <2>2. v \in Held(ops) \cup {NoCard}
    BY <1>0, <2>1 DEF PendingOK
  <2>3. StartScan(d, v)
    BY <1>3 DEF RetryScan
  <2>4. triggered' \in [Devices -> BOOLEAN] /\ retry' \in [Devices -> BOOLEAN]
    BY <1>0, <1>3 DEF RetryScan, ScreenOK, FlagsOK
  <2> HIDE DEF v
  <2>5. QED BY <1>1, <2>2, <2>3, <2>4
<1>4. QED BY <1>2, <1>3

(* The pieces of a reading.                                                *)
LEMMA StartPipeType ==
    ASSUME TypeInv, NEW d \in Devices, NEW p \in PipeRec(ops), StartPipe(d, p), ops' = ops,
           triggered' = triggered
    PROVE  PipesOK' /\ ScreenOK' /\ inline' \in [Devices -> BOOLEAN]
<1>0. ScreenOK /\ FlagsOK /\ PipesOK /\ ops \in Nat
  BY NfcAssumption DEF TypeInv, LimitsOK
<1>1. [card |-> p.card, data |-> Front(p.data)] \in Held(ops)
  BY <1>0, FrontData DEF PipeRec, Held
<1>2. ScreenOK'
  BY <1>0, <1>1, ShowOK DEF StartPipe, Phases, Errors, ScreenOK
<1>3. PipesOK'
  BY <1>0 DEF StartPipe, PipesOK
<1>4. QED BY <1>0, <1>2, <1>3 DEF StartPipe, FlagsOK

LEMMA DropType ==
    ASSUME PendingOK, FlagsOK, NEW d \in Devices, NEW c \in Cards, DropPending(d, c), ops' = ops
    PROVE  PendingOK' /\ timer' \in [Devices -> BOOLEAN]
<1>1. pending' = [pending EXCEPT ![d] = NoCard]
  BY DEF DropPending
<1>2. timer' = [timer EXCEPT ![d] = @ /\ pending[d] = NoCard]
  BY DEF DropPending
<1>3. QED BY <1>1, <1>2 DEF PendingOK, FlagsOK

LEMMA TapType ==
    ASSUME TypeInv, NEW d \in Devices, NEW c \in Cards,
           TapPending(d) \/ TapRecover(d, c) \/ TapReady(d, c)
    PROVE  TypeInv'
<1>0. ScreenOK /\ FlagsOK /\ PendingOK /\ PipesOK /\ JournalOK /\ BooksOK /\ WorldOK /\ LimitsOK /\ ops \in Nat
  BY NfcAssumption DEF TypeInv, LimitsOK
<1>1. CASE TapPending(d)
  <2>1. /\ UNCHANGED <<triggered, last, retry, autoReset, journal, outbox, txlog, content, landed, ops, site>>
        /\ pending[d] # NoCard /\ pending' = [pending EXCEPT ![d] = NoCard]
        /\ timer' = [timer EXCEPT ![d] = FALSE]
        /\ StartPipe(d, Fresh("pending", "write", pending[d]))
    BY <1>1 DEF TapPending, ClearPendingWriteTimeout, books, world, limits
  <2>2. Fresh("pending", "write", pending[d]) \in PipeRec(ops)
    BY <1>0, <2>1, PipeRecs DEF PendingOK, Kinds, Steps
  <2>3. PipesOK' /\ ScreenOK' /\ inline' \in [Devices -> BOOLEAN]
    BY <2>1, <2>2, StartPipeType
  <2>4. FlagsOK'
    BY <1>0, <2>1, <2>3 DEF FlagsOK
  <2>5. PendingOK' /\ JournalOK' /\ BooksOK' /\ WorldOK' /\ LimitsOK'
    BY <1>0, <2>1 DEF PendingOK, JournalOK, BooksOK, WorldOK, LimitsOK
  <2>6. QED BY <2>3, <2>4, <2>5 DEF TypeInv
<1>2. CASE TapRecover(d, c)
  <2> DEFINE w == PendingJournal(d, c)
  <2>1. /\ UNCHANGED <<triggered, last, autoReset, outbox, txlog, content, landed, ops, site>>
        /\ w # NoCard /\ retry' = [retry EXCEPT ![d] = FALSE]
        /\ DropPending(d, c) /\ MarkJournalRecovering(d, c) /\ StartPipe(d, Fresh("recover", "write", w))
    BY <1>2 DEF TapRecover, WritesAgain, books, world, limits
  <2>2. w \in Held(ops)
    BY <1>0, <2>1, JournalFound
  <2> HIDE DEF w
  <2>3. Fresh("recover", "write", w) \in PipeRec(ops)
    BY <1>0, <2>2, PipeRecs DEF Kinds, Steps
  <2>4. PipesOK' /\ ScreenOK' /\ inline' \in [Devices -> BOOLEAN]
    BY <2>1, <2>3, StartPipeType
  <2>5. PendingOK' /\ timer' \in [Devices -> BOOLEAN]
    BY <1>0, <2>1, DropType
  <2>6. JournalOK'
    BY <1>0, <2>1, JournalWritten DEF w
  <2>7. FlagsOK'
    BY <1>0, <2>1, <2>4, <2>5 DEF FlagsOK
  <2>8. BooksOK' /\ WorldOK' /\ LimitsOK'
    BY <1>0, <2>1 DEF BooksOK, WorldOK, LimitsOK
  <2>9. QED BY <2>4, <2>5, <2>6, <2>7, <2>8 DEF TypeInv
<1>3. CASE TapReady(d, c)
  <2>1. /\ UNCHANGED <<triggered, last, inline, autoReset, pipes, outbox, txlog, content, landed, ops, site>>
        /\ retry' = [retry EXCEPT ![d] = FALSE] /\ DropPending(d, c)
        /\ ClearWriteJournal(d, c) \/ journal' = journal
        /\ Show(d, "ready", "none", [card |-> c, data |-> content[c]])
    BY <1>3 DEF TapReady, books, world, limits
  <2>2. PendingOK' /\ timer' \in [Devices -> BOOLEAN]
    BY <1>0, <2>1, DropType
  <2>3. JournalOK'
    BY <1>0, <2>1, JournalWritten DEF JournalOK
  <2>4. [card |-> c, data |-> content[c]] \in Held(ops) /\ [card |-> c, data |-> content[c]] # NoCard
    <3>1. [card |-> c, data |-> content[c]] \in Held(ops)
      BY <1>0 DEF WorldOK, Held
    <3>2. Held(ops) \subseteq CardData
      BY <1>0, DataIsContents DEF Held, CardData, LimitsOK
    <3>3. QED BY <3>1, <3>2, NoCardAssumption
  <2>5. ScreenOK'
    BY <1>0, <2>1, <2>4, ShowOK DEF Phases, Errors, ScreenOK
  <2>6. FlagsOK'
    BY <1>0, <2>1, <2>2 DEF FlagsOK
  <2>7. PipesOK' /\ BooksOK' /\ WorldOK' /\ LimitsOK'
    BY <1>0, <2>1 DEF PipesOK, BooksOK, WorldOK, LimitsOK
  <2>8. QED BY <2>2, <2>3, <2>5, <2>6, <2>7 DEF TypeInv
<1>4. QED BY <1>1, <1>2, <1>3

LEMMA OtherTapType ==
    ASSUME TypeInv, NEW d \in Devices,
           \/ \E c \in Cards, e \in {"read", "other"} : TapUnreadable(d, c, e)
           \/ ReadingError(d) \/ Write(d)
    PROVE  TypeInv'
<1>0. ScreenOK /\ FlagsOK /\ PendingOK /\ PipesOK /\ JournalOK /\ BooksOK /\ WorldOK /\ LimitsOK /\ ops \in Nat
  BY NfcAssumption DEF TypeInv, LimitsOK
<1>1. ASSUME NEW c \in Cards, NEW e \in {"read", "other"}, TapUnreadable(d, c, e)
      PROVE  TypeInv'
  <2>1. /\ UNCHANGED <<triggered, last, inline, pipes, journal, outbox, txlog, content, landed, ops, site>>
        /\ retry' \in {retry, [retry EXCEPT ![d] = FALSE]} /\ DropPending(d, c)
        /\ Show(d, "error", e, NoCard) /\ autoReset' = [autoReset EXCEPT ![d] = @ \/ e = "read"]
    BY <1>1 DEF TapUnreadable, books, world, limits
  <2>2. PendingOK' /\ timer' \in [Devices -> BOOLEAN]
    BY <1>0, <2>1, DropType
  <2>3. ScreenOK'
    BY <1>0, <2>1, ShowOK DEF Phases, Errors, ScreenOK
  <2>4. retry' \in [Devices -> BOOLEAN] /\ autoReset' \in [Devices -> BOOLEAN]
    BY <1>0, <2>1 DEF FlagsOK
  <2>5. FlagsOK'
    BY <1>0, <2>1, <2>2, <2>4 DEF FlagsOK
  <2>6. PipesOK' /\ JournalOK' /\ BooksOK' /\ WorldOK' /\ LimitsOK'
    BY <1>0, <2>1 DEF PipesOK, JournalOK, BooksOK, WorldOK, LimitsOK
  <2>7. QED BY <2>2, <2>3, <2>5, <2>6 DEF TypeInv
<1>2. CASE ReadingError(d)
  <2>1. /\ UNCHANGED <<triggered, last, retry, inline, pending, timer, autoReset, pipes, journal, outbox, txlog,
                       content, landed, ops, site>>
        /\ Show(d, "error", "other", shown[d])
    BY <1>2 DEF ReadingError, refs, books, world, limits
  <2>2. ScreenOK'
    BY <1>0, <2>1, ShowOK DEF Phases, Errors, ScreenOK
  <2>3. FlagsOK' /\ PendingOK' /\ PipesOK' /\ JournalOK' /\ BooksOK' /\ WorldOK' /\ LimitsOK'
    BY <1>0, <2>1 DEF FlagsOK, PendingOK, PipesOK, JournalOK, BooksOK, WorldOK, LimitsOK
  <2>4. QED BY <2>2, <2>3 DEF TypeInv
<1>3. CASE Write(d)
  <2> DEFINE w == [card |-> shown[d].card, data |-> Append(shown[d].data, ops + 1)]
  <2>1. /\ UNCHANGED <<err, shown, last, retry, inline, pending, timer, autoReset, journal, outbox, txlog,
                       content, landed, site>>
        /\ phase[d] = "ready" /\ phase' = [phase EXCEPT ![d] = "writing"]
        /\ triggered' = [triggered EXCEPT ![d] = TRUE]
        /\ ops < site.ops /\ ops' = ops + 1
        /\ pipes' = [pipes EXCEPT ![d] = @ \cup {Fresh("inline", "save", w)}]
    BY <1>3 DEF Write, refs, books, world
  <2>2. ops + 1 <= MaxOps /\ LimitsOK'
    BY <1>0, <2>1, NfcAssumption DEF LimitsOK
  <2>3. shown[d] \in Held(ops)
    BY <1>0, <2>1 DEF ScreenOK
  <2>4. w \in Held(ops + 1)
    BY <1>0, <2>2, <2>3, NextData DEF Held
  <2> HIDE DEF w
  <2>5. Fresh("inline", "save", w) \in PipeRec(ops + 1)
    BY <1>0, <2>4, PipeRecs DEF Kinds, Steps
  <2>6. /\ Data(ops) \subseteq Data(ops + 1) /\ Held(ops) \subseteq Held(ops + 1)
        /\ PipeRec(ops) \subseteq PipeRec(ops + 1) /\ JournalRec(ops) \subseteq JournalRec(ops + 1)
    BY <1>0, DataGrows
  <2>7. PipesOK'
    BY <1>0, <2>1, <2>5, <2>6 DEF PipesOK
  <2>8. ScreenOK'
    <3>1. shown' \in [Devices -> Held(ops') \cup {NoCard}]
      BY <1>0, <2>1, <2>6 DEF ScreenOK
    <3>2. phase' \in [Devices -> Phases] /\ triggered' \in [Devices -> BOOLEAN] /\ err' \in [Devices -> Errors]
      BY <1>0, <2>1 DEF ScreenOK, Phases
    <3>3. \A x \in Devices : phase'[x] = "ready" => shown'[x] # NoCard
      BY <1>0, <2>1 DEF ScreenOK
    <3>4. QED BY <3>1, <3>2, <3>3 DEF ScreenOK
  <2>9. JournalOK'
    <3>1. [Cards -> JournalRec(ops) \cup {NoCard}] \subseteq [Cards -> JournalRec(ops + 1) \cup {NoCard}]
      BY <2>6
    <3>2. QED BY <1>0, <2>1, <3>1 DEF JournalOK
  <2>10. PendingOK' /\ BooksOK' /\ WorldOK'
    BY <1>0, <2>1, <2>6 DEF PendingOK, BooksOK, WorldOK
  <2>11. FlagsOK'
    BY <1>0, <2>1 DEF FlagsOK
  <2>12. QED BY <2>2, <2>7, <2>8, <2>9, <2>10, <2>11 DEF TypeInv
<1>4. QED BY <1>1, <1>2, <1>3

(* The pieces of a pipeline.                                               *)
LEMMA PutType ==
    ASSUME WorldOK, NEW p \in PipeRec(ops), PutOnCard(p), ops' = ops, ops \in Nat
    PROVE  WorldOK'
<1>1. p.card \in Cards /\ p.data \in Data(ops) /\ Of(p) \in Held(ops)
  BY PipeRecs DEF PipeRec
<1>2. content' = [content EXCEPT ![p.card] = p.data] /\ landed' = landed \cup {Of(p)}
  BY DEF PutOnCard
<1>3. QED BY <1>1, <1>2 DEF WorldOK

LEMMA AdvanceType ==
    ASSUME PipesOK, NEW d \in Devices, NEW p \in pipes[d], NEW s \in Steps, Advance(d, p, s), ops' = ops, ops \in Nat
    PROVE  PipesOK'
<1>1. p \in PipeRec(ops)
  BY DEF PipesOK
<1>2. [p EXCEPT !.step = s] \in PipeRec(ops)
  BY <1>1, PipeRecs
<1>3. QED BY <1>2 DEF Advance, PipesOK

LEMMA DeferType ==
    ASSUME PipesOK, PendingOK, FlagsOK, NEW d \in Devices, NEW p \in pipes[d], Defer(d, p), ops' = ops, ops \in Nat
    PROVE  PipesOK' /\ PendingOK' /\ timer' \in [Devices -> BOOLEAN]
<1>1. Of(p) \in Held(ops)
  BY PipeRecs DEF PipesOK
<1>2. QED BY <1>1 DEF Defer, PipesOK, PendingOK, FlagsOK

LEMMA ThrowType ==
    ASSUME PipesOK, PendingOK, FlagsOK, ScreenOK, NEW d \in Devices, NEW p \in pipes[d], NEW e \in Errors,
           Throw(d, p, e), ops' = ops
    PROVE  PipesOK' /\ PendingOK' /\ FlagsOK' /\ ScreenOK'
<1>1. /\ UNCHANGED <<triggered, last, retry, pending, timer, autoReset>>
      /\ pipes' = [pipes EXCEPT ![d] = @ \ {p}] /\ inline' = [inline EXCEPT ![d] = FALSE]
  BY DEF Throw
<1>2. PipesOK' /\ PendingOK' /\ FlagsOK'
  BY <1>1 DEF PipesOK, PendingOK, FlagsOK
<1>3. Show(d, "error", e, shown[d]) => ScreenOK'
  BY <1>1, ShowOK DEF Phases, ScreenOK
<1>4. UNCHANGED <<phase, err, shown>> => ScreenOK'
  BY <1>1 DEF ScreenOK
<1>5. ScreenOK'
  BY <1>3, <1>4 DEF Throw
<1>6. QED BY <1>2, <1>5

(* What one pipeline of a device may do next.                              *)
PipeStep(d, p) ==
    \/ Save(d, p, TRUE)
    \/ site.saveMayFail /\ Save(d, p, FALSE)
    \/ Land(d, p) \/ \E landing \in BOOLEAN : WriteFails(d, p, landing)
    \/ Verify(d, p) \/ \E e \in {"verify", "other"} : Fail(d, p, e)
    \/ Record(d, p) \/ Finish(d, p)

LEMMA PipeSteps ==
    ASSUME NEW d \in Devices, Pipeline(d)
    PROVE  \E p \in pipes[d] : PipeStep(d, p)
BY DEF Pipeline, PipeStep

LEMMA PipelineType ==
    ASSUME TypeInv, NEW d \in Devices, Pipeline(d)
    PROVE  TypeInv'
<1>0. ScreenOK /\ FlagsOK /\ PendingOK /\ PipesOK /\ JournalOK /\ BooksOK /\ WorldOK /\ LimitsOK /\ ops \in Nat
  BY NfcAssumption DEF TypeInv, LimitsOK
<1>a. PICK p \in pipes[d] : PipeStep(d, p)
  BY PipeSteps
<1>p. p \in PipeRec(ops) /\ p.card \in Cards /\ Of(p) \in Held(ops)
  BY <1>0, PipeRecs DEF PipesOK, PipeRec
<1>s. {"write", "rewrite", "verify", "record", "clear"} \subseteq Steps
  BY DEF Steps
<1>1. ASSUME NEW saved \in BOOLEAN, Save(d, p, saved)
      PROVE  TypeInv'
  <2>1. /\ UNCHANGED <<phase, err, shown, triggered, retry, autoReset, outbox, txlog, content, landed, ops, site>>
        /\ last' = [last EXCEPT ![d] = p.card] /\ (SaveWriteJournal(d, p) \/ journal' = journal)
        /\ \/ Defer(d, p) /\ inline' = inline
           \/ Advance(d, p, "write") /\ inline' = [inline EXCEPT ![d] = TRUE] /\ UNCHANGED <<pending, timer>>
    BY <1>1 DEF Save, screen, books, world, limits
  <2>2. JournalOK'
    BY <1>0, <1>p, <2>1, JournalWritten DEF JournalOK
  <2>3. PipesOK' /\ PendingOK' /\ timer' \in [Devices -> BOOLEAN]
    <3>1. CASE Defer(d, p)
      BY <1>0, <2>1, <3>1, DeferType
    <3>2. CASE Advance(d, p, "write") /\ UNCHANGED <<pending, timer>>
      BY <1>0, <1>s, <2>1, <3>2, AdvanceType DEF PendingOK, FlagsOK
    <3>3. QED BY <2>1, <3>1, <3>2
  <2>4. inline' \in [Devices -> BOOLEAN]
    BY <1>0, <2>1 DEF FlagsOK
  <2>5. FlagsOK'
    BY <1>0, <1>p, <2>1, <2>3, <2>4 DEF FlagsOK
  <2>6. ScreenOK' /\ BooksOK' /\ WorldOK' /\ LimitsOK'
    BY <1>0, <2>1 DEF ScreenOK, BooksOK, WorldOK, LimitsOK
  <2>7. QED BY <2>2, <2>3, <2>5, <2>6 DEF TypeInv
<1>2. CASE Land(d, p)
  <2>1. /\ UNCHANGED <<phase, err, shown, triggered, last, retry, inline, pending, timer, autoReset, journal,
                       outbox, txlog, ops, site>>
        /\ PutOnCard(p) /\ Advance(d, p, "verify")
    BY <1>2 DEF Land, screen, refs, books, limits
  <2>2. PipesOK' /\ WorldOK'
    BY <1>0, <1>p, <1>s, <2>1, PutType, AdvanceType
  <2>3. ScreenOK' /\ FlagsOK' /\ PendingOK' /\ JournalOK' /\ BooksOK' /\ LimitsOK'
    BY <1>0, <2>1 DEF ScreenOK, FlagsOK, PendingOK, JournalOK, BooksOK, LimitsOK
  <2>4. QED BY <2>2, <2>3 DEF TypeInv
<1>3. ASSUME NEW landing \in BOOLEAN, WriteFails(d, p, landing)
      PROVE  TypeInv'
  <2>1. UNCHANGED <<journal, outbox, txlog, ops, site>> /\ (PutOnCard(p) \/ UNCHANGED <<content, landed>>)
    BY <1>3 DEF WriteFails, books, limits, world
  <2>2. WorldOK'
    <3>1. CASE PutOnCard(p)
      BY <1>0, <1>p, <2>1, <3>1, PutType
    <3>2. CASE UNCHANGED <<content, landed>>
      BY <1>0, <2>1, <3>2 DEF WorldOK
    <3>3. QED BY <2>1, <3>1, <3>2
  <2>3. JournalOK' /\ BooksOK' /\ LimitsOK'
    BY <1>0, <2>1 DEF JournalOK, BooksOK, LimitsOK
  <2>4. PipesOK' /\ PendingOK' /\ FlagsOK' /\ ScreenOK'
    <3>1. CASE Defer(d, p) /\ inline' = [inline EXCEPT ![d] = FALSE] /\ UNCHANGED <<screen, last, retry, autoReset>>
      <4>1. PipesOK' /\ PendingOK' /\ timer' \in [Devices -> BOOLEAN]
        BY <1>0, <2>1, <3>1, DeferType
      <4>2. FlagsOK' /\ ScreenOK'
        BY <1>0, <2>1, <3>1, <4>1 DEF FlagsOK, ScreenOK, screen
      <4>3. QED BY <4>1, <4>2
    <3>2. CASE Advance(d, p, "rewrite") /\ UNCHANGED <<screen, refs>>
      <4>1. PipesOK'
        BY <1>0, <1>s, <2>1, <3>2, AdvanceType
      <4>2. PendingOK' /\ FlagsOK' /\ ScreenOK'
        BY <1>0, <2>1, <3>2 DEF PendingOK, FlagsOK, ScreenOK, screen, refs
      <4>3. QED BY <4>1, <4>2
    <3>3. CASE Throw(d, p, "other")
      BY <1>0, <2>1, <3>3, ThrowType DEF Errors
    <3>4. QED BY <1>3, <3>1, <3>2, <3>3 DEF WriteFails
  <2>5. QED BY <2>2, <2>3, <2>4 DEF TypeInv
<1>4. CASE Verify(d, p)
  <2>1. /\ UNCHANGED <<phase, err, shown, triggered, last, retry, inline, pending, timer, autoReset, journal,
                       outbox, txlog, content, landed, ops, site>>
        /\ Advance(d, p, "record")
    BY <1>4 DEF Verify, screen, refs, books, world, limits
  <2>2. PipesOK'
    BY <1>0, <1>s, <2>1, AdvanceType
  <2>3. ScreenOK' /\ FlagsOK' /\ PendingOK' /\ JournalOK' /\ BooksOK' /\ WorldOK' /\ LimitsOK'
    BY <1>0, <2>1 DEF ScreenOK, FlagsOK, PendingOK, JournalOK, BooksOK, WorldOK, LimitsOK
  <2>4. QED BY <2>2, <2>3 DEF TypeInv
<1>5. ASSUME NEW e \in {"verify", "other"}, Fail(d, p, e)
      PROVE  TypeInv'
  <2>1. UNCHANGED <<journal, outbox, txlog, content, landed, ops, site>> /\ Throw(d, p, e)
    BY <1>5 DEF Fail, books, world, limits
  <2>2. PipesOK' /\ PendingOK' /\ FlagsOK' /\ ScreenOK'
    BY <1>0, <2>1, ThrowType DEF Errors
  <2>3. JournalOK' /\ BooksOK' /\ WorldOK' /\ LimitsOK'
    BY <1>0, <2>1 DEF JournalOK, BooksOK, WorldOK, LimitsOK
  <2>4. QED BY <2>2, <2>3 DEF TypeInv
<1>6. CASE Record(d, p)
  <2>1. /\ UNCHANGED <<phase, err, shown, triggered, last, retry, inline, pending, timer, autoReset, journal,
                       content, landed, ops, site>>
        /\ Advance(d, p, "clear")
        /\ outbox' = [outbox EXCEPT ![d] = {x \in @ : ~SameKey(x, p)} \cup {Of(p)}]
        /\ txlog' = [txlog EXCEPT ![d] = IF \E x \in @ : SameKey(x, p) THEN @ ELSE @ \cup {Of(p)}]
    BY <1>6 DEF Record, screen, refs, world, limits
  <2>2. PipesOK'
    BY <1>0, <1>s, <2>1, AdvanceType
  <2>3. BooksOK'
    BY <1>0, <1>p, <2>1 DEF BooksOK
  <2>4. ScreenOK' /\ FlagsOK' /\ PendingOK' /\ JournalOK' /\ WorldOK' /\ LimitsOK'
    BY <1>0, <2>1 DEF ScreenOK, FlagsOK, PendingOK, JournalOK, WorldOK, LimitsOK
  <2>5. QED BY <2>2, <2>3, <2>4 DEF TypeInv
<1>7. CASE Finish(d, p)
  <2>1. /\ UNCHANGED <<triggered, last, retry, pending, timer, autoReset, outbox, txlog, content, landed, ops, site>>
        /\ ClearWriteJournal(d, p.card) /\ pipes' = [pipes EXCEPT ![d] = @ \ {p}]
        /\ inline' = [inline EXCEPT ![d] = FALSE] /\ Show(d, "success", "none", Of(p))
    BY <1>7 DEF Finish, books, world, limits
  <2>2. ScreenOK'
    BY <1>0, <1>p, <2>1, ShowOK DEF Phases, Errors, ScreenOK
  <2>3. JournalOK'
    BY <1>0, <1>p, <2>1, JournalWritten
  <2>4. PipesOK' /\ FlagsOK' /\ PendingOK' /\ BooksOK' /\ WorldOK' /\ LimitsOK'
    BY <1>0, <2>1 DEF PipesOK, FlagsOK, PendingOK, BooksOK, WorldOK, LimitsOK
  <2>5. QED BY <2>2, <2>3, <2>4 DEF TypeInv
<1>8. QED BY <1>a, <1>1, <1>2, <1>3, <1>4, <1>5, <1>6, <1>7 DEF PipeStep

LEMMA EndType ==
    ASSUME TypeInv, NEW d \in Devices,
           \/ PendingTimeout(d) \/ AutoReset(d) \/ TeardownSession(d) \/ Crash(d)
           \/ \E c \in Cards : JournalExpires(d, c)
    PROVE  TypeInv'
<1>0. ScreenOK /\ FlagsOK /\ PendingOK /\ PipesOK /\ JournalOK /\ BooksOK /\ WorldOK /\ LimitsOK /\ ops \in Nat
  BY NfcAssumption DEF TypeInv, LimitsOK
<1>1. CASE PendingTimeout(d)
  <2>1. /\ UNCHANGED <<triggered, last, retry, inline, pipes, journal, outbox, txlog, content, landed, ops, site>>
        /\ pending' = [pending EXCEPT ![d] = NoCard] /\ timer' = [timer EXCEPT ![d] = FALSE]
        /\ autoReset' = [autoReset EXCEPT ![d] = TRUE] /\ Show(d, "error", "other", shown[d])
    BY <1>1 DEF PendingTimeout, ClearPendingWriteTimeout, books, world, limits
  <2>2. ScreenOK'
    BY <1>0, <2>1, ShowOK DEF Phases, Errors, ScreenOK
  <2>3. FlagsOK' /\ PendingOK' /\ PipesOK' /\ JournalOK' /\ BooksOK' /\ WorldOK' /\ LimitsOK'
    BY <1>0, <2>1 DEF PipesOK, FlagsOK, PendingOK, JournalOK, BooksOK, WorldOK, LimitsOK
  <2>4. QED BY <2>2, <2>3 DEF TypeInv
<1>2. CASE AutoReset(d)
  <2>1. /\ UNCHANGED <<last, retry, inline, pending, timer, pipes, journal, outbox, txlog, content, landed, ops, site>>
        /\ triggered' = [triggered EXCEPT ![d] = FALSE]
        /\ autoReset' = [autoReset EXCEPT ![d] = FALSE] /\ Show(d, "idle", "none", NoCard)
    BY <1>2 DEF AutoReset, books, world, limits
  <2>2. ScreenOK'
    BY <1>0, <2>1, ShowOK DEF Phases, Errors, ScreenOK
  <2>3. FlagsOK' /\ PendingOK' /\ PipesOK' /\ JournalOK' /\ BooksOK' /\ WorldOK' /\ LimitsOK'
    BY <1>0, <2>1 DEF PipesOK, FlagsOK, PendingOK, JournalOK, BooksOK, WorldOK, LimitsOK
  <2>4. QED BY <2>2, <2>3 DEF TypeInv
<1>3. CASE TeardownSession(d)
  <2> DEFINE c == IF shown[d] # NoCard THEN shown[d].card ELSE last[d]
  <2>1. /\ UNCHANGED <<retry, outbox, txlog, content, landed, ops, site>>
        /\ pipes' = [pipes EXCEPT ![d] = Aborted(@)]
        /\ journal' = journal \/ (c # NoCard /\ ClearWriteJournal(d, c))
        /\ pending' = [pending EXCEPT ![d] = NoCard] /\ inline' = [inline EXCEPT ![d] = FALSE]
        /\ last' = [last EXCEPT ![d] = NoCard] /\ timer' = [timer EXCEPT ![d] = FALSE]
        /\ autoReset' = [autoReset EXCEPT ![d] = FALSE] /\ triggered' = [triggered EXCEPT ![d] = FALSE]
        /\ Show(d, "idle", "none", NoCard)
    BY <1>3 DEF TeardownSession, ClearPendingWriteTimeout, books, world, limits
  <2>2. ScreenOK'
    BY <1>0, <2>1, ShowOK DEF Phases, Errors, ScreenOK
  <2>3. c \in Cards \cup {NoCard}
    BY <1>0 DEF ScreenOK, Held, FlagsOK
  <2> HIDE DEF c
  <2>4. JournalOK'
    BY <1>0, <2>1, <2>3, JournalWritten DEF JournalOK
  <2>5. PipesOK'
    <3>1. Aborted(pipes[d]) \in SUBSET PipeRec(ops)
      BY <1>0, PipeRecs DEF PipesOK
    <3>2. QED BY <1>0, <2>1, <3>1 DEF PipesOK
  <2>6. FlagsOK'
    BY <1>0, <2>1 DEF FlagsOK
  <2>7. PendingOK' /\ BooksOK' /\ WorldOK' /\ LimitsOK'
    BY <1>0, <2>1 DEF PendingOK, BooksOK, WorldOK, LimitsOK
  <2>8. QED BY <2>2, <2>4, <2>5, <2>6, <2>7 DEF TypeInv
<1>4. CASE Crash(d)
  <2>1. /\ UNCHANGED <<journal, outbox, txlog, content, landed, ops, site>>
        /\ pipes' = [pipes EXCEPT ![d] = {}] /\ Show(d, "idle", "none", NoCard)
        /\ triggered' = [triggered EXCEPT ![d] = FALSE] /\ last' = [last EXCEPT ![d] = NoCard]
        /\ retry' = [retry EXCEPT ![d] = FALSE] /\ inline' = [inline EXCEPT ![d] = FALSE]
        /\ pending' = [pending EXCEPT ![d] = NoCard] /\ timer' = [timer EXCEPT ![d] = FALSE]
        /\ autoReset' = [autoReset EXCEPT ![d] = FALSE]
    BY <1>4 DEF Crash, books, world, limits
  <2>2. ScreenOK'
    BY <1>0, <2>1, ShowOK DEF Phases, Errors, ScreenOK
  <2>3. FlagsOK'
    BY <1>0, <2>1 DEF FlagsOK
  <2>4. PendingOK' /\ PipesOK' /\ JournalOK' /\ BooksOK' /\ WorldOK' /\ LimitsOK'
    BY <1>0, <2>1 DEF PipesOK, PendingOK, JournalOK, BooksOK, WorldOK, LimitsOK
  <2>5. QED BY <2>2, <2>3, <2>4 DEF TypeInv
<1>5. ASSUME NEW c \in Cards, JournalExpires(d, c)
      PROVE  TypeInv'
  <2>1. /\ UNCHANGED <<phase, err, shown, triggered, last, retry, inline, pending, timer, autoReset, pipes,
                       outbox, txlog, content, landed, ops, site>>
        /\ ClearWriteJournal(d, c)
    BY <1>5 DEF JournalExpires, screen, refs, books, world, limits
  <2>2. JournalOK'
    BY <1>0, <2>1, JournalWritten
  <2>3. ScreenOK' /\ FlagsOK' /\ PendingOK' /\ PipesOK' /\ BooksOK' /\ WorldOK' /\ LimitsOK'
    BY <1>0, <2>1 DEF ScreenOK, FlagsOK, PendingOK, PipesOK, BooksOK, WorldOK, LimitsOK
  <2>4. QED BY <2>2, <2>3 DEF TypeInv
<1>6. QED BY <1>1, <1>2, <1>3, <1>4, <1>5

-----------------------------------------------------------------------------
(* No phantom transactions.  What is recorded was verified on the card     *)
(* before, and everything ever on a card has landed.                       *)
Verified(ps) == \A p \in ps : p.step = "record" => Of(p) \in landed

PhantomInv ==
    /\ NoPhantom
    /\ \A d \in Devices : Verified(pipes[d])
    /\ \A c \in Cards : [card |-> c, data |-> content[c]] \in landed

LEMMA PhantomKept ==
    ASSUME TypeInv, PhantomInv, NEW d \in Devices, NEW ps, pipes' = [pipes EXCEPT ![d] = ps], Verified(ps),
           UNCHANGED <<outbox, txlog, content, landed>>
    PROVE  PhantomInv'
<1>1. \A x \in Devices : pipes'[x] = IF x = d THEN ps ELSE pipes[x]
  BY DEF TypeInv, PipesOK
<1>2. NoPhantom'
  BY DEF PhantomInv, NoPhantom
<1>3. ASSUME NEW x \in Devices
      PROVE  (Verified(pipes[x]))'
  <2>1. Verified(pipes'[x])
    BY <1>1 DEF PhantomInv
  <2>2. QED BY <2>1 DEF Verified
<1>4. \A c \in Cards : [card |-> c, data |-> content'[c]] \in landed'
  BY DEF PhantomInv
<1>5. QED BY <1>2, <1>3, <1>4 DEF PhantomInv

(* The steps in which nothing reaches a card or the books.                 *)
LEMMA PhantomQuiet ==
    ASSUME TypeInv, PhantomInv, UNCHANGED <<pipes, outbox, txlog, content, landed>>
    PROVE  PhantomInv'
BY DEF PhantomInv, NoPhantom, Verified

LEMMA PhantomOperate ==
    ASSUME TypeInv, PhantomInv, NEW d \in Devices, Operate(d) \/ PendingTimeout(d) \/ AutoReset(d)
    PROVE  PhantomInv'
<1>v. Verified(pipes[d])
  BY DEF PhantomInv
<1>a. Verified(Aborted(pipes[d]))
  <2>1. pipes[d] \subseteq PipeRec(ops)
    BY DEF TypeInv, PipesOK
  <2>2. SUFFICES ASSUME NEW p \in pipes[d], [p EXCEPT !.aborted = TRUE].step = "record"
                 PROVE  Of([p EXCEPT !.aborted = TRUE]) \in landed
    BY DEF Verified, Aborted
  <2>3. p.step = "record" /\ Of([p EXCEPT !.aborted = TRUE]) = Of(p)
    BY <2>1, <2>2 DEF PipeRec, Of
  <2>4. QED BY <1>v, <2>3 DEF Verified
<1>1. CASE Scan(d) \/ RetryScan(d) \/ TeardownSession(d)
  <2>1. pipes' = [pipes EXCEPT ![d] = Aborted(pipes[d])] /\ UNCHANGED <<outbox, txlog, content, landed>>
    BY <1>1 DEF Scan, RetryScan, StartScan, TeardownSession, books, world, TypeInv, PipesOK
  <2>2. QED BY <1>a, <2>1, PhantomKept
<1>2. ASSUME NEW k \in Kinds, NEW s \in {"save", "write"}, NEW w,
             pipes' = [pipes EXCEPT ![d] = pipes[d] \cup {Fresh(k, s, w)}],
             UNCHANGED <<outbox, txlog, content, landed>>
      PROVE  PhantomInv'
  <2>1. Fresh(k, s, w).step # "record"
    BY <1>2 DEF Fresh
  <2>2. Verified(pipes[d] \cup {Fresh(k, s, w)})
    BY <1>v, <2>1 DEF Verified
  <2>3. QED BY <1>2, <2>2, PhantomKept
<1>p. pipes \in [Devices -> SUBSET PipeRec(ops)] /\ {"inline", "pending", "recover"} = Kinds
  BY DEF TypeInv, PipesOK, Kinds
<1>t. CASE TapPending(d)
  <2>1. /\ pipes' = [pipes EXCEPT ![d] = pipes[d] \cup {Fresh("pending", "write", pending[d])}]
        /\ UNCHANGED <<outbox, txlog, content, landed>>
    BY <1>p, <1>t DEF TapPending, StartPipe, books, world
  <2>2. QED BY <1>2, <1>p, <2>1
<1>r. ASSUME NEW c \in Cards, TapRecover(d, c)
      PROVE  PhantomInv'
  <2>1. /\ pipes' = [pipes EXCEPT ![d] = pipes[d] \cup {Fresh("recover", "write", PendingJournal(d, c))}]
        /\ UNCHANGED <<outbox, txlog, content, landed>>
    BY <1>p, <1>r DEF TapRecover, StartPipe, books, world
  <2>2. QED BY <1>2, <1>p, <2>1
<1>w. CASE Write(d)
  <2> DEFINE w == [card |-> shown[d].card, data |-> Append(shown[d].data, ops + 1)]
  <2>1. /\ pipes' = [pipes EXCEPT ![d] = pipes[d] \cup {Fresh("inline", "save", w)}]
        /\ UNCHANGED <<outbox, txlog, content, landed>>
    BY <1>p, <1>w DEF Write, books, world
  <2> HIDE DEF w
  <2>2. QED BY <1>2, <1>p, <2>1
<1>3. CASE Crash(d)
  <2>1. pipes' = [pipes EXCEPT ![d] = {}] /\ UNCHANGED <<outbox, txlog, content, landed>>
    BY <1>3 DEF Crash, books, world
  <2>2. QED BY <2>1, PhantomKept DEF Verified
<1>4. CASE ReadingError(d) \/ PendingTimeout(d) \/ AutoReset(d)
  BY <1>4, PhantomQuiet DEF ReadingError, PendingTimeout, AutoReset, books, world
<1>5. ASSUME NEW c \in Cards,
             TapReady(d, c) \/ JournalExpires(d, c) \/ \E e \in {"read", "other"} : TapUnreadable(d, c, e)
      PROVE  PhantomInv'
  BY <1>5, PhantomQuiet DEF TapReady, JournalExpires, TapUnreadable, books, world
<1>6. site.cards \subseteq Cards
  BY NfcAssumption DEF TypeInv, LimitsOK
<1>7. QED BY <1>1, <1>3, <1>4, <1>5, <1>6, <1>t, <1>r, <1>w DEF Operate

LEMMA PhantomPipeline ==
    ASSUME TypeInv, PhantomInv, NEW d \in Devices, Pipeline(d)
    PROVE  PhantomInv'
<1>a. PICK p \in pipes[d] : PipeStep(d, p)
  BY PipeSteps
<1>p. /\ p \in PipeRec(ops) /\ pipes \in [Devices -> SUBSET PipeRec(ops)]
      /\ content \in [Cards -> Data(ops)]
      /\ outbox \in [Devices -> SUBSET Held(ops)] /\ txlog \in [Devices -> SUBSET Held(ops)]
  BY DEF TypeInv, PipesOK, WorldOK, BooksOK
<1>v. Verified(pipes[d]) /\ \A c \in Cards : [card |-> c, data |-> content[c]] \in landed
  BY DEF PhantomInv
<1>r. Verified(pipes[d] \ {p})
  BY <1>v DEF Verified
<1>s. ASSUME NEW s, s # "record" \/ Of(p) \in landed
      PROVE  Verified((pipes[d] \ {p}) \cup {[p EXCEPT !.step = s]})
  <2>1. [p EXCEPT !.step = s].step = s /\ Of([p EXCEPT !.step = s]) = Of(p)
    BY <1>p DEF PipeRec, Of
  <2>2. QED BY <1>r, <1>s, <2>1 DEF Verified
(* Something lands, and pipelines at most end or go on to another step     *)
(* than the record.                                                        *)
<1>l. ASSUME PutOnCard(p), UNCHANGED <<outbox, txlog>>, NEW ps, pipes' = [pipes EXCEPT ![d] = ps], Verified(ps)
      PROVE  PhantomInv'
  <2>1. content' = [content EXCEPT ![p.card] = p.data] /\ landed' = landed \cup {Of(p)}
    BY <1>l DEF PutOnCard
  <2>2. NoPhantom'
    BY <1>l, <2>1 DEF PhantomInv, NoPhantom
  <2>3. ASSUME NEW x \in Devices
        PROVE  (Verified(pipes[x]))'
    <3>1. pipes'[x] = IF x = d THEN ps ELSE pipes[x]
      BY <1>l, <1>p
    <3>2. Verified(pipes'[x])
      BY <1>l, <3>1 DEF PhantomInv
    <3>3. QED BY <2>1, <3>2 DEF Verified
  <2>4. ASSUME NEW c \in Cards
        PROVE  [card |-> c, data |-> content'[c]] \in landed'
    BY <1>p, <1>v, <2>1 DEF Of
  <2>5. QED BY <2>2, <2>3, <2>4 DEF PhantomInv
<1>q. ASSUME UNCHANGED <<outbox, txlog, content, landed>>, NEW ps, pipes' = [pipes EXCEPT ![d] = ps], Verified(ps)
      PROVE  PhantomInv'
  BY <1>q, PhantomKept
<1>1. ASSUME NEW saved \in BOOLEAN, Save(d, p, saved)
      PROVE  PhantomInv'
  <2>1. /\ UNCHANGED <<outbox, txlog, content, landed>>
        /\ \/ pipes' = [pipes EXCEPT ![d] = pipes[d] \ {p}]
           \/ pipes' = [pipes EXCEPT ![d] = (pipes[d] \ {p}) \cup {[p EXCEPT !.step = "write"]}]
    BY <1>1, <1>p DEF Save, Defer, Advance, books, world
  <2>2. QED BY <1>q, <1>r, <1>s, <2>1
<1>2. CASE Land(d, p)
  <2>1. /\ UNCHANGED <<outbox, txlog>> /\ PutOnCard(p)
        /\ pipes' = [pipes EXCEPT ![d] = (pipes[d] \ {p}) \cup {[p EXCEPT !.step = "verify"]}]
    BY <1>2, <1>p DEF Land, Advance, books
  <2>2. QED BY <1>l, <1>s, <2>1
<1>3. ASSUME NEW landing \in BOOLEAN, WriteFails(d, p, landing)
      PROVE  PhantomInv'
  <2>1. /\ UNCHANGED <<outbox, txlog>> /\ (PutOnCard(p) \/ UNCHANGED <<content, landed>>)
        /\ \/ pipes' = [pipes EXCEPT ![d] = pipes[d] \ {p}]
           \/ pipes' = [pipes EXCEPT ![d] = (pipes[d] \ {p}) \cup {[p EXCEPT !.step = "rewrite"]}]
    BY <1>3, <1>p DEF WriteFails, Defer, Advance, Throw, books, world
  <2>2. PICK ps : pipes' = [pipes EXCEPT ![d] = ps] /\ Verified(ps)
    BY <1>r, <1>s, <2>1
  <2>3. QED BY <1>l, <1>q, <2>1, <2>2
<1>4. CASE Verify(d, p)
  <2>1. /\ UNCHANGED <<outbox, txlog, content, landed>> /\ content[p.card] = p.data
        /\ pipes' = [pipes EXCEPT ![d] = (pipes[d] \ {p}) \cup {[p EXCEPT !.step = "record"]}]
    BY <1>4, <1>p DEF Verify, Advance, books, world
  <2>2. Of(p) \in landed
    BY <1>p, <1>v, <2>1 DEF Of, PipeRec
  <2>3. QED BY <1>q, <1>s, <2>1, <2>2
<1>5. ASSUME NEW e \in {"verify", "other"}, Fail(d, p, e)
      PROVE  PhantomInv'
  <2>1. UNCHANGED <<outbox, txlog, content, landed>> /\ pipes' = [pipes EXCEPT ![d] = pipes[d] \ {p}]
    BY <1>5, <1>p DEF Fail, Throw, books, world
  <2>2. QED BY <1>q, <1>r, <2>1
<1>6. CASE Record(d, p)
  <2>1. /\ p.step = "record" /\ UNCHANGED <<content, landed>>
        /\ pipes' = [pipes EXCEPT ![d] = (pipes[d] \ {p}) \cup {[p EXCEPT !.step = "clear"]}]
        /\ outbox' = [outbox EXCEPT ![d] = {x \in @ : ~SameKey(x, p)} \cup {Of(p)}]
        /\ txlog' = [txlog EXCEPT ![d] = IF \E x \in @ : SameKey(x, p) THEN @ ELSE @ \cup {Of(p)}]
    BY <1>6, <1>p DEF Record, Advance, world
  <2>2. Of(p) \in landed
    BY <1>v, <2>1 DEF Verified
  <2>3. \A x \in Devices : /\ outbox'[x] \subseteq outbox[x] \cup {Of(p)}
                         /\ txlog'[x] \subseteq txlog[x] \cup {Of(p)}
    BY <1>p, <2>1
  <2>4. NoPhantom'
    BY <2>1, <2>2, <2>3 DEF PhantomInv, NoPhantom
  <2>5. ASSUME NEW x \in Devices
        PROVE  (Verified(pipes[x]))'
    <3>1. Verified(pipes'[x])
      BY <1>p, <1>s, <2>1 DEF PhantomInv
    <3>2. QED BY <2>1, <3>1 DEF Verified
  <2>6. QED BY <1>v, <2>1, <2>4, <2>5 DEF PhantomInv
<1>7. CASE Finish(d, p)
  <2>1. UNCHANGED <<outbox, txlog, content, landed>> /\ pipes' = [pipes EXCEPT ![d] = pipes[d] \ {p}]
    BY <1>7, <1>p DEF Finish, books, world
  <2>2. QED BY <1>q, <1>r, <2>1
<1>8. QED BY <1>a, <1>1, <1>2, <1>3, <1>4, <1>5, <1>6, <1>7 DEF PipeStep

-----------------------------------------------------------------------------
(* What a kiosk allows in each phase, as long as nothing but its own code  *)
(* disturbs it: one pipeline at a time, not aborted, while it writes; and  *)
(* what waits for its card or is on its way to it is in the journal.       *)
Journalled(d, c, x) == journal[d][c] # NoCard /\ journal[d][c].data = x

KioskOK(d) ==
    /\ err[d] # "none" => phase[d] = "error"
    /\ autoReset[d] => phase[d] = "error"
    /\ phase[d] \in {"ready", "success"} => pending[d] = NoCard
    /\ timer[d] => pending[d] # NoCard
    /\ pending[d] # NoCard => Journalled(d, pending[d].card, pending[d].data)
    /\ \A p \in pipes[d] :
          /\ pipes[d] = {p} /\ ~p.aborted /\ phase[d] = "writing" /\ pending[d] = NoCard
          /\ p.step # "save" => inline[d] /\ Journalled(d, p.card, p.data)

(* No step of d touches what another device is at.                         *)
Apart(d) ==
    \A x \in Devices \ {d} :
        /\ phase'[x] = phase[x] /\ err'[x] = err[x] /\ autoReset'[x] = autoReset[x] /\ pending'[x] = pending[x]
        /\ timer'[x] = timer[x] /\ pipes'[x] = pipes[x] /\ inline'[x] = inline[x] /\ journal'[x] = journal[x]

LEMMA ApartKept ==
    ASSUME NEW d \in Devices, Apart(d), \A x \in Devices : KioskOK(x), (KioskOK(d))'
    PROVE  \A x \in Devices : (KioskOK(x))'
BY DEF Apart, KioskOK, Journalled

(* The domains of what is kept per device.                                 *)
LEMMA Domains ==
    ASSUME TypeInv
    PROVE  /\ phase \in [Devices -> Phases] /\ err \in [Devices -> Errors]
           /\ autoReset \in [Devices -> BOOLEAN] /\ timer \in [Devices -> BOOLEAN]
           /\ inline \in [Devices -> BOOLEAN]
           /\ pending \in [Devices -> Held(ops) \cup {NoCard}]
           /\ pipes \in [Devices -> SUBSET PipeRec(ops)]
           /\ journal \in [Devices -> [Cards -> JournalRec(ops) \cup {NoCard}]]
BY DEF TypeInv, ScreenOK, FlagsOK, PendingOK, PipesOK, JournalOK

LEMMA StaysApart ==
    ASSUME TypeInv, NEW d \in Devices, Operate(d) \/ Pipeline(d) \/ PendingTimeout(d) \/ AutoReset(d)
    PROVE  Apart(d)
<1>1. CASE Scan(d) \/ RetryScan(d)
  BY <1>1, Domains DEF Scan, RetryScan, StartScan, Show, Apart
<1>2. CASE TapPending(d) \/ Write(d) \/ ReadingError(d)
  <2>1. CASE TapPending(d)
    BY <2>1, Domains DEF TapPending, ClearPendingWriteTimeout, StartPipe, Show, Apart
  <2>2. CASE Write(d)
    BY <2>2, Domains DEF Write, refs, Apart
  <2>3. CASE ReadingError(d)
    BY <2>3, Domains DEF ReadingError, Show, refs, Apart
  <2>4. QED BY <1>2, <2>1, <2>2, <2>3
<1>3. ASSUME NEW c, TapRecover(d, c) \/ TapReady(d, c)
      PROVE  Apart(d)
  <2>1. CASE TapRecover(d, c)
    BY <2>1, Domains DEF TapRecover, DropPending, MarkJournalRecovering, StartPipe, Show, Apart
  <2>2. CASE TapReady(d, c)
    BY <2>2, Domains DEF TapReady, DropPending, ClearWriteJournal, Show, Apart
  <2>3. QED BY <1>3, <2>1, <2>2
<1>4. ASSUME NEW c, NEW e, TapUnreadable(d, c, e) \/ JournalExpires(d, c)
      PROVE  Apart(d)
  BY <1>4, Domains DEF TapUnreadable, DropPending, Show, JournalExpires, ClearWriteJournal, screen, refs, Apart
<1>5. CASE TeardownSession(d)
  BY <1>5, Domains DEF TeardownSession, ClearPendingWriteTimeout, ClearWriteJournal, Show, Apart
<1>6. CASE Crash(d) \/ PendingTimeout(d) \/ AutoReset(d)
  BY <1>6, Domains DEF Crash, PendingTimeout, AutoReset, ClearPendingWriteTimeout, Show, Apart
<1>7. ASSUME NEW p \in pipes[d], PipeStep(d, p)
      PROVE  Apart(d)
  <2>1. ASSUME NEW saved, Save(d, p, saved)
        PROVE  Apart(d)
    BY <2>1, Domains DEF Save, Defer, Advance, SaveWriteJournal, screen, Apart
  <2>2. CASE Land(d, p) \/ Verify(d, p) \/ Record(d, p)
    BY <2>2, Domains DEF Land, Verify, Record, Advance, screen, refs, Apart
  <2>3. ASSUME NEW landing, WriteFails(d, p, landing)
        PROVE  Apart(d)
    BY <2>3, Domains DEF WriteFails, Defer, Advance, Throw, Show, screen, refs, Apart
  <2>4. ASSUME NEW e, Fail(d, p, e)
        PROVE  Apart(d)
    BY <2>4, Domains DEF Fail, Throw, Show, Apart
  <2>5. CASE Finish(d, p)
    BY <2>5, Domains DEF Finish, ClearWriteJournal, Show, Apart
  <2>6. QED BY <1>7, <2>1, <2>2, <2>3, <2>4, <2>5 DEF PipeStep
<1>8. QED BY <1>1, <1>2, <1>3, <1>4, <1>5, <1>6, <1>7, PipeSteps DEF Operate

(* A kiosk that is not writing, or that takes a tap, runs no pipeline.     *)
LEMMA NoPipe ==
    ASSUME NEW d \in Devices, TypeInv, KioskOK(d), Undisturbed, phase[d] # "writing" \/ Listening(d)
    PROVE  pipes[d] = {}
<1>1. SUFFICES ASSUME NEW p \in pipes[d] PROVE FALSE
  BY DEF KioskOK
<1>2. phase[d] = "writing" /\ pending[d] = NoCard /\ (p.step # "save" => inline[d])
  BY DEF KioskOK
<1>3. Listening(d)
  BY <1>2
<1>4. ~inline[d]
  BY <1>2, <1>3 DEF Listening
<1>5. p.step # "save"
  BY <1>2, <1>3 DEF Listening, Undisturbed
<1>6. QED BY <1>2, <1>4, <1>5

(* What the operator, the reader and the timers do to a kiosk.             *)
LEMMA KioskOperate ==
    ASSUME TypeInv, Undisturbed, NEW d \in Devices, KioskOK(d),
           Operate(d) \/ PendingTimeout(d) \/ AutoReset(d)
    PROVE  (KioskOK(d))'
<1>d. /\ phase \in [Devices -> Phases] /\ err \in [Devices -> Errors]
      /\ autoReset \in [Devices -> BOOLEAN] /\ timer \in [Devices -> BOOLEAN]
      /\ inline \in [Devices -> BOOLEAN]
      /\ pending \in [Devices -> Held(ops) \cup {NoCard}]
      /\ pipes \in [Devices -> SUBSET PipeRec(ops)]
      /\ journal \in [Devices -> [Cards -> JournalRec(ops) \cup {NoCard}]]
  BY Domains
<1>n. /\ NoCard \notin JournalRec(ops)
      /\ NoCard \notin Held(ops)
  <2>1. Data(ops) \subseteq Contents
    BY DataIsContents DEF TypeInv, LimitsOK
  <2>2. QED BY <2>1, NoCardAssumption DEF Held, CardData, JournalRec, WriteJournal
<1>k. KioskOK(d)
  OBVIOUS
<1>c. site.cards \subseteq Cards
  BY NfcAssumption DEF TypeInv, LimitsOK
(* The steps that leave the device without a pipeline.                     *)
<1>e. ASSUME pipes'[d] = {},
             err'[d] # "none" => phase'[d] = "error",
             autoReset'[d] => phase'[d] = "error",
             phase'[d] \in {"ready", "success"} => pending'[d] = NoCard,
             timer'[d] => pending'[d] # NoCard,
             pending'[d] # NoCard => (Journalled(d, pending[d].card, pending[d].data))'
      PROVE  (KioskOK(d))'
  BY <1>e DEF KioskOK
(* The steps that start one, writing w to a card.                          *)
<1>s. ASSUME NEW k, NEW s, NEW w,
             pipes[d] = {}, pipes'[d] = pipes[d] \cup {Fresh(k, s, w)},
             phase'[d] = "writing", err'[d] = "none", ~autoReset'[d], pending'[d] = NoCard, ~timer'[d],
             s # "save" => inline'[d] /\ (Journalled(d, w.card, w.data))'
      PROVE  (KioskOK(d))'
  <2> DEFINE f == Fresh(k, s, w)
  <2>1. f.step = s /\ ~f.aborted /\ f.card = w.card /\ f.data = w.data
    BY DEF Fresh
  <2>2. pipes'[d] = {f}
    BY <1>s
  <2>3. s # "save" => inline'[d] /\ (Journalled(d, f.card, f.data))'
    BY <1>s, <2>1
  <2> HIDE DEF f
  <2>4. QED BY <1>s, <2>1, <2>2, <2>3 DEF KioskOK
<1>1. ASSUME Scan(d) \/ RetryScan(d)
      PROVE  (KioskOK(d))'
  <2>1. pipes[d] = {}
    BY <1>1, NoPipe DEF Scan, RetryScan
  <2>2. PICK v : StartScan(d, v) /\ (v # NoCard => Journalled(d, v.card, v.data))
    <3>1. CASE Scan(d)
      BY <3>1 DEF Scan, KioskOK
    <3>2. CASE RetryScan(d)
      <4> DEFINE w == IF last[d] = NoCard THEN NoCard ELSE PendingJournal(d, last[d])
      <4>1. StartScan(d, IF w # NoCard THEN w ELSE pending[d])
        BY <3>2 DEF RetryScan
      <4>2. last[d] \in Cards \cup {NoCard}
        BY DEF TypeInv, FlagsOK
      <4>3. ASSUME w # NoCard PROVE Journalled(d, w.card, w.data)
        BY <4>2, <4>3, JournalFound DEF Journalled, TypeInv
      <4> HIDE DEF w
      <4>4. QED BY <4>1, <4>3 DEF KioskOK
    <3>3. QED BY <1>1, <3>1, <3>2
  <2>3. /\ pipes'[d] = {} /\ err'[d] = "none" /\ ~autoReset'[d] /\ phase'[d] = "scanning"
        /\ pending'[d] = v /\ journal' = journal
    BY <1>d, <2>1, <2>2 DEF StartScan, Show, Aborted
  <2>4. timer'[d] => v # NoCard
    BY <1>d, <2>2 DEF StartScan
  <2>5. v # NoCard => (Journalled(d, pending[d].card, pending[d].data))'
    BY <2>2, <2>3 DEF Journalled
  <2>6. QED BY <1>e, <2>3, <2>4, <2>5
<1>2. ASSUME TapPending(d)
      PROVE  (KioskOK(d))'
  <2>1. pipes[d] = {} /\ pending[d] # NoCard
    BY <1>2, NoPipe DEF TapPending
  <2>2. Journalled(d, pending[d].card, pending[d].data) /\ journal' = journal
    BY <1>2, <2>1 DEF TapPending, KioskOK
  <2>3. (Journalled(d, pending[d].card, pending[d].data)) => /\ journal'[d][pending[d].card] # NoCard
                                                      /\ journal'[d][pending[d].card].data = pending[d].data
    BY <2>2 DEF Journalled
  <2>4. ~autoReset[d]
    BY <1>2 DEF TapPending, Listening, KioskOK
  <2>5. /\ pipes'[d] = pipes[d] \cup {Fresh("pending", "write", pending[d])}
        /\ phase'[d] = "writing" /\ err'[d] = "none" /\ pending'[d] = NoCard /\ inline'[d]
        /\ ~timer'[d] /\ ~autoReset'[d]
    BY <1>2, <1>d, <2>4 DEF TapPending, StartPipe, Show, ClearPendingWriteTimeout
  <2>6. \A w : w = pending[d] => /\ journal'[d][w.card] # NoCard
                                 /\ journal'[d][w.card].data = w.data
    BY <2>2, <2>3
  <2>7. PICK w : w = pending[d]
    OBVIOUS
  <2>8. (Journalled(d, w.card, w.data))'
    BY <2>6, <2>7 DEF Journalled
  <2>9. QED BY <1>s, <2>1, <2>5, <2>7, <2>8
<1>3. ASSUME NEW c \in Cards, TapRecover(d, c)
      PROVE  (KioskOK(d))'
  <2> DEFINE w == PendingJournal(d, c)
  <2>1. /\ pipes[d] = {} /\ ~autoReset[d]
    BY <1>3, NoPipe DEF TapRecover, DropPending, Listening, KioskOK
  <2>2. w # NoCard
    BY <1>3 DEF TapRecover, WritesAgain
  <2>3. /\ journal[d][c] # NoCard /\ journal[d][c] \in JournalRec(ops)
        /\ w.card = c /\ w.data = journal[d][c].data
        /\ journal[d][c].attempts < MaxAttempts
    BY <2>2, JournalFound DEF TypeInv
  <2>4. /\ journal'[d][c] \in JournalRec(ops) /\ journal'[d][c].data = journal[d][c].data
    <3>1. journal'[d][c] = [journal[d][c] EXCEPT !.attempts = @ + 1]
      BY <1>3, <1>d DEF TapRecover, MarkJournalRecovering
    <3>2. QED BY <2>3, <3>1, NfcAssumption DEF JournalRec
  <2>5. journal'[d][w.card] # NoCard /\ journal'[d][w.card].data = w.data
    BY <1>n, <2>3, <2>4
  <2>6. /\ pipes'[d] = pipes[d] \cup {Fresh("recover", "write", w)}
        /\ phase'[d] = "writing" /\ err'[d] = "none" /\ pending'[d] = NoCard /\ inline'[d]
        /\ ~autoReset'[d]
    BY <1>3, <1>d, <2>1 DEF TapRecover, DropPending, StartPipe, Show
  <2>7. ~timer'[d]
    BY <1>3, <1>d DEF TapRecover, DropPending, KioskOK
  <2> HIDE DEF w
  <2>8. (Journalled(d, w.card, w.data))' <=> journal'[d][w'.card] # NoCard /\ journal'[d][w'.card].data = w'.data
    BY DEF Journalled
  <2>9. PICK v : v = w
    OBVIOUS
  <2>10. (Journalled(d, v.card, v.data))'
    BY <2>5, <2>9 DEF Journalled
  <2>11. QED BY <1>s, <2>1, <2>6, <2>7, <2>9, <2>10
<1>4. ASSUME NEW c \in Cards, NEW e \in {"read", "other"}, TapReady(d, c) \/ TapUnreadable(d, c, e)
      PROVE  (KioskOK(d))'
  <2>1. DropPending(d, c)
    BY <1>4 DEF TapReady, TapUnreadable
  <2>2. pipes[d] = {} /\ ~autoReset[d]
    BY <2>1, NoPipe DEF DropPending, Listening, KioskOK
  <2>3. pending'[d] = NoCard /\ ~timer'[d]
    BY <1>d, <2>1 DEF DropPending, KioskOK
  <2>4. pipes'[d] = {}
    BY <1>4, <2>2 DEF TapReady, TapUnreadable
  <2>5. CASE TapReady(d, c)
    <3>1. err'[d] = "none" /\ ~autoReset'[d]
      BY <1>d, <2>2, <2>5 DEF TapReady, Show
    <3>2. QED BY <1>e, <2>3, <2>4, <3>1
  <2>6. CASE TapUnreadable(d, c, e)
    <3>1. phase'[d] = "error"
      BY <1>d, <2>6 DEF TapUnreadable, Show
    <3>2. QED BY <1>e, <2>3, <2>4, <3>1
  <2>7. QED BY <1>4, <2>5, <2>6
<1>5. ASSUME ReadingError(d)
      PROVE  (KioskOK(d))'
  <2>1. pipes[d] = {}
    BY <1>5, NoPipe DEF ReadingError
  <2>2. phase'[d] = "error" /\ UNCHANGED <<pipes, pending, timer, journal>>
    BY <1>5, <1>d DEF ReadingError, Show, refs
  <2>3. timer[d] => pending[d] # NoCard
    BY DEF KioskOK
  <2>4. pending[d] # NoCard => Journalled(d, pending[d].card, pending[d].data)
    BY DEF KioskOK
  <2>5. pending'[d] # NoCard => (Journalled(d, pending[d].card, pending[d].data))'
    BY <2>2, <2>4 DEF Journalled
  <2>6. QED BY <1>e, <2>1, <2>2, <2>3, <2>5
<1>6. ASSUME Write(d)
      PROVE  (KioskOK(d))'
  <2> DEFINE w == [card |-> shown[d].card, data |-> Append(shown[d].data, ops + 1)]
  <2>1. pipes[d] = {} /\ pending[d] = NoCard /\ ~timer[d] /\ ~autoReset[d] /\ err[d] = "none"
    BY <1>6, <1>d, NoPipe DEF Write, KioskOK
  <2>2. /\ pipes'[d] = pipes[d] \cup {Fresh("inline", "save", w)}
        /\ phase'[d] = "writing" /\ UNCHANGED <<err, pending, timer, autoReset>>
    BY <1>6, <1>d DEF Write, refs
  <2> HIDE DEF w
  <2>3. PICK v : v = w
    OBVIOUS
  <2>4. QED BY <1>s, <2>1, <2>2, <2>3
<1>7. ASSUME TeardownSession(d)
      PROVE  (KioskOK(d))'
  <2>1. pipes[d] = {}
    BY <1>7, NoPipe DEF TeardownSession, KioskOK, Undisturbed
  <2>2. pipes'[d] = {} /\ pending'[d] = NoCard /\ ~timer'[d] /\ ~autoReset'[d] /\ err'[d] = "none"
    BY <1>7, <1>d, <2>1 DEF TeardownSession, Aborted, ClearPendingWriteTimeout, Show
  <2>3. QED BY <1>e, <2>2
<1>8. ASSUME Crash(d)
      PROVE  (KioskOK(d))'
  <2>1. pipes'[d] = {} /\ pending'[d] = NoCard /\ ~timer'[d] /\ ~autoReset'[d] /\ err'[d] = "none"
    BY <1>8, <1>d DEF Crash, Show
  <2>2. QED BY <1>e, <2>1
<1>9. ASSUME NEW c \in Cards, JournalExpires(d, c)
      PROVE  (KioskOK(d))'
  <2>1. /\ pipes[d] = {} /\ pending[d] = NoCard
        /\ UNCHANGED <<phase, err, autoReset, timer, pipes, pending>>
    BY <1>9 DEF JournalExpires, screen, refs
  <2>2. QED BY <1>e, <2>1 DEF KioskOK
<1>10. ASSUME PendingTimeout(d)
      PROVE  (KioskOK(d))'
  <2>1. pending[d] # NoCard
    BY <1>10 DEF PendingTimeout, KioskOK
  <2>2. pipes[d] = {}
    BY <2>1 DEF KioskOK
  <2>3. pipes'[d] = {} /\ pending'[d] = NoCard /\ ~timer'[d] /\ phase'[d] = "error"
    BY <1>10, <1>d, <2>2 DEF PendingTimeout, ClearPendingWriteTimeout, Show
  <2>4. QED BY <1>e, <2>3
<1>11. ASSUME AutoReset(d)
      PROVE  (KioskOK(d))'
  <2>1. pipes[d] = {}
    BY <1>11, NoPipe DEF AutoReset, KioskOK
  <2>2. /\ phase'[d] = "idle" /\ err'[d] = "none" /\ ~autoReset'[d]
        /\ UNCHANGED <<pipes, pending, timer, journal>>
    BY <1>11, <1>d DEF AutoReset, Show
  <2>3. timer[d] => pending[d] # NoCard
    BY DEF KioskOK
  <2>4. pending[d] # NoCard => Journalled(d, pending[d].card, pending[d].data)
    BY DEF KioskOK
  <2>5. pending'[d] # NoCard => (Journalled(d, pending[d].card, pending[d].data))'
    BY <2>2, <2>4 DEF Journalled
  <2>6. QED BY <1>e, <2>1, <2>2, <2>3, <2>5
<1>12. QED
  BY <1>1, <1>2, <1>3, <1>4, <1>5, <1>6, <1>7, <1>8, <1>9, <1>10, <1>11, <1>c DEF Operate

(* What a write in progress does to a kiosk.                               *)
LEMMA KioskPipeline ==
    ASSUME TypeInv, Undisturbed, NEW d \in Devices, KioskOK(d), Pipeline(d)
    PROVE  (KioskOK(d))'
<1>d. /\ phase \in [Devices -> Phases] /\ err \in [Devices -> Errors]
      /\ autoReset \in [Devices -> BOOLEAN] /\ timer \in [Devices -> BOOLEAN]
      /\ inline \in [Devices -> BOOLEAN]
      /\ pending \in [Devices -> Held(ops) \cup {NoCard}]
      /\ pipes \in [Devices -> SUBSET PipeRec(ops)]
      /\ journal \in [Devices -> [Cards -> JournalRec(ops) \cup {NoCard}]]
  BY Domains
<1>p. PICK p \in pipes[d] : PipeStep(d, p)
  BY PipeSteps
<1>k. /\ p \in PipeRec(ops) /\ pipes[d] = {p} /\ ~p.aborted
      /\ phase[d] = "writing" /\ err[d] = "none" /\ ~autoReset[d] /\ pending[d] = NoCard /\ ~timer[d]
  BY <1>d DEF KioskOK
<1>i. p.step # "save" => inline[d] /\ journal[d][p.card] # NoCard /\ journal[d][p.card].data = p.data
  BY DEF KioskOK, Journalled
(* The pipeline ends, and nothing waits for its card.                      *)
<1>e. ASSUME pipes'[d] = {}, pending'[d] = NoCard, ~timer'[d], err'[d] # "none" => phase'[d] = "error", ~autoReset'[d]
      PROVE  (KioskOK(d))'
  BY <1>e DEF KioskOK
(* The pipeline goes on to step s.                                         *)
<1>s. ASSUME NEW s, pipes'[d] = {[p EXCEPT !.step = s]}, inline'[d],
             journal'[d][p.card] # NoCard, journal'[d][p.card].data = p.data,
             UNCHANGED <<phase, err, autoReset, pending, timer>>
      PROVE  (KioskOK(d))'
  <2> DEFINE f == [p EXCEPT !.step = s]
  <2>1. ~f.aborted /\ f.card = p.card /\ f.data = p.data
    BY <1>k DEF PipeRec
  <2>2. pipes'[d] = {f}
    BY <1>s
  <2>3. (Journalled(d, f.card, f.data))'
    BY <1>s, <2>1 DEF Journalled
  <2> HIDE DEF f
  <2>4. QED BY <1>k, <1>s, <2>1, <2>2, <2>3 DEF KioskOK
<1>1. ASSUME Save(d, p, TRUE)
      PROVE  (KioskOK(d))'
  <2>1. pipes'[d] = {[p EXCEPT !.step = "write"]}
    BY <1>1, <1>d, <1>k DEF Save, Advance
  <2>2. inline'[d] /\ UNCHANGED <<phase, err, autoReset, pending, timer>>
    BY <1>1, <1>d, <1>k DEF Save, screen
  <2>3. journal'[d][p.card] = [data |-> p.data, attempts |-> 0]
    BY <1>1, <1>d, <1>k DEF Save, SaveWriteJournal, PipeRec
  <2>4. journal'[d][p.card] # NoCard
    <3>1. [data |-> p.data, attempts |-> 0] \in WriteJournal
      <4>1. p.data \in Contents
        BY <1>k, DataIsContents DEF PipeRec, TypeInv, LimitsOK
      <4>2. QED BY <4>1, NfcAssumption DEF WriteJournal
    <3>2. QED BY <2>3, <3>1, NoCardAssumption
  <2>5. journal'[d][p.card].data = p.data
    BY <2>3
  <2>6. QED BY <1>s, <2>1, <2>2, <2>4, <2>5
<1>2. ASSUME Land(d, p) \/ Verify(d, p) \/ Record(d, p)
      PROVE  (KioskOK(d))'
  <2>1. PICK s : Advance(d, p, s)
    BY <1>2 DEF Land, Verify, Record
  <2>a. pipes'[d] = {[p EXCEPT !.step = s]}
    BY <1>d, <1>k, <2>1 DEF Advance
  <2>2. p.step # "save" /\ UNCHANGED <<phase, err, autoReset, pending, timer, inline, journal>>
    BY <1>2 DEF Land, Verify, Record, screen, refs
  <2>3. QED BY <1>i, <1>s, <2>a, <2>2
<1>3. ASSUME NEW landing \in BOOLEAN, WriteFails(d, p, landing)
      PROVE  (KioskOK(d))'
  <2>1. p.step # "save" /\ journal' = journal
    BY <1>3 DEF WriteFails
  <2>2. CASE /\ p.kind = "inline" /\ Defer(d, p)
             /\ UNCHANGED <<screen, last, retry, autoReset>>
    <3>1. pipes'[d] = {} /\ pending'[d] = Of(p) /\ UNCHANGED <<phase, err, autoReset>>
      BY <1>d, <1>k, <2>2 DEF Defer, screen
    <3>2. Of(p) # NoCard
      BY <1>k, DataIsContents, NoCardAssumption DEF Of, PipeRec, CardData, TypeInv, LimitsOK
    <3>3. Of(p).card = p.card /\ Of(p).data = p.data
      BY DEF Of
    <3>4. (Journalled(d, pending[d].card, pending[d].data))'
      BY <1>i, <2>1, <3>1, <3>3 DEF Journalled
    <3>5. QED BY <1>k, <3>1, <3>2, <3>4 DEF KioskOK
  <2>3. CASE Advance(d, p, "rewrite") /\ UNCHANGED <<screen, refs>>
    <3>1. pipes'[d] = {[p EXCEPT !.step = "rewrite"]}
      BY <1>d, <1>k, <2>3 DEF Advance
    <3>2. UNCHANGED <<phase, err, autoReset, pending, timer, inline>>
      BY <2>3 DEF screen, refs
    <3>3. QED BY <1>i, <1>s, <2>1, <3>1, <3>2
  <2>4. CASE Throw(d, p, "other")
    <3>1. pipes'[d] = {} /\ phase'[d] = "error" /\ UNCHANGED <<autoReset, pending, timer>>
      BY <1>d, <1>k, <2>4 DEF Throw, Show
    <3>2. QED BY <1>e, <1>k, <3>1
  <2>5. QED BY <1>3, <2>2, <2>3, <2>4 DEF WriteFails
<1>4. ASSUME NEW e \in {"verify", "other"}, Fail(d, p, e)
      PROVE  (KioskOK(d))'
  <2>1. pipes'[d] = {} /\ phase'[d] = "error" /\ UNCHANGED <<autoReset, pending, timer>>
    BY <1>4, <1>d, <1>k DEF Fail, Throw, Show
  <2>2. QED BY <1>e, <1>k, <2>1
<1>5. ASSUME Finish(d, p)
      PROVE  (KioskOK(d))'
  <2>1. pipes'[d] = {} /\ err'[d] = "none" /\ UNCHANGED <<autoReset, pending, timer>>
    BY <1>5, <1>d, <1>k DEF Finish, Show
  <2>2. QED BY <1>e, <1>k, <2>1
<1>6. ~site.saveMayFail
  BY DEF Undisturbed
<1>7. QED BY <1>p, <1>1, <1>2, <1>3, <1>4, <1>5, <1>6 DEF PipeStep

LEMMA KioskStep ==
    ASSUME TypeInv, Undisturbed, \A x \in Devices : KioskOK(x), NEW d \in Devices,
           Operate(d) \/ Pipeline(d) \/ PendingTimeout(d) \/ AutoReset(d)
    PROVE  \A x \in Devices : (KioskOK(x))'
<1>1. (KioskOK(d))'
  BY KioskOperate, KioskPipeline
<1>2. Apart(d)
  BY StaysApart
<1>3. QED BY <1>1, <1>2, ApartKept

(* The devices stay where they stand.                                      *)
LEMMA SiteStays ==
    ASSUME NEW d \in Devices, Operate(d) \/ Pipeline(d) \/ PendingTimeout(d) \/ AutoReset(d)
    PROVE  site' = site
BY DEF Operate, Scan, RetryScan, StartScan, TapPending, TapRecover, TapReady, TapUnreadable, ReadingError, Write,
       TeardownSession, Crash, JournalExpires, Pipeline, Save, Land, WriteFails, Verify, Fail, Record, Finish,
       PendingTimeout, AutoReset, limits

-----------------------------------------------------------------------------
(* The inductive invariant of BooksGoTogether, for any number of devices.  *)
BooksInv == TypeInv /\ PhantomInv /\ (Undisturbed => \A d \in Devices : KioskOK(d))

LEMMA BooksInit == Init => BooksInv
<1> SUFFICES ASSUME Init PROVE BooksInv
  OBVIOUS
<1>1. TypeInv
  BY InitType
<1>2. PhantomInv
  BY DEF Init, PhantomInv, NoPhantom, Verified
<1>3. \A d \in Devices : KioskOK(d)
  BY DEF Init, KioskOK
<1>4. QED BY <1>1, <1>2, <1>3 DEF BooksInv

LEMMA OperateType ==
    ASSUME TypeInv, NEW d \in Devices, Operate(d)
    PROVE  TypeInv'
<1>1. site.cards \subseteq Cards
  BY NfcAssumption DEF TypeInv, LimitsOK
<1>2. CASE TapPending(d)
  <2>1. pending[d].card \in Cards
    BY <1>2 DEF TapPending, TypeInv, PendingOK, Held
  <2>2. QED BY <1>2, <2>1, TapType
<1>3. QED BY <1>1, <1>2, ScanType, TapType, OtherTapType, EndType DEF Operate

LEMMA BooksStep == BooksInv /\ [Next]_vars => BooksInv'
<1> SUFFICES ASSUME BooksInv, [Next]_vars PROVE BooksInv'
  OBVIOUS
<1>1. TypeInv /\ PhantomInv /\ (Undisturbed => \A d \in Devices : KioskOK(d))
  BY DEF BooksInv
<1>2. ASSUME NEW d \in Devices, Operate(d) \/ Pipeline(d) \/ PendingTimeout(d) \/ AutoReset(d)
      PROVE  BooksInv'
  <2>1. TypeInv'
    BY <1>1, <1>2, OperateType, PipelineType, EndType
  <2>2. PhantomInv'
    BY <1>1, <1>2, PhantomOperate, PhantomPipeline
  <2>3. Undisturbed' => Undisturbed
    BY <1>2, SiteStays DEF Undisturbed
  <2>4. Undisturbed' => (\A x \in Devices : KioskOK(x))'
    BY <1>1, <1>2, <2>3, KioskStep
  <2>5. QED BY <2>1, <2>2, <2>4 DEF BooksInv
<1>3. CASE UNCHANGED vars
  <2>1. UNCHANGED <<phase, err, shown, triggered, last, retry, inline, pending, timer, autoReset, pipes, journal,
                    outbox, txlog, content, landed, ops, site>>
    BY <1>3 DEF vars, screen, refs, books, world, limits
  <2>2. TypeInv'
    BY <1>1, <2>1 DEF TypeInv, ScreenOK, FlagsOK, PendingOK, PipesOK, JournalOK, BooksOK, WorldOK, LimitsOK
  <2>3. PhantomInv'
    BY <1>1, <2>1, PhantomQuiet
  <2>4. Undisturbed' => (\A x \in Devices : KioskOK(x))'
    BY <1>1, <2>1 DEF Undisturbed, KioskOK, Journalled
  <2>5. QED BY <2>2, <2>3, <2>4 DEF BooksInv
<1>4. QED BY <1>2, <1>3 DEF Next

(* Card, journal and books go together, in every reachable state and for   *)
(* any number of devices and cards: what is recorded was once on its card, *)
(* and at a kiosk what is on its way to a card is in the journal, so that  *)
(* a crash at any instant leaves an entry to repeat or recognise it by.    *)
THEOREM BooksTogether == Spec => []BooksGoTogether
<1>1. BooksInv => BooksGoTogether
  <2> SUFFICES ASSUME BooksInv PROVE BooksGoTogether
    OBVIOUS
  <2>1. TypeOK
    BY TypeIsOK DEF BooksInv
  <2>2. NoPhantom
    BY DEF BooksInv, PhantomInv
  <2>3. JournalCovers
    <3>1. SUFFICES ASSUME Undisturbed, NEW d \in Devices, NEW p \in pipes[d],
                          p.step \in {"write", "rewrite", "verify", "record"}
                   PROVE  journal[d][p.card] # NoCard /\ journal[d][p.card].data = p.data
      BY DEF JournalCovers
    <3>2. KioskOK(d) /\ p.step # "save"
      BY <3>1 DEF BooksInv
    <3>3. QED BY <3>2 DEF KioskOK, Journalled
  <2>4. QED BY <2>1, <2>2, <2>3 DEF BooksGoTogether
<1>2. QED BY <1>1, BooksInit, BooksStep, PTL DEF Spec

-----------------------------------------------------------------------------
(* Prefixes, as contents grow.                                             *)
LEMMA PrefixFacts ==
    ASSUME NEW n \in Nat
    PROVE  /\ \A s \in Data(n) : IsPrefix(s, s)
           /\ \A s, t, u \in Data(n) : IsPrefix(s, t) /\ IsPrefix(t, u) => IsPrefix(s, u)
<1> DEFINE Pre(s, t) == Len(s) <= Len(t) /\ \A i \in 1..Len(s) : s[i] = t[i]
<1>1. \A s \in Data(n) : s \in Seq(1..MaxOps) /\ Len(s) \in Nat
  BY LenProperties DEF Data
<1>2. ASSUME NEW s \in Data(n), NEW t \in Data(n)
      PROVE  IsPrefix(s, t) <=> Pre(s, t)
  <2>1. /\ s \in Seq(1..MaxOps) /\ t \in Seq(1..MaxOps) /\ Len(s) \in Nat /\ Len(t) \in Nat
    BY <1>1
  <2>2. SubSeq(s, 1, Len(s)) = s
    BY <2>1
  <2>3. ASSUME Len(s) <= Len(t)
        PROVE  SubSeq(t, 1, Len(s)) = s <=> \A i \in 1..Len(s) : s[i] = t[i]
    <3> DEFINE u == SubSeq(t, 1, Len(s))
    <3>0. \A i \in 1..Len(s) : t[i] \in 1..MaxOps
      <4>1. t \in [1..Len(t) -> 1..MaxOps]
        BY <2>1, LenProperties
      <4>2. QED BY <2>1, <2>3, <4>1
    <3>1. u \in Seq(1..MaxOps) /\ Len(u) = Len(s) /\ \A i \in 1..Len(s) : u[i] = t[i]
      <4>1. /\ u \in Seq(1..MaxOps)
            /\ Len(u) = IF 1 <= Len(s) THEN Len(s) - 1 + 1 ELSE 0
            /\ \A i \in 1..(Len(s) - 1 + 1) : u[i] = t[1 + i - 1]
        BY <2>1, <3>0, SubSeqProperties
      <4>2. QED BY <2>1, <4>1
    <3> HIDE DEF u
    <3>2. u = s <=> \A i \in 1..Len(s) : u[i] = s[i]
      BY <2>1, <3>1, SeqEqual
    <3>3. QED BY <3>1, <3>2 DEF u
  <2>4. QED BY <2>2, <2>3 DEF IsPrefix
<1>3. \A s \in Data(n) : Pre(s, s)
  BY <1>1
<1>4. \A s, t, u \in Data(n) : Pre(s, t) /\ Pre(t, u) => Pre(s, u)
  <2>1. SUFFICES ASSUME NEW s \in Data(n), NEW t \in Data(n), NEW u \in Data(n), Pre(s, t), Pre(t, u)
                 PROVE  Pre(s, u)
    OBVIOUS
  <2>2. Len(s) \in Nat /\ Len(t) \in Nat /\ Len(u) \in Nat
    BY <1>1
  <2>3. QED BY <2>1, <2>2
<1> HIDE DEF Pre
<1>5. QED BY <1>2, <1>3, <1>4

(* What an operation makes contains what it was applied to.                *)
LEMMA AppendsTo ==
    ASSUME NEW n \in Nat, NEW s \in Data(n), NEW e
    PROVE  IsPrefix(s, Append(s, e))
<1>1. s \in Seq((1..MaxOps) \cup {e}) /\ Len(s) \in Nat
  <2>1. s \in Seq(1..MaxOps)
    BY DEF Data
  <2>2. s \in [1..Len(s) -> 1..MaxOps] /\ Len(s) \in Nat
    BY <2>1, LenProperties
  <2>3. s \in [1..Len(s) -> (1..MaxOps) \cup {e}]
    BY <2>2
  <2>4. QED BY <2>2, <2>3
<1>2. Len(Append(s, e)) = Len(s) + 1 /\ \A i \in 1..Len(s) : Append(s, e)[i] = s[i]
  BY <1>1
<1>3. SubSeq(s, 1, Len(s)) = s
  BY <1>1
<1>4. SubSeq(Append(s, e), 1, Len(s)) = s
  <2> DEFINE t == Append(s, e)
             u == SubSeq(t, 1, Len(s))
  <2>1. t \in Seq((1..MaxOps) \cup {e}) /\ Len(t) = Len(s) + 1
    BY <1>1
  <2> HIDE DEF t
  <2>2. u \in Seq((1..MaxOps) \cup {e}) /\ Len(u) = Len(s) /\ \A i \in 1..Len(s) : u[i] = t[i]
    BY <1>1, <2>1
  <2> HIDE DEF u
  <2>3. \A i \in 1..Len(s) : u[i] = s[i]
    BY <1>2, <2>2 DEF t
  <2>4. u = s
    BY <1>1, <2>2, <2>3, SeqEqual
  <2>5. QED BY <2>4 DEF u, t
<1>5. QED BY <1>1, <1>2, <1>3, <1>4 DEF IsPrefix

-----------------------------------------------------------------------------
(* One kiosk and its cards: what it was shown, has journalled, is writing  *)
(* or has recorded is in step with what the cards hold.                    *)
ShownTrue(d)   == phase[d] = "ready" => content[shown[d].card] = shown[d].data
JournalLeads(d) ==
    \A c \in Cards : journal[d][c] # NoCard => IsPrefix(content[c], journal[d][c].data)
WritesInStep(d) ==
    \A p \in pipes[d] : /\ p.step = "save" => IsPrefix(content[p.card], p.data)
                        /\ p.step \in {"record", "clear"} => content[p.card] = p.data
BooksFollow(d) == \A e \in outbox[d] \cup txlog[d] : IsPrefix(e.data, content[e.card])

InStep(d) == ShownTrue(d) /\ JournalLeads(d) /\ WritesInStep(d) /\ BooksFollow(d)

LEMMA InStepOperate ==
    ASSUME TypeInv, Undisturbed, NEW d \in Devices, KioskOK(d), InStep(d),
           Operate(d) \/ PendingTimeout(d) \/ AutoReset(d)
    PROVE  (InStep(d))' /\ content' = content
<1>d. /\ phase \in [Devices -> Phases] /\ pipes \in [Devices -> SUBSET PipeRec(ops)]
      /\ journal \in [Devices -> [Cards -> JournalRec(ops) \cup {NoCard}]]
      /\ shown \in [Devices -> Held(ops) \cup {NoCard}]
      /\ content \in [Cards -> Data(ops)]
  BY Domains DEF TypeInv, ScreenOK, WorldOK
<1>c. site.cards \subseteq Cards
  BY NfcAssumption DEF TypeInv, LimitsOK
<1>k. InStep(d) /\ KioskOK(d)
  OBVIOUS
<1>w. UNCHANGED <<content, outbox, txlog>>
  BY DEF Operate, Scan, RetryScan, StartScan, TapPending, TapRecover, TapReady, TapUnreadable, ReadingError, Write,
         TeardownSession, Crash, JournalExpires, PendingTimeout, AutoReset, books, world
<1>b. (BooksFollow(d))'
  BY <1>k, <1>w DEF InStep, BooksFollow
(* The journal stays, or loses entries.                                    *)
<1>j. ASSUME \A c \in Cards : journal'[d][c] # NoCard => journal[d][c] # NoCard /\ journal'[d][c].data = journal[d][c].data
      PROVE  (JournalLeads(d))'
  BY <1>j, <1>k, <1>w DEF InStep, JournalLeads
<1>f. ASSUME NEW x \in Cards, journal' = journal \/ ClearWriteJournal(d, x)
      PROVE  (JournalLeads(d))'
  <2>1. \A c \in Cards : journal'[d][c] # NoCard => journal'[d][c] = journal[d][c]
    BY <1>d, <1>f DEF ClearWriteJournal
  <2>2. QED BY <1>j, <2>1
<1>g. ASSUME journal' = journal
      PROVE  (JournalLeads(d))'
  BY <1>g, <1>j
(* No pipeline runs.                                                       *)
<1>e. ASSUME pipes'[d] = {}
      PROVE  (WritesInStep(d))'
  BY <1>e DEF WritesInStep
<1>1. ASSUME Scan(d) \/ RetryScan(d)
      PROVE  (InStep(d))'
  <2>1. pipes[d] = {}
    BY <1>1, NoPipe DEF Scan, RetryScan
  <2>2. pipes'[d] = {} /\ phase'[d] = "scanning" /\ journal' = journal
    BY <1>1, <1>d, <2>1 DEF Scan, RetryScan, StartScan, Show, Aborted
  <2>3. QED BY <1>b, <1>e, <1>g, <2>2 DEF InStep, ShownTrue
<1>s. ASSUME NEW k, NEW s, NEW w, pipes[d] = {}, pipes'[d] = pipes[d] \cup {Fresh(k, s, w)},
             phase'[d] = "writing", s = "write" \/ (s = "save" /\ IsPrefix(content[w.card], w.data)),
             (JournalLeads(d))'
      PROVE  (InStep(d))'
  <2>1. /\ Fresh(k, s, w).step = s /\ Fresh(k, s, w).card = w.card /\ Fresh(k, s, w).data = w.data
        /\ pipes'[d] = {Fresh(k, s, w)}
    BY <1>s DEF Fresh
  <2>2. (WritesInStep(d))'
    BY <1>s, <1>w, <2>1 DEF WritesInStep
  <2>3. QED BY <1>b, <1>s, <2>2 DEF InStep, ShownTrue
<1>2. ASSUME TapPending(d)
      PROVE  (InStep(d))'
  <2>1. pipes[d] = {}
    BY <1>2, NoPipe DEF TapPending
  <2>2. /\ pipes'[d] = pipes[d] \cup {Fresh("pending", "write", pending[d])}
        /\ phase'[d] = "writing" /\ journal' = journal
    BY <1>2, <1>d DEF TapPending, StartPipe, Show
  <2>3. PICK v : v = pending[d]
    OBVIOUS
  <2>4. QED BY <1>g, <1>s, <2>1, <2>2, <2>3
<1>3. ASSUME NEW c \in Cards, TapRecover(d, c)
      PROVE  (InStep(d))'
  <2>1. pipes[d] = {}
    BY <1>3, NoPipe DEF TapRecover, DropPending
  <2>2. /\ pipes'[d] = pipes[d] \cup {Fresh("recover", "write", PendingJournal(d, c))}
        /\ phase'[d] = "writing"
    BY <1>3, <1>d DEF TapRecover, StartPipe, Show
  <2>3. journal[d][c] # NoCard /\ journal[d][c] \in JournalRec(ops)
    BY <1>3, JournalFound DEF TapRecover, WritesAgain, TypeInv
  <2>4. journal' = [journal EXCEPT ![d][c].attempts = @ + 1]
    BY <1>3 DEF TapRecover, MarkJournalRecovering
  <2>5. journal'[d][c].data = journal[d][c].data
    BY <1>d, <2>3, <2>4 DEF JournalRec
  <2>6. \A x \in Cards : x # c => journal'[d][x] = journal[d][x]
    BY <1>d, <2>4
  <2>7. (JournalLeads(d))'
    BY <1>j, <2>3, <2>5, <2>6
  <2>8. PICK v : v = PendingJournal(d, c)
    OBVIOUS
  <2>9. QED BY <1>s, <2>1, <2>2, <2>7, <2>8
<1>4. ASSUME NEW c \in Cards, NEW e \in {"read", "other"}, TapReady(d, c) \/ TapUnreadable(d, c, e)
      PROVE  (InStep(d))'
  <2>1. pipes[d] = {}
    BY <1>4, NoPipe DEF TapReady, TapUnreadable, DropPending
  <2>2. pipes'[d] = {}
    BY <1>4, <2>1 DEF TapReady, TapUnreadable
  <2>3. CASE TapReady(d, c)
    <3>1. shown'[d] = [card |-> c, data |-> content[c]] /\ (journal' = journal \/ ClearWriteJournal(d, c))
      BY <1>d, <2>3 DEF TapReady, Show
    <3>2. (ShownTrue(d))'
      BY <1>w, <3>1 DEF ShownTrue
    <3>3. QED BY <1>b, <1>e, <1>f, <2>2, <3>1, <3>2 DEF InStep
  <2>4. CASE TapUnreadable(d, c, e)
    <3>1. phase'[d] = "error" /\ journal' = journal
      BY <1>d, <2>4 DEF TapUnreadable, Show
    <3>2. QED BY <1>b, <1>e, <1>g, <2>2, <3>1 DEF InStep, ShownTrue
  <2>5. QED BY <1>4, <2>3, <2>4
<1>5. ASSUME Write(d)
      PROVE  (InStep(d))'
  <2> DEFINE w == [card |-> shown[d].card, data |-> Append(shown[d].data, ops + 1)]
  <2>1. pipes[d] = {}
    BY <1>5, NoPipe DEF Write
  <2>2. shown[d] \in Held(ops) /\ content[shown[d].card] = shown[d].data
    BY <1>5, <1>d, <1>k DEF Write, InStep, ShownTrue, TypeInv, ScreenOK
  <2>3. IsPrefix(shown[d].data, Append(shown[d].data, ops + 1))
    BY <2>2, AppendsTo, NfcAssumption DEF Held, TypeInv, LimitsOK
  <2>4. IsPrefix(content[w.card], w.data)
    BY <2>2, <2>3
  <2>5. pipes'[d] = pipes[d] \cup {Fresh("inline", "save", w)} /\ phase'[d] = "writing" /\ journal' = journal
    BY <1>5, <1>d DEF Write
  <2> HIDE DEF w
  <2>6. PICK v : v = w
    OBVIOUS
  <2>7. QED BY <1>g, <1>s, <2>1, <2>4, <2>5, <2>6
<1>6. ASSUME TeardownSession(d)
      PROVE  (InStep(d))'
  <2> DEFINE c == IF shown[d] # NoCard THEN shown[d].card ELSE last[d]
  <2>1. pipes[d] = {}
    BY <1>6, NoPipe DEF TeardownSession, KioskOK, Undisturbed
  <2>2. pipes'[d] = {} /\ phase'[d] = "idle"
    BY <1>6, <1>d, <2>1 DEF TeardownSession, Aborted, Show
  <2>3. c \in Cards \cup {NoCard}
    BY <1>d DEF Held, TypeInv, FlagsOK
  <2>4. journal' = journal \/ (c # NoCard /\ ClearWriteJournal(d, c))
    BY <1>6 DEF TeardownSession
  <2> HIDE DEF c
  <2>5. (JournalLeads(d))'
    BY <1>f, <1>g, <2>3, <2>4
  <2>6. QED BY <1>b, <1>e, <2>2, <2>5 DEF InStep, ShownTrue
<1>7. ASSUME Crash(d)
      PROVE  (InStep(d))'
  <2>1. pipes'[d] = {} /\ phase'[d] = "idle" /\ journal' = journal
    BY <1>7, <1>d DEF Crash, Show
  <2>2. QED BY <1>b, <1>e, <1>g, <2>1 DEF InStep, ShownTrue
<1>8. ASSUME NEW c \in Cards, JournalExpires(d, c)
      PROVE  (InStep(d))'
  <2>1. pipes[d] = {} /\ UNCHANGED <<pipes, phase, shown>> /\ ClearWriteJournal(d, c)
    BY <1>8 DEF JournalExpires, screen
  <2>2. (ShownTrue(d))'
    BY <1>k, <1>w, <2>1 DEF InStep, ShownTrue
  <2>3. QED BY <1>b, <1>e, <1>f, <2>1, <2>2 DEF InStep
<1>9. ASSUME ReadingError(d) \/ PendingTimeout(d) \/ AutoReset(d)
      PROVE  (InStep(d))'
  <2>1. UNCHANGED <<pipes, journal>> /\ phase'[d] # "ready"
    BY <1>9, <1>d DEF ReadingError, PendingTimeout, AutoReset, Show
  <2>2. (WritesInStep(d))'
    BY <1>k, <1>w, <2>1 DEF InStep, WritesInStep
  <2>3. QED BY <1>b, <1>g, <2>1, <2>2 DEF InStep, ShownTrue
<1>10. QED
  BY <1>1, <1>2, <1>3, <1>4, <1>5, <1>6, <1>7, <1>8, <1>9, <1>c, <1>w DEF Operate

LEMMA InStepPipeline ==
    ASSUME TypeInv, Undisturbed, NEW d \in Devices, KioskOK(d), InStep(d), Pipeline(d)
    PROVE  (InStep(d))' /\ \A c \in Cards : IsPrefix(content[c], content'[c])
<1>d. /\ phase \in [Devices -> Phases] /\ pipes \in [Devices -> SUBSET PipeRec(ops)]
      /\ journal \in [Devices -> [Cards -> JournalRec(ops) \cup {NoCard}]]
      /\ content \in [Cards -> Data(ops)]
      /\ outbox \in [Devices -> SUBSET Held(ops)] /\ txlog \in [Devices -> SUBSET Held(ops)]
  BY Domains DEF TypeInv, WorldOK, BooksOK
<1>p. PICK p \in pipes[d] : PipeStep(d, p)
  BY PipeSteps
<1>k. /\ p \in PipeRec(ops) /\ pipes[d] = {p} /\ ~p.aborted /\ phase[d] = "writing"
      /\ p.card \in Cards /\ p.data \in Data(ops)
  BY <1>d DEF KioskOK, PipeRec
<1>i. p.step # "save" => journal[d][p.card] # NoCard /\ journal[d][p.card].data = p.data
  BY DEF KioskOK, Journalled
<1>n. /\ JournalLeads(d) /\ BooksFollow(d)
      /\ p.step = "save" => IsPrefix(content[p.card], p.data)
      /\ p.step \in {"record", "clear"} => content[p.card] = p.data
  BY DEF InStep, WritesInStep
<1>o. ops \in Nat
  BY NfcAssumption DEF TypeInv, LimitsOK
<1>r. \A s \in Data(ops) : IsPrefix(s, s)
  BY <1>o, PrefixFacts
<1>t. \A s, t, u \in Data(ops) : IsPrefix(s, t) /\ IsPrefix(t, u) => IsPrefix(s, u)
  BY <1>o, PrefixFacts
<1>s. ASSUME NEW s \in Steps
      PROVE  /\ [p EXCEPT !.step = s].step = s /\ [p EXCEPT !.step = s].card = p.card
             /\ [p EXCEPT !.step = s].data = p.data
  BY <1>k DEF PipeRec
(* Nothing is put on a card.                                               *)
<1>q. ASSUME content' = content
      PROVE  /\ \A c \in Cards : IsPrefix(content[c], content'[c])
             /\ journal' = journal => (JournalLeads(d))'
             /\ UNCHANGED <<outbox, txlog>> => (BooksFollow(d))'
             /\ pipes'[d] = {} => (WritesInStep(d))'
             /\ \A s \in Steps : /\ pipes'[d] = {[p EXCEPT !.step = s]}
                                 /\ s # "save"
                                 /\ s \in {"record", "clear"} => content[p.card] = p.data
                                 => (WritesInStep(d))'
  <2>1. \A c \in Cards : IsPrefix(content[c], content'[c])
    BY <1>d, <1>q, <1>r
  <2>2. ASSUME journal' = journal PROVE (JournalLeads(d))'
    BY <1>n, <1>q, <2>2 DEF JournalLeads
  <2>3. ASSUME UNCHANGED <<outbox, txlog>> PROVE (BooksFollow(d))'
    BY <1>n, <1>q, <2>3 DEF BooksFollow
  <2>4. ASSUME pipes'[d] = {} PROVE (WritesInStep(d))'
    BY <2>4 DEF WritesInStep
  <2>5. ASSUME NEW s \in Steps, pipes'[d] = {[p EXCEPT !.step = s]}, s # "save",
               s \in {"record", "clear"} => content[p.card] = p.data
        PROVE  (WritesInStep(d))'
    BY <1>q, <1>s, <2>5 DEF WritesInStep
  <2>6. QED BY <2>1, <2>2, <2>3, <2>4, <2>5
(* The journalled write lands.                                             *)
<1>l. ASSUME PutOnCard(p), p.step # "save", UNCHANGED <<journal, outbox, txlog>>
      PROVE  /\ \A c \in Cards : IsPrefix(content[c], content'[c])
             /\ (JournalLeads(d))' /\ (BooksFollow(d))'
  <2>1. content' = [content EXCEPT ![p.card] = p.data]
    BY <1>l DEF PutOnCard
  <2>2. IsPrefix(content[p.card], p.data)
    BY <1>i, <1>k, <1>l, <1>n DEF JournalLeads
  <2>3. ASSUME NEW c \in Cards
        PROVE  IsPrefix(content[c], content'[c])
    <3>1. CASE c = p.card
      BY <1>d, <2>1, <2>2, <3>1
    <3>2. CASE c # p.card
      BY <1>d, <1>r, <2>1, <3>2
    <3>3. QED BY <3>1, <3>2
  <2>4. (JournalLeads(d))'
    <3>1. SUFFICES ASSUME NEW c \in Cards, journal[d][c] # NoCard
                   PROVE  IsPrefix(content'[c], journal[d][c].data)
      BY <1>l DEF JournalLeads
    <3>2. CASE c = p.card
      BY <1>d, <1>i, <1>k, <1>l, <1>r, <2>1, <3>2
    <3>3. CASE c # p.card
      BY <1>d, <1>n, <2>1, <3>1, <3>3 DEF JournalLeads
    <3>4. QED BY <3>2, <3>3
  <2>5. (BooksFollow(d))'
    <3>1. SUFFICES ASSUME NEW e \in outbox[d] \cup txlog[d]
                   PROVE  IsPrefix(e.data, content'[e.card])
      BY <1>l DEF BooksFollow
    <3>2. e.card \in Cards /\ e.data \in Data(ops) /\ IsPrefix(e.data, content[e.card])
      BY <1>d, <1>n DEF BooksFollow, Held
    <3>3. content[e.card] \in Data(ops) /\ content'[e.card] \in Data(ops)
      BY <1>d, <1>k, <2>1, <3>2
    <3>4. QED BY <1>t, <2>3, <3>2, <3>3
  <2>6. QED BY <2>3, <2>4, <2>5
<1>1. ASSUME Save(d, p, TRUE)
      PROVE  (InStep(d))' /\ \A c \in Cards : IsPrefix(content[c], content'[c])
  <2>1. /\ pipes'[d] = {[p EXCEPT !.step = "write"]} /\ phase'[d] = "writing"
        /\ UNCHANGED <<content, outbox, txlog>> /\ p.step = "save"
        /\ journal' = [journal EXCEPT ![d][p.card] = [data |-> p.data, attempts |-> 0]]
    BY <1>1, <1>d, <1>k DEF Save, Advance, SaveWriteJournal, screen, books, world
  <2>2. (JournalLeads(d))'
    <3>1. SUFFICES ASSUME NEW c \in Cards, journal'[d][c] # NoCard
                   PROVE  IsPrefix(content[c], journal'[d][c].data)
      BY <2>1 DEF JournalLeads
    <3>2. CASE c = p.card
      <4>1. journal'[d][c] = [data |-> p.data, attempts |-> 0]
        BY <1>d, <2>1, <3>2
      <4>2. QED BY <1>n, <2>1, <3>2, <4>1
    <3>3. CASE c # p.card
      BY <1>d, <1>n, <2>1, <3>1, <3>3 DEF JournalLeads
    <3>4. QED BY <3>2, <3>3
  <2>3. (WritesInStep(d))'
    BY <1>q, <2>1 DEF Steps
  <2>4. QED BY <1>q, <2>1, <2>2, <2>3 DEF InStep, ShownTrue
<1>2. ASSUME Land(d, p)
      PROVE  (InStep(d))' /\ \A c \in Cards : IsPrefix(content[c], content'[c])
  <2>1. /\ PutOnCard(p) /\ p.step # "save" /\ UNCHANGED <<journal, outbox, txlog>> /\ phase'[d] = "writing"
        /\ pipes'[d] = {[p EXCEPT !.step = "verify"]}
    BY <1>2, <1>d, <1>k DEF Land, Advance, screen, refs, books
  <2>2. (WritesInStep(d))'
    BY <1>s, <2>1 DEF WritesInStep, Steps
  <2>3. QED BY <1>l, <2>1, <2>2 DEF InStep, ShownTrue
<1>3. ASSUME NEW landing \in BOOLEAN, WriteFails(d, p, landing)
      PROVE  (InStep(d))' /\ \A c \in Cards : IsPrefix(content[c], content'[c])
  <2>1. /\ p.step # "save" /\ UNCHANGED <<journal, outbox, txlog>> /\ (PutOnCard(p) \/ content' = content)
    BY <1>3 DEF WriteFails, books, world
  <2>2. pipes'[d] = {} \/ pipes'[d] = {[p EXCEPT !.step = "rewrite"]}
    BY <1>3, <1>d, <1>k DEF WriteFails, Defer, Advance, Throw
  <2>3. phase'[d] # "ready"
    BY <1>3, <1>d, <1>k DEF WriteFails, Throw, Show, screen
  <2>4. (WritesInStep(d))'
    BY <1>s, <2>2 DEF WritesInStep, Steps
  <2>5. QED BY <1>l, <1>q, <2>1, <2>3, <2>4 DEF InStep, ShownTrue
<1>4. ASSUME Verify(d, p)
      PROVE  (InStep(d))' /\ \A c \in Cards : IsPrefix(content[c], content'[c])
  <2>1. /\ content[p.card] = p.data /\ phase'[d] = "writing" /\ UNCHANGED <<journal, outbox, txlog, content>>
        /\ pipes'[d] = {[p EXCEPT !.step = "record"]}
    BY <1>4, <1>d, <1>k DEF Verify, Advance, screen, refs, books, world
  <2>2. (WritesInStep(d))'
    BY <1>q, <2>1 DEF Steps
  <2>3. QED BY <1>q, <2>1, <2>2 DEF InStep, ShownTrue
<1>5. ASSUME NEW e \in {"verify", "other"}, Fail(d, p, e)
      PROVE  (InStep(d))' /\ \A c \in Cards : IsPrefix(content[c], content'[c])
  <2>1. pipes'[d] = {} /\ phase'[d] = "error" /\ UNCHANGED <<journal, outbox, txlog, content>>
    BY <1>5, <1>d, <1>k DEF Fail, Throw, Show, books, world
  <2>2. QED BY <1>q, <2>1 DEF InStep, ShownTrue
<1>6. ASSUME Record(d, p)
      PROVE  (InStep(d))' /\ \A c \in Cards : IsPrefix(content[c], content'[c])
  <2>1. /\ p.step = "record" /\ phase'[d] = "writing" /\ UNCHANGED <<journal, content>>
        /\ pipes'[d] = {[p EXCEPT !.step = "clear"]}
    BY <1>6, <1>d, <1>k DEF Record, Advance, screen, refs, world
  <2>2. outbox'[d] \cup txlog'[d] \subseteq outbox[d] \cup txlog[d] \cup {Of(p)}
    BY <1>6, <1>d DEF Record
  <2>3. (BooksFollow(d))'
    <3>1. SUFFICES ASSUME NEW e \in outbox[d] \cup txlog[d] \cup {Of(p)}
                   PROVE  IsPrefix(e.data, content[e.card])
      BY <2>1, <2>2 DEF BooksFollow
    <3>2. CASE e = Of(p)
      BY <1>k, <1>n, <1>r, <2>1, <3>2 DEF Of
    <3>3. CASE e # Of(p)
      BY <1>n, <3>1, <3>3 DEF BooksFollow
    <3>4. QED BY <3>2, <3>3
  <2>4. (WritesInStep(d))'
    BY <1>n, <1>q, <2>1 DEF Steps
  <2>5. QED BY <1>q, <2>1, <2>3, <2>4 DEF InStep, ShownTrue
<1>7. ASSUME Finish(d, p)
      PROVE  (InStep(d))' /\ \A c \in Cards : IsPrefix(content[c], content'[c])
  <2>1. /\ pipes'[d] = {} /\ phase'[d] = "success" /\ UNCHANGED <<content, outbox, txlog>>
        /\ journal' = [journal EXCEPT ![d][p.card] = NoCard]
    BY <1>7, <1>d, <1>k DEF Finish, ClearWriteJournal, Show, books, world
  <2>2. \A c \in Cards : journal'[d][c] # NoCard => journal'[d][c] = journal[d][c]
    BY <1>d, <2>1
  <2>3. (JournalLeads(d))'
    BY <1>n, <2>1, <2>2 DEF JournalLeads
  <2>4. QED BY <1>q, <2>1, <2>3 DEF InStep, ShownTrue
<1>8. ~site.saveMayFail
  BY DEF Undisturbed
<1>9. QED BY <1>p, <1>1, <1>2, <1>3, <1>4, <1>5, <1>6, <1>7, <1>8 DEF PipeStep

-----------------------------------------------------------------------------
(* The inductive invariant of the two properties about one kiosk.          *)
OneInv == BooksInv /\ (Undisturbed => \A d \in Devices : InStep(d))

LEMMA OneInit == Init => OneInv
<1> SUFFICES ASSUME Init PROVE OneInv
  OBVIOUS
<1>1. \A d \in Devices : InStep(d)
  BY DEF Init, InStep, ShownTrue, JournalLeads, WritesInStep, BooksFollow
<1>2. QED BY <1>1, BooksInit DEF OneInv

LEMMA OneStep ==
    ASSUME NEW dev, Devices = {dev}, OneInv, [Next]_vars
    PROVE  OneInv' /\ (Undisturbed => \A c \in Cards : IsPrefix(content[c], content'[c]))
<1>0. TypeInv /\ ops \in Nat /\ content \in [Cards -> Data(ops)]
  BY NfcAssumption DEF OneInv, BooksInv, TypeInv, LimitsOK, WorldOK
<1>1. BooksInv'
  BY BooksStep DEF OneInv
<1>r. \A c \in Cards : IsPrefix(content[c], content[c])
  BY <1>0, PrefixFacts
<1>2. ASSUME Operate(dev) \/ Pipeline(dev) \/ PendingTimeout(dev) \/ AutoReset(dev), Undisturbed
      PROVE  (InStep(dev))' /\ \A c \in Cards : IsPrefix(content[c], content'[c])
  <2>1. TypeInv /\ Undisturbed /\ KioskOK(dev) /\ InStep(dev)
    BY <1>2 DEF OneInv, BooksInv
  <2>2. CASE Pipeline(dev)
    BY <2>1, <2>2, InStepPipeline
  <2>3. CASE Operate(dev) \/ PendingTimeout(dev) \/ AutoReset(dev)
    BY <1>r, <2>1, <2>3, InStepOperate
  <2>4. QED BY <1>2, <2>2, <2>3
<1>3. ASSUME Operate(dev) \/ Pipeline(dev) \/ PendingTimeout(dev) \/ AutoReset(dev)
      PROVE  (Undisturbed' => Undisturbed)
  BY <1>3, SiteStays DEF Undisturbed
<1>4. CASE Next
  <2>1. Operate(dev) \/ Pipeline(dev) \/ PendingTimeout(dev) \/ AutoReset(dev)
    BY <1>4 DEF Next
  <2>2. Undisturbed' => (\A d \in Devices : InStep(d))'
    BY <1>2, <1>3, <2>1
  <2>3. QED BY <1>1, <1>2, <2>1, <2>2 DEF OneInv
<1>5. CASE UNCHANGED vars
  <2>1. UNCHANGED <<phase, shown, pipes, journal, outbox, txlog, content, site>>
    BY <1>5 DEF vars, screen, books, world, limits
  <2>2. Undisturbed' => (\A d \in Devices : InStep(d))'
    BY <2>1 DEF OneInv, Undisturbed, InStep, ShownTrue, JournalLeads, WritesInStep, BooksFollow
  <2>3. QED BY <1>1, <1>r, <2>1, <2>2 DEF OneInv
<1>6. QED BY <1>4, <1>5

(* At a kiosk one write at a time holds the reader, and what its books say *)
(* happened to a card is still on it, for any number of cards, operations  *)
(* and recovery attempts and through any crashes.                          *)
THEOREM RecordedStays ==
    ASSUME NEW CONSTANT dev, Devices = {dev}
    PROVE  Spec => []RecordedIsOnCard
<1>1. OneInv => RecordedIsOnCard
  <2> SUFFICES ASSUME OneInv, Undisturbed, NEW d \in Devices
               PROVE  /\ Cardinality({p \in pipes[d] : ~p.aborted}) <= 1
                      /\ \A e \in outbox[d] \cup txlog[d] : IsPrefix(e.data, content[e.card])
    BY DEF RecordedIsOnCard
  <2>1. KioskOK(d) /\ InStep(d)
    BY DEF OneInv, BooksInv
  <2> DEFINE Running == {p \in pipes[d] : ~p.aborted}
  <2>2. Running = {} \/ \E p : Running = {p}
    BY <2>1 DEF KioskOK
  <2> HIDE DEF Running
  <2>3. Cardinality(Running) = 0 \/ Cardinality(Running) = 1
    BY <2>2, FS_EmptySet, FS_Singleton
  <2>4. Cardinality(Running) <= 1
    BY <2>3
  <2>5. QED BY <2>1, <2>4 DEF Running, InStep, BooksFollow
<1>2. OneInv /\ [Next]_vars => OneInv'
  BY OneStep
<1>3. QED BY <1>1, <1>2, OneInit, PTL DEF Spec

(* At a kiosk no write takes an operation off a card: whatever a card      *)
(* holds after a step contains what it held before, whether the write was  *)
(* a first attempt, a deferred one or a recovery from the journal.         *)
THEOREM NothingRolledBack ==
    ASSUME NEW CONSTANT dev, Devices = {dev}
    PROVE  Spec => NoRollback
<1>1. OneInv /\ [Next]_vars => OneInv'
  BY OneStep
<1>2. OneInv /\ [Next]_vars => [Undisturbed => \A c \in Cards : IsPrefix(content[c], content'[c])]_content
  BY OneStep
<1>3. QED BY <1>1, <1>2, OneInit, PTL DEF Spec, NoRollback

=============================================================================

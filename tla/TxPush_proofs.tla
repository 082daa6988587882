---------------------------- MODULE TxPush_proofs ----------------------------
(***************************************************************************)
(* Proofs about the push, for any number of devices, counters and requests *)
(* being handled, and at any of the sites: VerdictsAreTrue, that what a    *)
(* device is told and what the server notes are true, and                  *)
(* CounterNeverFalls.  The inductive invariant says which request is whose *)
(* (Sent, Covered), whose transactions it carries (Owned, RequestsOK), and *)
(* what the server has done for those that are not in it any more.         *)
(***************************************************************************)
EXTENDS TxPush, FiniteSetTheorems, FunctionTheorems, SequenceTheorems, WellFoundedInduction, TLAPS

Rows     == [counter: Nat, tx: Tx]
LogRows  == [by: Devices, flagged: BOOLEAN]
Records  == [sync: {"absent", "pending", "synced"}, counter: Nat, tx: Tx]
Requests == EntityTask \cup PushTask

DevicesOK ==
    /\ entries \in [Devices -> [Counters -> Status]] /\ record \in [Devices -> Records]
    /\ stage \in [Devices -> {"idle", "entities", "transactions", "push"}]
    /\ batch \in [Devices -> Seq(Counters)] /\ left \in [Devices -> Seq(Counters)]
    /\ sent \in [Devices -> 0..MaxTasks]

TasksOK  == tasks \in [Tasks -> Requests \cup {NoTask}]
ServerOK == serverLog \in [Counters -> LogRows \cup {NoTx}] /\ row \in Rows \cup {NoRow}
LimitsOK == head \in 0..MaxCounter /\ site \in Sites /\ faults \in 0..site.maxFaults

(* A request is answered when, and only when, no transaction is left in it. *)
StepsOK ==
    /\ \A d \in Devices : stage[d] = "push" => batch[d] # <<>>
    /\ \A t \in Tasks : tasks[t] \in PushTask => (tasks[t].step = "reply" <=> tasks[t].rest = <<>>)

TypeInv == DevicesOK /\ TasksOK /\ ServerOK /\ LimitsOK /\ StepsOK

(* Nobody but d has written what d holds, unless cards fork.               *)
Owned ==
    /\ \A d \in Devices, n \in Counters : entries[d][n] # "none" => n <= head
    /\ site.fork \/ \A d, e \in Devices, n \in Counters :
                       entries[d][n] # "none" /\ entries[e][n] # "none" => d = e
    /\ \A n \in Counters : serverLog[n] # NoTx => entries[serverLog[n].by][n] # "none"

(* No two devices await the answer of one request.                         *)
Sent == \A d, e \in Devices : sent[d] # 0 /\ sent[d] = sent[e] => d = e

(* A request carries transactions of the device that sent it; what it is   *)
(* about to answer has been done.                                          *)
EntityOK(k, r) == k.known # NoRow => r # NoRow
PushOK(k, held, log, r) ==
    /\ \A n \in ToSet(k.rest) : held[k.by][n] # "none"
    /\ \A n \in k.stales : log[n] # NoTx
    /\ k.step = "update" => log[Head(k.rest)] # NoTx
    /\ k.step = "insert" /\ k.stale => r # NoRow /\ Head(k.rest) <= r.counter
RequestsOK == \A t \in Tasks : /\ tasks[t] \in EntityTask => EntityOK(tasks[t], row)
                               /\ tasks[t] \in PushTask => PushOK(tasks[t], entries, serverLog, row)

(* The transactions of a batch that are not in the request any more, and   *)
(* were not refused, are stored.                                           *)
Carried == \A d \in Devices : \A n \in ToSet(batch[d]) \cup ToSet(left[d]) : entries[d][n] # "none"
Covers(d, b, k, log) ==
    /\ k \in PushTask /\ k.by = d
    /\ \A n \in ToSet(b) : n \in ToSet(k.rest) \cup k.errors \/ log[n] # NoTx
Covered == \A d \in Devices :
    stage[d] = "push" /\ sent[d] # 0 /\ tasks[sent[d]] # NoTask
        => Covers(d, batch[d], tasks[sent[d]], serverLog)

Told == \A d \in Devices, n \in Counters : entries[d][n] \in {"synced", "conflict"} => serverLog[n] # NoTx

PushInv == TypeInv /\ Owned /\ Sent /\ RequestsOK /\ Carried /\ Covered /\ Told /\ FlaggedIsSuperseded
-----------------------------------------------------------------------------
(* A set of naturals has a least element: induction, without an operator.  *)
LEMMA Least ==
    ASSUME NEW S \in SUBSET Nat, S # {}
    PROVE  \E n \in S : \A m \in S : n <= m
<1> DEFINE R == OpToRel(<, Nat)
<1>1. IsWellFoundedOn(R, Nat)
  BY NatLessThanWellFounded
<1>2. \A x, y \in Nat : x < y => <<x, y>> \in R
  BY DEF OpToRel
<1> HIDE DEF R
<1>3. PICK n \in S : \A y \in S : ~ (<<y, n>> \in R)
  BY <1>1, WFMin
<1>4. ASSUME NEW m \in S PROVE n <= m
  <2>1. n \in Nat /\ m \in Nat /\ ~(m < n)
    BY <1>2, <1>3
  <2>2. QED BY <2>1
<1>5. QED BY <1>4

(* The counters of a set can be put in order.                              *)
Ordered(S, f) ==
    f \in [1..Cardinality(S) -> S] /\ \A i, j \in 1..Cardinality(S) : i < j => f[i] < f[j]

LEMMA CanBeOrdered == \A n \in Nat : \A S \in SUBSET (1..n) : IsFiniteSet(S) /\ \E f : Ordered(S, f)
<1> DEFINE Bad == {n \in Nat : ~ \A S \in SUBSET (1..n) : \E f : Ordered(S, f)}
<1>0. \A n \in Nat : IsFiniteSet(1..n) /\ \A S \in SUBSET (1..n) : IsFiniteSet(S)
  <2>1. ASSUME NEW n \in Nat PROVE IsFiniteSet(1..n)
    BY FS_Interval
  <2>2. QED BY <2>1, FS_Subset
<1>1. SUFFICES ASSUME Bad # {} PROVE FALSE
  BY <1>0
<1>2. PICK n \in Bad : \A m \in Bad : n <= m
  <2>1. Bad \in SUBSET Nat
    OBVIOUS
  <2> HIDE DEF Bad
  <2>2. QED BY <1>1, <2>1, Least
<1>3. PICK S \in SUBSET (1..n) : ~ \E f : Ordered(S, f)
  OBVIOUS
<1>4. S # {}
  <2>1. Cardinality({}) = 0
    BY FS_EmptySet
  <2>2. Ordered({}, <<>>)
    BY <2>1 DEF Ordered
  <2>3. QED BY <1>3, <2>2
<1>5. n \in Nat \ {0}
  <2>1. n \in Nat
    OBVIOUS
  <2> HIDE DEF Bad
  <2>2. PICK x : x \in S
    BY <1>4
  <2>3. x \in 1..n
    BY <2>2
  <2>4. QED BY <2>1, <2>3
<1>6. n - 1 \in Nat /\ n - 1 \notin Bad
  <2>1. n - 1 \in Nat /\ ~(n <= n - 1)
    BY <1>5
  <2> HIDE DEF Bad
  <2>2. QED BY <1>2, <2>1
<1>7. \A T \in SUBSET (1..(n - 1)) : \E f : Ordered(T, f)
  BY <1>6
<1>8. n \in S
  BY <1>3, <1>5, <1>7
<1> DEFINE T == S \ {n}
<1>9. T \in SUBSET (1..(n - 1))
  BY <1>5
<1>10. PICK f : Ordered(T, f)
  BY <1>7, <1>9
<1>11. IsFiniteSet(S) /\ Cardinality(T) = Cardinality(S) - 1 /\ Cardinality(S) \in Nat
  BY <1>0, <1>5, <1>8, FS_RemoveElement, FS_CardinalityType
<1> DEFINE c == Cardinality(T)
           g == [i \in 1..(c + 1) |-> IF i = c + 1 THEN n ELSE f[i]]
<1>12. c \in Nat /\ Cardinality(S) = c + 1
  <2>1. IsFiniteSet(T)
    BY <1>11, FS_RemoveElement
  <2>2. QED BY <1>11, <2>1, FS_CardinalityType
<1>13. f \in [1..c -> T] /\ \A i, j \in 1..c : i < j => f[i] < f[j]
  BY <1>10 DEF Ordered
<1> HIDE DEF c, Bad
<1>14. g \in [1..(c + 1) -> S]
  BY <1>8, <1>12, <1>13
<1>15. ASSUME NEW i \in 1..(c + 1), NEW j \in 1..(c + 1), i < j
       PROVE  g[i] < g[j]
  <2>1. i \in 1..c
    BY <1>12, <1>15
  <2>2. g[i] = f[i] /\ f[i] \in 1..(n - 1)
    BY <1>9, <1>12, <1>13, <2>1
  <2>3. CASE j = c + 1
    BY <1>5, <2>2, <2>3
  <2>4. CASE j # c + 1
    <3>1. j \in 1..c
      BY <1>12, <2>4
    <3>2. QED BY <1>13, <1>15, <2>1, <2>2, <2>4, <3>1
  <2>5. QED BY <2>3, <2>4
<1> HIDE DEF g
<1>16. Ordered(S, g)
  BY <1>12, <1>14, <1>15 DEF Ordered
<1>17. QED BY <1>3, <1>16

(* InOrder lists the members of the set, each once.                        *)
LEMMA InOrderLists ==
    ASSUME NEW S \in SUBSET Counters
    PROVE  InOrder(S) \in Seq(S) /\ ToSet(InOrder(S)) \subseteq S
<1>1. MaxCounter \in Nat
  BY PushAssumption
<1>2. PICK f : Ordered(S, f)
  BY <1>1, CanBeOrdered DEF Counters
<1>3. IsFiniteSet(S) /\ Cardinality(S) \in Nat
  BY <1>1, CanBeOrdered, FS_CardinalityType DEF Counters
<1>4. InOrder(S) \in [1..Cardinality(S) -> S]
  BY <1>2 DEF InOrder, Ordered
<1>5. InOrder(S) \in Seq(S)
  BY <1>3, <1>4
<1>6. QED BY <1>4, <1>5 DEF ToSet

-----------------------------------------------------------------------------
(* What is in a sequence of counters, and in its parts.                    *)
LEMMA RestFacts ==
    ASSUME NEW s \in Seq(Counters), s # <<>>
    PROVE  /\ Head(s) \in Counters /\ Tail(s) \in Seq(Counters)
           /\ Head(s) \in ToSet(s)
           /\ \A n : n \in ToSet(s) <=> n = Head(s) \/ n \in ToSet(Tail(s))
<1>1. /\ Len(s) \in Nat /\ Len(s) # 0 /\ s \in [1..Len(s) -> Counters] /\ Head(s) = s[1]
      /\ Tail(s) \in Seq(Counters) /\ Len(Tail(s)) = Len(s) - 1
      /\ \A i \in 1..(Len(s) - 1) : Tail(s)[i] = s[i + 1]
  BY HeadTailProperties, LenProperties, EmptySeq
<1>2. 1 \in 1..Len(s)
  BY <1>1
<1>3. DOMAIN s = 1..Len(s) /\ DOMAIN Tail(s) = 1..(Len(s) - 1)
  BY <1>1, LenProperties
<1>4. ASSUME NEW n \in ToSet(s)
      PROVE  n = Head(s) \/ n \in ToSet(Tail(s))
  <2>1. PICK i \in 1..Len(s) : n = s[i]
    BY <1>3 DEF ToSet
  <2>2. CASE i = 1
    BY <1>1, <2>1, <2>2
  <2>3. CASE i # 1
    <3>1. i - 1 \in 1..(Len(s) - 1) /\ (i - 1) + 1 = i
      BY <1>1, <2>3
    <3>2. Tail(s)[i - 1] = n
      BY <1>1, <2>1, <3>1
    <3>3. QED BY <1>3, <3>1, <3>2 DEF ToSet
  <2>4. QED BY <2>2, <2>3
<1>5. ASSUME NEW n \in ToSet(Tail(s))
      PROVE  n \in ToSet(s)
  <2>1. PICK i \in 1..(Len(s) - 1) : n = Tail(s)[i]
    BY <1>3 DEF ToSet
  <2>2. i + 1 \in 1..Len(s) /\ n = s[i + 1]
    BY <1>1, <2>1
  <2>3. QED BY <1>3, <2>2 DEF ToSet
<1>6. Head(s) \in Counters /\ Head(s) \in ToSet(s)
  BY <1>1, <1>2, <1>3 DEF ToSet
<1>7. QED BY <1>1, <1>4, <1>5, <1>6

LEMMA PartFacts ==
    ASSUME NEW s \in Seq(Counters), NEW a \in Nat \ {0}, NEW b \in 0..Len(s)
    PROVE  SubSeq(s, a, b) \in Seq(Counters) /\ ToSet(SubSeq(s, a, b)) \subseteq ToSet(s)
<1>1. Len(s) \in Nat /\ DOMAIN s = 1..Len(s) /\ s \in [1..Len(s) -> Counters]
  BY LenProperties
<1> DEFINE u == SubSeq(s, a, b)
<1>2. \A i \in a..b : s[i] \in Counters
  BY <1>1
<1>3. /\ u \in Seq(Counters) /\ Len(u) = IF a <= b THEN b - a + 1 ELSE 0
      /\ \A i \in 1..(b - a + 1) : u[i] = s[a + i - 1]
  BY <1>1, <1>2, SubSeqProperties
<1> HIDE DEF u
<1>4. DOMAIN u = 1..Len(u) /\ Len(u) \in Nat
  BY <1>3, LenProperties
<1>5. ASSUME NEW n \in ToSet(u)
      PROVE  n \in ToSet(s)
  <2>1. PICK i \in 1..Len(u) : n = u[i]
    BY <1>4 DEF ToSet
  <2>2. a <= b /\ i \in 1..(b - a + 1)
    BY <1>1, <1>3, <1>4, <2>1
  <2>3. n = s[a + i - 1]
    BY <1>3, <2>1, <2>2
  <2>4. a + i - 1 \in 1..Len(s)
    BY <1>1, <2>2
  <2>5. QED BY <1>1, <2>3, <2>4 DEF ToSet
<1>6. QED BY <1>3, <1>5 DEF u

LEMMA BatchFacts ==
    ASSUME NEW s \in Seq(Counters), site \in Sites
    PROVE  /\ FirstBatch(s) \in Seq(Counters) /\ ToSet(FirstBatch(s)) \subseteq ToSet(s)
           /\ Others(s) \in Seq(Counters) /\ ToSet(Others(s)) \subseteq ToSet(s)
           /\ s # <<>> => FirstBatch(s) # <<>>
<1>1. Len(s) \in Nat /\ site.maxBatch \in Nat \ {0}
  BY LenProperties, PushAssumption
<1> DEFINE m == site.maxBatch
           n == Min({m, Len(s)})
<1>2. n \in 0..Len(s) /\ (Len(s) # 0 => n # 0)
  <2>1. \E x \in {m, Len(s)} : \A y \in {m, Len(s)} : x <= y
    BY <1>1
  <2>2. n \in {m, Len(s)} /\ n <= m /\ n <= Len(s)
    BY <2>1 DEF Min
  <2>3. QED BY <1>1, <2>2
<1>3. FirstBatch(s) = SubSeq(s, 1, n) /\ Others(s) = SubSeq(s, m + 1, Len(s))
  BY DEF FirstBatch, Others
<1>4. m + 1 \in Nat \ {0} /\ Len(s) \in 0..Len(s)
  BY <1>1
<1> HIDE DEF n, m
<1>5. FirstBatch(s) \in Seq(Counters) /\ ToSet(FirstBatch(s)) \subseteq ToSet(s)
  BY <1>2, <1>3, PartFacts
<1>6. Others(s) \in Seq(Counters) /\ ToSet(Others(s)) \subseteq ToSet(s)
  BY <1>1, <1>3, <1>4, PartFacts
<1>7. ASSUME s # <<>>
      PROVE  FirstBatch(s) # <<>>
  <2>1. Len(s) # 0
    BY <1>7, EmptySeq
  <2>2. n \in 1..Len(s)
    BY <1>1, <1>2, <2>1
  <2>3. \A i \in 1..n : s[i] \in Counters
    BY <1>1, <2>2, LenProperties
  <2>4. Len(SubSeq(s, 1, n)) = n - 1 + 1
    BY <1>1, <2>2, <2>3, SubSeqProperties
  <2>5. Len(FirstBatch(s)) # 0
    BY <1>3, <2>2, <2>4
  <2>6. QED BY <2>5, EmptySeq
<1>8. QED BY <1>5, <1>6, <1>7

(* Only what a device holds is read from its outbox.                       *)
LEMMA SyncableFacts ==
    ASSUME NEW d \in Devices
    PROVE  /\ Syncable(d) \in Seq(Counters)
           /\ \A n \in ToSet(Syncable(d)) : entries[d][n] # "none"
<1> DEFINE p == WithStatus(d, "pending")
           c == WithStatus(d, "conflict")
<1>1. /\ p \in Seq(Counters) /\ \A n \in ToSet(p) : entries[d][n] # "none"
      /\ c \in Seq(Counters) /\ \A n \in ToSet(c) : entries[d][n] # "none"
  <2>1. ASSUME NEW s
        PROVE  /\ WithStatus(d, s) \in Seq(Counters)
               /\ \A n \in ToSet(WithStatus(d, s)) : entries[d][n] = s
    <3> DEFINE S == {n \in Counters : entries[d][n] = s}
    <3>1. S \in SUBSET Counters
      OBVIOUS
    <3>2. WithStatus(d, s) = InOrder(S)
      BY DEF WithStatus
    <3> HIDE DEF S
    <3>3. InOrder(S) \in Seq(S) /\ ToSet(InOrder(S)) \subseteq S
      BY <3>1, InOrderLists
    <3>4. InOrder(S) \in Seq(Counters)
      <4>1. InOrder(S) \in [1..Len(InOrder(S)) -> S] /\ Len(InOrder(S)) \in Nat
        BY <3>3, LenProperties
      <4>2. InOrder(S) \in [1..Len(InOrder(S)) -> Counters]
        BY <3>1, <4>1
      <4>3. QED BY <4>1, <4>2
    <3>5. \A n \in S : entries[d][n] = s
      BY DEF S
    <3>6. QED BY <3>2, <3>3, <3>4, <3>5
  <2>2. QED BY <2>1
<1>2. Syncable(d) = p \o c
  BY DEF Syncable
<1> HIDE DEF p, c
<1>3. p \o c \in Seq(Counters) /\ Len(p \o c) = Len(p) + Len(c)
  BY <1>1, ConcatProperties
<1>4. Len(p) \in Nat /\ Len(c) \in Nat /\ DOMAIN p = 1..Len(p) /\ DOMAIN c = 1..Len(c) /\ DOMAIN (p \o c) = 1..Len(p \o c)
  BY <1>1, <1>3, LenProperties
<1>5. ASSUME NEW n \in ToSet(p \o c)
      PROVE  entries[d][n] # "none"
  <2>1. PICK i \in 1..(Len(p) + Len(c)) : n = (p \o c)[i]
    BY <1>3, <1>4 DEF ToSet
  <2>2. n = IF i <= Len(p) THEN p[i] ELSE c[i - Len(p)]
    BY <1>1, <1>4, <2>1, ConcatProperties
  <2>3. CASE i <= Len(p)
    BY <1>1, <1>4, <2>2, <2>3 DEF ToSet
  <2>4. CASE ~(i <= Len(p))
    <3>1. i - Len(p) \in 1..Len(c)
      BY <1>4, <2>4
    <3>2. QED BY <1>1, <1>4, <2>2, <2>4, <3>1 DEF ToSet
  <2>5. QED BY <2>3, <2>4
<1>6. QED BY <1>2, <1>3, <1>5

-----------------------------------------------------------------------------
(* The requests, as the steps of the device and of the server make them.   *)
LEMMA TwoKinds == \A k \in EntityTask : k \notin PushTask /\ k # NoTask
BY NothingAssumption DEF EntityTask, PushTask

LEMMA Requested ==
    ASSUME TypeInv, NEW d \in Devices
    PROVE  /\ EntityRequest(d) \in EntityTask /\ EntityRequest(d).known = NoRow
           /\ \A b \in Seq(Counters) :
                 LET k == PushRequest(d, b) IN
                 /\ k \in PushTask /\ k.by = d /\ k.rest = b /\ k.step = "find" /\ k.stales = {} /\ k.errors = {}
<1>1. record[d] \in Records
  BY DEF TypeInv, DevicesOK
<1>2. EntityRequest(d) \in EntityTask /\ EntityRequest(d).known = NoRow
  BY <1>1 DEF EntityRequest, EntityTask, Records
<1>3. QED BY <1>2 DEF PushRequest, PushTask

Finished(k, stales, errors) ==
    [k EXCEPT !.rest = Tail(k.rest), !.stale = FALSE,
              !.step = IF Tail(k.rest) = <<>> THEN "reply" ELSE "find",
              !.stales = @ \cup stales, !.errors = @ \cup errors]

FinishesAs(t, stales, errors, f) ==
    /\ tasks[t] \in PushTask /\ tasks[t].step # "reply" /\ {stales, errors} \subseteq SUBSET Counters
    /\ f = Finished(tasks[t], stales, errors)

LEMMA FinishFacts ==
    ASSUME TypeInv, NEW t \in Tasks, NEW stales, NEW errors, NEW f, FinishesAs(t, stales, errors, f)
    PROVE  /\ tasks[t].rest # <<>> /\ Current(t) = Head(tasks[t].rest) /\ Current(t) \in Counters
           /\ f \in PushTask /\ f.by = tasks[t].by /\ f.rest = Tail(tasks[t].rest)
           /\ f.step \in {"find", "reply"} /\ (f.step = "reply" <=> f.rest = <<>>)
           /\ f.stales = tasks[t].stales \cup stales /\ f.errors = tasks[t].errors \cup errors
           /\ \A n : n \in ToSet(tasks[t].rest) <=> n = Head(tasks[t].rest) \/ n \in ToSet(f.rest)
<1> USE DEF FinishesAs
<1>1. PICK k : k = tasks[t]
  OBVIOUS
<1>2. k \in PushTask /\ k.rest \in Seq(Counters) /\ k.rest # <<>>
  BY <1>1 DEF PushTask, TypeInv, StepsOK
<1>3. /\ Head(k.rest) \in Counters /\ Tail(k.rest) \in Seq(Counters)
      /\ \A n : n \in ToSet(k.rest) <=> n = Head(k.rest) \/ n \in ToSet(Tail(k.rest))
  BY <1>2, RestFacts
<1> DEFINE g == Finished(k, stales, errors)
<1>4. g \in PushTask
  BY <1>2, <1>3 DEF PushTask, Finished
<1>5. g.by = k.by /\ g.rest = Tail(k.rest)
  BY <1>2 DEF PushTask, Finished
<1>6. g.step = IF Tail(k.rest) = <<>> THEN "reply" ELSE "find"
  BY <1>2 DEF PushTask, Finished
<1>7. g.stales = k.stales \cup stales /\ g.errors = k.errors \cup errors
  BY <1>2 DEF PushTask, Finished
<1>8. f = g
  BY <1>1
<1> HIDE DEF g
<1>9. QED BY <1>1, <1>2, <1>3, <1>4, <1>5, <1>6, <1>7, <1>8 DEF Current

-----------------------------------------------------------------------------
(* A step of the server, at request t, which becomes k.                    *)
Becomes(t, k) ==
    /\ tasks[t] # NoTask /\ k \in Requests /\ tasks' = [tasks EXCEPT ![t] = k]
    /\ k \in PushTask => (k.step = "reply" <=> k.rest = <<>>)
    /\ tasks[t] \in PushTask =>
          /\ k \in PushTask /\ k.by = tasks[t].by
          /\ \A n \in ToSet(tasks[t].rest) \cup tasks[t].errors :
                n \in ToSet(k.rest) \cup k.errors \/ serverLog'[n] # NoTx
    /\ k \in EntityTask => EntityOK(k, row')
    /\ k \in PushTask => PushOK(k, entries, serverLog', row')

(* What it may do to the log and the row.                                  *)
Grows ==
    /\ UNCHANGED <<head, device, site, faults>>
    /\ serverLog' \in [Counters -> LogRows \cup {NoTx}] /\ row' \in Rows \cup {NoRow}
    /\ \A n \in Counters : /\ serverLog[n] # NoTx => serverLog'[n] # NoTx
                           /\ serverLog'[n] # NoTx => entries[serverLog'[n].by][n] # "none"
    /\ row # NoRow => row' # NoRow /\ row'.counter >= row.counter
    /\ FlaggedIsSuperseded'

LEMMA ServerKeeps ==
    ASSUME PushInv, NEW t \in Tasks, NEW k, Becomes(t, k), Grows
    PROVE  PushInv'
<1>k. /\ tasks[t] # NoTask /\ k \in Requests /\ tasks' = [tasks EXCEPT ![t] = k]
      /\ k \in PushTask => (k.step = "reply" <=> k.rest = <<>>)
      /\ k \in EntityTask => EntityOK(k, row')
      /\ k \in PushTask => PushOK(k, entries, serverLog', row')
  BY DEF Becomes
<1>c. tasks[t] \in PushTask =>
         /\ k \in PushTask /\ k.by = tasks[t].by
         /\ \A n \in ToSet(tasks[t].rest) \cup tasks[t].errors :
               n \in ToSet(k.rest) \cup k.errors \/ serverLog'[n] # NoTx
  BY DEF Becomes
<1>g. /\ serverLog' \in [Counters -> LogRows \cup {NoTx}] /\ row' \in Rows \cup {NoRow}
      /\ \A n \in Counters : /\ serverLog[n] # NoTx => serverLog'[n] # NoTx
                             /\ serverLog'[n] # NoTx => entries[serverLog'[n].by][n] # "none"
      /\ row # NoRow => row' # NoRow /\ row'.counter >= row.counter
  BY DEF Grows
<1>0. /\ TypeInv /\ Owned /\ Sent /\ RequestsOK /\ Carried /\ Covered /\ Told
      /\ tasks \in [Tasks -> Requests \cup {NoTask}] /\ serverLog \in [Counters -> LogRows \cup {NoTx}]
  BY DEF PushInv, TypeInv, TasksOK, ServerOK
<1>u. UNCHANGED <<head, entries, record, stage, batch, left, sent, site, faults>>
  BY DEF device, Grows
<1>t. \A x \in Tasks : tasks'[x] = IF x = t THEN k ELSE tasks[x]
  BY <1>0, <1>k
<1>1. TypeInv'
  <2>1. TasksOK' /\ DevicesOK' /\ ServerOK' /\ LimitsOK'
    BY <1>0, <1>g, <1>k, <1>u DEF TypeInv, TasksOK, DevicesOK, ServerOK, LimitsOK
  <2>2. StepsOK'
    BY <1>0, <1>k, <1>t, <1>u DEF TypeInv, StepsOK
  <2>3. QED BY <2>1, <2>2 DEF TypeInv
<1>2. Owned' /\ Sent' /\ Carried' /\ Told'
  BY <1>0, <1>g, <1>u DEF Owned, Sent, Carried, Told
<1>3. RequestsOK'
  <2>1. ASSUME NEW x \in Tasks, x # t
        PROVE  /\ tasks[x] \in EntityTask => EntityOK(tasks[x], row')
               /\ tasks[x] \in PushTask => PushOK(tasks[x], entries, serverLog', row')
    <3>1. tasks[x] \in EntityTask => EntityOK(tasks[x], row')
      BY <1>0, <1>g DEF RequestsOK, EntityOK
    <3>2. ASSUME tasks[x] \in PushTask
          PROVE  PushOK(tasks[x], entries, serverLog', row')
      <4> DEFINE r == tasks[x]
      <4>1. PushOK(r, entries, serverLog, row)
        BY <1>0, <3>2 DEF RequestsOK
      <4>2. r \in PushTask /\ (r.step # "reply" => r.rest # <<>>)
        BY <1>0, <3>2 DEF TypeInv, StepsOK
      <4> HIDE DEF r
      <4>3. r.rest \in Seq(Counters) /\ r.stales \subseteq Counters
        BY <4>2 DEF PushTask
      <4>4. r.step # "reply" => Head(r.rest) \in Counters
        BY <4>2, <4>3, RestFacts
      <4>5. r.step = "update" => serverLog'[Head(r.rest)] # NoTx
        BY <1>g, <4>1, <4>4 DEF PushOK
      <4>6. \A n \in r.stales : serverLog'[n] # NoTx
        BY <1>g, <4>1, <4>3 DEF PushOK
      <4>7. r.step = "insert" /\ r.stale => row' # NoRow /\ Head(r.rest) <= row'.counter
        <5>1. SUFFICES ASSUME r.step = "insert", r.stale
                       PROVE  row' # NoRow /\ Head(r.rest) <= row'.counter
          OBVIOUS
        <5>2. row # NoRow /\ Head(r.rest) <= row.counter /\ Head(r.rest) \in Nat
          BY <4>1, <4>4, <5>1 DEF PushOK, Counters
        <5>3. row.counter \in Nat /\ row'.counter \in Nat /\ row' # NoRow /\ row'.counter >= row.counter
          BY <1>0, <1>g, <5>2 DEF Rows, TypeInv, ServerOK
        <5>4. QED BY <5>2, <5>3
      <4>8. \A n \in ToSet(r.rest) : entries[r.by][n] # "none"
        BY <4>1 DEF PushOK
      <4>9. PushOK(r, entries, serverLog', row')
        BY <4>5, <4>6, <4>7, <4>8 DEF PushOK
      <4>10. QED BY <4>9 DEF r
    <3>3. QED BY <3>1, <3>2
  <2>2. QED BY <1>k, <1>t, <1>u, <2>1 DEF RequestsOK
<1>4. Covered'
  <2>1. SUFFICES ASSUME NEW d \in Devices, stage[d] = "push", sent[d] # 0, tasks'[sent[d]] # NoTask
                 PROVE  Covers(d, batch[d], tasks'[sent[d]], serverLog')
    BY <1>u DEF Covered
  <2>2. sent[d] \in Tasks /\ batch[d] \in Seq(Counters)
    BY <1>0, <2>1, PushAssumption DEF TypeInv, DevicesOK, Tasks
  <2>3. ToSet(batch[d]) \subseteq Counters
    BY <2>2, LenProperties DEF ToSet
  <2>4. Covers(d, batch[d], tasks[sent[d]], serverLog)
    BY <1>0, <1>k, <1>t, <2>1, <2>2 DEF Covered
  <2>5. CASE sent[d] = t
    BY <1>c, <1>g, <1>t, <2>3, <2>4, <2>5 DEF Covers
  <2>6. CASE sent[d] # t
    BY <1>g, <1>t, <2>2, <2>3, <2>4, <2>6 DEF Covers
  <2>7. QED BY <2>5, <2>6
<1>5. FlaggedIsSuperseded'
  BY DEF Grows
<1>6. QED BY <1>1, <1>2, <1>3, <1>4, <1>5 DEF PushInv

(* The same for a step that is done with the first transaction left.       *)
Handles(t, stales, errors) ==
    /\ tasks[t] \in PushTask /\ tasks[t].step # "reply"
    /\ {stales, errors} \subseteq SUBSET Counters /\ Finish(t, stales, errors)
    /\ Current(t) \in errors \/ serverLog'[Current(t)] # NoTx
    /\ \A n \in stales : serverLog'[n] # NoTx

LEMMA FinishKeeps ==
    ASSUME PushInv, NEW t \in Tasks, NEW stales, NEW errors, Handles(t, stales, errors), Grows
    PROVE  PushInv'
<1> USE DEF Handles
<1>1. TypeInv /\ RequestsOK
  BY DEF PushInv
<1>2. PICK f : f = Finished(tasks[t], stales, errors)
  OBVIOUS
<1>a. tasks' = [tasks EXCEPT ![t] = f]
  <2>1. tasks \in [Tasks -> Requests \cup {NoTask}]
    BY <1>1 DEF TypeInv, TasksOK
  <2>2. QED BY <1>2, <2>1 DEF Finish, Finished
<1>3. /\ Current(t) = Head(tasks[t].rest)
      /\ f \in PushTask /\ f.by = tasks[t].by /\ f.rest = Tail(tasks[t].rest) /\ f.step \in {"find", "reply"}
      /\ f.step = "reply" <=> f.rest = <<>>
      /\ f.stales = tasks[t].stales \cup stales /\ f.errors = tasks[t].errors \cup errors
      /\ \A n : n \in ToSet(tasks[t].rest) <=> n = Head(tasks[t].rest) \/ n \in ToSet(f.rest)
  <2>1. FinishesAs(t, stales, errors, f)
    BY <1>2 DEF FinishesAs
  <2>2. QED BY <1>1, <2>1, FinishFacts
<1>4. PushOK(tasks[t], entries, serverLog, row) /\ tasks[t].stales \subseteq Counters
  BY <1>1 DEF RequestsOK, PushTask
<1>5. PushOK(f, entries, serverLog', row')
  <2>1. \A n \in Counters : serverLog[n] # NoTx => serverLog'[n] # NoTx
    BY DEF Grows
  <2>2. QED BY <1>3, <1>4, <2>1 DEF PushOK
<1>6. tasks[t] # NoTask /\ f \in Requests /\ f \notin EntityTask
  BY <1>3, TwoKinds, NothingAssumption DEF Requests
<1>7. \A n \in ToSet(tasks[t].rest) \cup tasks[t].errors :
         n \in ToSet(f.rest) \cup f.errors \/ serverLog'[n] # NoTx
  BY <1>3
<1>8. Becomes(t, f)
  BY <1>a, <1>3, <1>5, <1>6, <1>7 DEF Becomes
<1>9. QED BY <1>8, ServerKeeps

LEMMA ServerSteps ==
    ASSUME PushInv, NEW t \in Tasks, ServerStep(t) \/ StatementFails(t)
    PROVE  PushInv'
<1>0. /\ TypeInv /\ Owned /\ RequestsOK /\ FlaggedIsSuperseded
      /\ tasks \in [Tasks -> Requests \cup {NoTask}]
      /\ serverLog \in [Counters -> LogRows \cup {NoTx}] /\ row \in Rows \cup {NoRow}
      /\ site \in Sites
  BY DEF PushInv, TypeInv, TasksOK, ServerOK, LimitsOK
<1> DEFINE k == tasks[t]
<1>u. UNCHANGED <<head, device, site, faults>> /\ k # NoTask /\ k \in Requests
  BY <1>0 DEF ServerStep, StatementFails, EntityRead, EntityWrite, PushFind, PushRow, PushInsert, PushUpdate,
         ServerOnly, limits, At
<1>e. k.kind = "entity" => k \in EntityTask /\ EntityOK(k, row)
  BY <1>0, <1>u, TwoKinds DEF EntityTask, PushTask, Requests, RequestsOK
<1>p. k.kind = "push" => k \in PushTask /\ PushOK(k, entries, serverLog, row) /\ k \notin EntityTask
  BY <1>0, <1>u, TwoKinds DEF EntityTask, PushTask, Requests, RequestsOK
<1>s. /\ \A n \in Counters : serverLog[n] # NoTx => entries[serverLog[n].by][n] # "none"
      /\ row # NoRow => row.counter \in Nat /\ row.counter >= row.counter
  BY <1>0 DEF Owned, Rows
(* The steps of an entity.                                                 *)
<1>1. CASE EntityRead(t)
  <2>1. PICK f : f = [k EXCEPT !.step = "write", !.known = IF row = NoRow THEN NoRow ELSE row.counter]
    OBVIOUS
  <2>2. k \in EntityTask /\ UNCHANGED <<serverLog, row>>
    BY <1>1, <1>e DEF EntityRead, At
  <2>3. f \in EntityTask /\ EntityOK(f, row)
    <3>1. (IF row = NoRow THEN NoRow ELSE row.counter) \in Nat \cup {NoRow}
      BY <1>s
    <3> HIDE DEF k
    <3>2. QED BY <2>1, <2>2, <3>1 DEF EntityTask, EntityOK
  <2>4. tasks' = [tasks EXCEPT ![t] = f]
    BY <1>0, <1>1, <2>1 DEF EntityRead
  <2> HIDE DEF k
  <2>5. FlaggedIsSuperseded'
    BY <1>0, <2>2 DEF FlaggedIsSuperseded
  <2>6. Grows
    BY <1>0, <1>s, <1>u, <2>2, <2>3, <2>4, <2>5 DEF Grows
  <2>7. Becomes(t, f)
    BY <1>0, <1>s, <1>u, <2>2, <2>3, <2>4, <2>5, TwoKinds DEF Becomes, Requests, k
  <2>8. QED BY <2>6, <2>7, ServerKeeps
<1>2. CASE EntityWrite(t)
  <2>1. PICK f : f = [k EXCEPT !.step = "reply"]
    OBVIOUS
  <2>2. k \in EntityTask /\ EntityOK(k, row) /\ serverLog' = serverLog
    BY <1>2, <1>e DEF EntityWrite, At
  <2>3. f \in EntityTask /\ EntityOK(f, row) /\ f.known = k.known
    <3> HIDE DEF k
    <3>1. QED BY <2>1, <2>2 DEF EntityTask, EntityOK
  <2>4. tasks' = [tasks EXCEPT ![t] = f]
    BY <1>0, <1>2, <2>1 DEF EntityWrite, Goes
  <2>5. \/ row' = row
        \/ row = NoRow /\ row' = [counter |-> k.counter, tx |-> k.tx]
        \/ row # NoRow /\ row' = [counter |-> Max({k.counter, row.counter}), tx |-> k.tx]
    BY <1>2, <2>2 DEF EntityWrite, EntityOK
  <2>6. k.counter \in Nat /\ k.tx \in Tx
    BY <2>2 DEF EntityTask
  <2> HIDE DEF k
  <2>7. /\ row' \in Rows \cup {NoRow}
        /\ row # NoRow => row' # NoRow /\ row'.counter >= row.counter
    <3>1. CASE row' = row
      BY <1>0, <1>s, <3>1
    <3>2. CASE row = NoRow /\ row' = [counter |-> k.counter, tx |-> k.tx]
      BY <2>6, <3>2 DEF Rows
    <3>3. CASE row # NoRow /\ row' = [counter |-> Max({k.counter, row.counter}), tx |-> k.tx]
      <4> DEFINE m == Max({k.counter, row.counter})
      <4>1. \E x \in {k.counter, row.counter} : \A y \in {k.counter, row.counter} : x >= y
        BY <1>s, <2>6, <3>3
      <4>2. m \in Nat /\ m >= row.counter
        BY <1>s, <2>6, <3>3, <4>1 DEF Max
      <4> HIDE DEF m
      <4>3. row' = [counter |-> m, tx |-> k.tx]
        BY <3>3 DEF m
      <4>4. row' \in Rows
        BY <2>6, <4>2, <4>3 DEF Rows
      <4>5. QED BY <4>2, <4>3, <4>4, NothingAssumption DEF Rows
    <3>4. QED BY <2>5, <3>1, <3>2, <3>3
  <2>8. EntityOK(f, row')
    BY <2>3, <2>7 DEF EntityOK
  <2>9. FlaggedIsSuperseded'
    <3>1. SUFFICES ASSUME NEW n \in Counters, serverLog[n] # NoTx, serverLog[n].flagged
                   PROVE  row' # NoRow /\ row'.counter >= n
      BY <2>2 DEF FlaggedIsSuperseded
    <3>2. row # NoRow /\ row.counter >= n /\ n \in Nat
      BY <1>0, <3>1 DEF FlaggedIsSuperseded, Counters
    <3>3. row'.counter \in Nat /\ row' # NoRow /\ row'.counter >= row.counter
      BY <2>7, <3>2 DEF Rows
    <3>4. QED BY <1>s, <3>2, <3>3
  <2>10. Grows
    BY <1>0, <1>s, <1>u, <2>2, <2>3, <2>4, <2>7, <2>8, <2>9 DEF Grows
  <2>11. Becomes(t, f)
    BY <1>0, <1>s, <1>u, <2>2, <2>3, <2>4, <2>7, <2>8, <2>9, TwoKinds DEF Becomes, Requests, k
  <2>12. QED BY <2>10, <2>11, ServerKeeps
(* The steps of a transaction.                                             *)
<1>c. ASSUME k \in PushTask, k.step # "reply"
      PROVE  /\ k.rest # <<>> /\ Current(t) = Head(k.rest) /\ Current(t) \in Counters
             /\ Current(t) \in ToSet(k.rest)
  <2>1. FinishesAs(t, {}, {}, Finished(k, {}, {}))
    BY <1>c DEF FinishesAs
  <2>2. QED BY <1>0, <2>1, FinishFacts
<1>f. ASSUME FlaggedIsSuperseded, UNCHANGED <<serverLog, row>>
      PROVE  FlaggedIsSuperseded'
  BY <1>f DEF FlaggedIsSuperseded
<1>b. \A n \in Counters : n \in Nat
  BY DEF Counters
<1>3. CASE PushFind(t)
  <2>1. k \in PushTask /\ k.step = "find" /\ UNCHANGED <<serverLog, row>>
    BY <1>3, <1>p DEF PushFind, At
  <2>2. /\ k.rest # <<>> /\ Current(t) = Head(k.rest) /\ Current(t) \in Counters
    BY <1>0, <1>c, <2>1
  <2>3. FlaggedIsSuperseded'
    BY <1>0, <1>f, <2>1
  <2>4. CASE Current(t) \in site.refused
    <3>1. Finish(t, {}, {Current(t)})
      BY <1>3, <2>4 DEF PushFind
    <3> HIDE DEF k
    <3>2. Grows
      BY <1>0, <1>s, <1>u, <2>1, <2>2, <2>3, <3>1 DEF Grows
    <3>3. Handles(t, {}, {Current(t)})
      BY <1>0, <1>s, <1>u, <2>1, <2>2, <2>3, <3>1 DEF Handles, k
    <3>4. QED BY <3>2, <3>3, FinishKeeps
  <2>5. CASE Current(t) \notin site.refused /\ serverLog[Current(t)] # NoTx
    <3>1. Finish(t, {}, {})
      BY <1>3, <2>5 DEF PushFind
    <3> HIDE DEF k
    <3>2. Grows
      BY <1>0, <1>s, <1>u, <2>1, <2>2, <2>3, <2>5, <3>1 DEF Grows
    <3>3. Handles(t, {}, {})
      BY <1>0, <1>s, <1>u, <2>1, <2>2, <2>3, <2>5, <3>1 DEF Handles, k
    <3>4. QED BY <3>2, <3>3, FinishKeeps
  <2>6. CASE Current(t) \notin site.refused /\ serverLog[Current(t)] = NoTx
    <3>1. PICK f : f = [k EXCEPT !.step = "row"]
      OBVIOUS
    <3>2. tasks' = [tasks EXCEPT ![t] = f]
      BY <1>0, <1>3, <2>6, <3>1 DEF PushFind, Goes
    <3> HIDE DEF k
    <3>3. /\ f \in PushTask /\ f.by = k.by /\ f.rest = k.rest /\ f.step = "row" /\ f.stales = k.stales
          /\ f.errors = k.errors
      BY <2>1, <3>1 DEF PushTask
    <3>4. PushOK(f, entries, serverLog', row')
      BY <1>p, <2>1, <3>3 DEF PushOK, PushTask
    <3>5. Grows
      BY <1>0, <1>s, <1>u, <2>1, <2>2, <2>3, <3>2, <3>3, <3>4 DEF Grows
    <3>6. Becomes(t, f)
      BY <1>0, <1>s, <1>u, <2>1, <2>2, <2>3, <3>2, <3>3, <3>4, TwoKinds DEF Becomes, Requests, k
    <3>7. QED BY <3>5, <3>6, ServerKeeps
  <2>7. QED BY <2>4, <2>5, <2>6
<1>4. CASE PushRow(t)
  <2>1. k \in PushTask /\ k.step = "row" /\ UNCHANGED <<serverLog, row>>
    BY <1>4, <1>p DEF PushRow, At
  <2>2. /\ k.rest # <<>> /\ Current(t) = Head(k.rest) /\ Current(t) \in Counters
    BY <1>0, <1>c, <2>1
  <2>3. FlaggedIsSuperseded'
    BY <1>0, <1>f, <2>1
  <2>4. PICK f : f = [k EXCEPT !.step = "insert", !.stale = (row # NoRow /\ Current(t) <= row.counter)]
    OBVIOUS
  <2>5. tasks' = [tasks EXCEPT ![t] = f]
    BY <1>0, <1>4, <2>4 DEF PushRow
  <2> HIDE DEF k
  <2>6. /\ f \in PushTask /\ f.by = k.by /\ f.rest = k.rest /\ f.step = "insert" /\ f.stales = k.stales
        /\ f.errors = k.errors
    BY <2>1, <2>4 DEF PushTask
  <2>7. f.stale => row # NoRow /\ Current(t) <= row.counter
    BY <2>1, <2>4 DEF PushTask
  <2>8. PushOK(f, entries, serverLog', row')
    BY <1>p, <2>1, <2>2, <2>6, <2>7 DEF PushOK, PushTask
  <2>9. Grows
    BY <1>0, <1>s, <1>u, <2>1, <2>2, <2>3, <2>5, <2>6, <2>8 DEF Grows
  <2>10. Becomes(t, f)
    BY <1>0, <1>s, <1>u, <2>1, <2>2, <2>3, <2>5, <2>6, <2>8, TwoKinds DEF Becomes, Requests, k
  <2>11. QED BY <2>9, <2>10, ServerKeeps
<1>5. CASE PushInsert(t)
  <2>1. k \in PushTask /\ k.step = "insert" /\ row' = row /\ k.by \in Devices /\ k.stale \in BOOLEAN
    BY <1>5, <1>p DEF PushInsert, At, PushTask
  <2>2. /\ k.rest # <<>> /\ Current(t) = Head(k.rest) /\ Current(t) \in Counters
        /\ Current(t) \in ToSet(k.rest)
    BY <1>0, <1>c, <2>1
  <2>o. PushOK(k, entries, serverLog, row)
    BY <1>p, <2>1 DEF PushTask
  <2>3. CASE serverLog[Current(t)] # NoTx
    <3>1. Finish(t, {}, {}) /\ serverLog' = serverLog
      BY <1>5, <2>3 DEF PushInsert
    <3>2. FlaggedIsSuperseded'
      BY <1>0, <1>f, <2>1, <3>1
    <3> HIDE DEF k
    <3>3. Grows
      BY <1>0, <1>s, <1>u, <2>1, <2>2, <2>3, <3>1, <3>2 DEF Grows
    <3>4. Handles(t, {}, {})
      BY <1>0, <1>s, <1>u, <2>1, <2>2, <2>3, <3>1, <3>2 DEF Handles, k
    <3>5. QED BY <3>3, <3>4, FinishKeeps
  <2>4. CASE serverLog[Current(t)] = NoTx
    <3>1. PICK x : x = [by |-> k.by, flagged |-> k.stale]
      OBVIOUS
    <3>2. serverLog' = [serverLog EXCEPT ![Current(t)] = x]
      BY <1>5, <2>4, <3>1 DEF PushInsert
    <3>3. x \in LogRows /\ x # NoTx /\ x.by = k.by /\ x.flagged = k.stale
      BY <2>1, <3>1, NothingAssumption DEF LogRows
    <3>4. /\ serverLog' \in [Counters -> LogRows \cup {NoTx}]
          /\ serverLog'[Current(t)] = x
          /\ \A n \in Counters : n # Current(t) => serverLog'[n] = serverLog[n]
      BY <1>0, <2>2, <3>2, <3>3
    <3>5. entries[k.by][Current(t)] # "none"
      BY <2>2, <2>o DEF PushOK
    <3>6. \A n \in Counters : /\ serverLog[n] # NoTx => serverLog'[n] # NoTx
                              /\ serverLog'[n] # NoTx => entries[serverLog'[n].by][n] # "none"
      BY <1>s, <3>3, <3>4, <3>5
    <3>7. FlaggedIsSuperseded'
      <4>1. SUFFICES ASSUME NEW n \in Counters, serverLog'[n] # NoTx, serverLog'[n].flagged
                     PROVE  row # NoRow /\ row.counter >= n
        BY <2>1 DEF FlaggedIsSuperseded
      <4>2. CASE n = Current(t)
        <5>1. k.stale
          BY <3>3, <3>4, <4>1, <4>2
        <5>2. row # NoRow /\ n <= row.counter
          BY <2>1, <2>2, <2>o, <4>2, <5>1 DEF PushOK
        <5>3. QED BY <1>b, <1>s, <5>2
      <4>3. CASE n # Current(t)
        BY <1>0, <3>4, <4>1, <4>3 DEF FlaggedIsSuperseded
      <4>4. QED BY <4>2, <4>3
    <3>g. Grows
      BY <1>0, <1>s, <1>u, <2>1, <3>4, <3>6, <3>7 DEF Grows
    <3>l. serverLog'[Current(t)] # NoTx
      BY <3>3, <3>4
    <3>8. CASE k.stale
      <4>1. Finish(t, {Current(t)}, {})
        BY <1>5, <2>4, <3>8 DEF PushInsert
      <4> HIDE DEF k
      <4>2. Handles(t, {Current(t)}, {})
        BY <2>1, <2>2, <3>l, <4>1 DEF Handles, k
      <4>3. QED BY <3>g, <4>2, FinishKeeps
    <3>9. CASE ~k.stale
      <4>1. PICK f : f = [k EXCEPT !.step = "update"]
        OBVIOUS
      <4>2. tasks' = [tasks EXCEPT ![t] = f]
        BY <1>0, <1>5, <2>4, <3>9, <4>1 DEF PushInsert, Goes
      <4> HIDE DEF k
      <4>3. /\ f \in PushTask /\ f.by = k.by /\ f.rest = k.rest /\ f.step = "update" /\ f.stales = k.stales
            /\ f.errors = k.errors /\ k.stales \subseteq Counters
        BY <2>1, <4>1 DEF PushTask
      <4>4. PushOK(f, entries, serverLog', row')
        BY <2>2, <2>o, <3>3, <3>4, <3>6, <4>3 DEF PushOK
      <4>5. /\ f \in Requests /\ f \notin EntityTask /\ f.step # "reply" /\ f.rest # <<>>
            /\ tasks[t] \in PushTask /\ f.by = tasks[t].by /\ tasks[t] # NoTask
            /\ \A n \in ToSet(tasks[t].rest) \cup tasks[t].errors :
                  n \in ToSet(f.rest) \cup f.errors \/ serverLog'[n] # NoTx
        BY <1>u, <2>1, <2>2, <4>3, TwoKinds DEF Requests, k
      <4>6. Becomes(t, f)
        BY <4>2, <4>3, <4>4, <4>5 DEF Becomes
      <4>7. QED BY <3>g, <4>6, ServerKeeps
    <3>10. QED BY <3>8, <3>9
  <2>5. QED BY <2>3, <2>4
<1>6. CASE PushUpdate(t)
  <2>1. k \in PushTask /\ k.step = "update" /\ serverLog' = serverLog /\ k.by \in Devices /\ Finish(t, {}, {})
    BY <1>6, <1>p DEF PushUpdate, At, PushTask
  <2>2. Current(t) = Head(k.rest) /\ Current(t) \in Counters
    BY <1>0, <1>c, <2>1
  <2>3. serverLog[Current(t)] # NoTx
    BY <1>p, <2>1, <2>2 DEF PushOK, PushTask
  <2>4. PICK x : x = [counter |-> Current(t), tx |-> [counter |-> Current(t), by |-> k.by]]
    OBVIOUS
  <2>5. x \in Rows /\ x.counter = Current(t) /\ x # NoRow
    BY <1>b, <2>1, <2>2, <2>4, NothingAssumption DEF Rows, Tx
  <2>6. row' = IF row # NoRow /\ row.counter < Current(t) THEN x ELSE row
    BY <1>6, <2>4 DEF PushUpdate
  <2>7. /\ row' \in Rows \cup {NoRow}
        /\ row # NoRow => row' # NoRow /\ row'.counter >= row.counter
    BY <1>0, <1>b, <1>s, <2>2, <2>5, <2>6
  <2>8. FlaggedIsSuperseded'
    <3>1. SUFFICES ASSUME NEW n \in Counters, serverLog[n] # NoTx, serverLog[n].flagged
                   PROVE  row' # NoRow /\ row'.counter >= n
      BY <2>1 DEF FlaggedIsSuperseded
    <3>2. row # NoRow /\ row.counter >= n
      BY <1>0, <3>1 DEF FlaggedIsSuperseded
    <3>3. row'.counter \in Nat
      BY <2>7, <3>2 DEF Rows
    <3>4. QED BY <1>b, <1>s, <2>7, <3>2, <3>3
  <2> HIDE DEF k
  <2>9. Grows
    BY <1>0, <1>s, <1>u, <2>1, <2>3, <2>7, <2>8 DEF Grows
  <2>10. Handles(t, {}, {})
    BY <1>0, <1>s, <1>u, <2>1, <2>3, <2>7, <2>8 DEF Handles, k
  <2>11. QED BY <2>9, <2>10, FinishKeeps
<1>7. CASE StatementFails(t)
  <2>1. k \in PushTask /\ k.step # "reply" /\ UNCHANGED <<serverLog, row>> /\ Finish(t, {}, {Current(t)})
    BY <1>7, <1>p DEF StatementFails
  <2>2. Current(t) \in Counters
    BY <1>0, <1>c, <2>1
  <2>3. FlaggedIsSuperseded'
    BY <1>0, <1>f, <2>1
  <2> HIDE DEF k
  <2>4. Grows
    BY <1>0, <1>s, <1>u, <2>1, <2>2, <2>3 DEF Grows
  <2>5. Handles(t, {}, {Current(t)})
    BY <1>0, <1>s, <1>u, <2>1, <2>2, <2>3 DEF Handles, k
  <2>6. QED BY <2>4, <2>5, FinishKeeps
<1>8. QED BY <1>1, <1>2, <1>3, <1>4, <1>5, <1>6, <1>7 DEF ServerStep

-----------------------------------------------------------------------------
(* A step of device d, in two parts: what it holds, and what it sends.     *)
Marks(d) ==
    /\ entries' \in [Devices -> [Counters -> Status]] /\ record' \in [Devices -> Records]
    /\ LimitsOK' /\ Owned' /\ UNCHANGED <<serverLog, row>>
    /\ \A e \in Devices \ {d} : entries'[e] = entries[e]
    /\ \A n \in Counters : /\ entries[d][n] # "none" => entries'[d][n] # "none"
                           /\ entries'[d][n] \in {"synced", "conflict"} => serverLog[n] # NoTx

Sound(k) ==
    /\ k \in Requests
    /\ k \in EntityTask => EntityOK(k, row)
    /\ k \in PushTask => PushOK(k, entries, serverLog, row) /\ (k.step = "reply" <=> k.rest = <<>>)

Apart(d, t) == \A e \in Devices \ {d} : sent[e] # t

Sends(d) ==
    /\ stage' \in [Devices -> {"idle", "entities", "transactions", "push"}]
    /\ batch' \in [Devices -> Seq(Counters)] /\ left' \in [Devices -> Seq(Counters)]
    /\ sent' \in [Devices -> 0..MaxTasks]
    /\ TasksOK'
    /\ \A e \in Devices \ {d} : /\ stage'[e] = stage[e] /\ batch'[e] = batch[e]
                                /\ left'[e] = left[e] /\ sent'[e] = sent[e]
    /\ \A n \in ToSet(batch'[d]) \cup ToSet(left'[d]) : entries[d][n] # "none"
    /\ sent'[d] # 0 => Apart(d, sent'[d])
    /\ \A t \in Tasks : \/ tasks'[t] = tasks[t] \/ tasks'[t] = NoTask
                        \/ Sound(tasks'[t]) /\ Apart(d, t)
    /\ stage'[d] = "push" =>
          /\ batch'[d] # <<>>
          /\ sent'[d] # 0 /\ tasks'[sent'[d]] # NoTask
                => Covers(d, batch'[d], tasks'[sent'[d]], serverLog)

LEMMA DeviceKeeps ==
    ASSUME PushInv, NEW d \in Devices, Marks(d), Sends(d)
    PROVE  PushInv'
<1>0. /\ TypeInv /\ Owned /\ Sent /\ RequestsOK /\ Carried /\ Covered /\ Told /\ FlaggedIsSuperseded
      /\ entries \in [Devices -> [Counters -> Status]] /\ sent \in [Devices -> 0..MaxTasks]
      /\ batch \in [Devices -> Seq(Counters)] /\ left \in [Devices -> Seq(Counters)]
      /\ tasks \in [Tasks -> Requests \cup {NoTask}] /\ MaxTasks \in Nat
  BY PushAssumption DEF PushInv, TypeInv, TasksOK, DevicesOK
<1>m. /\ UNCHANGED <<serverLog, row>>
      /\ \A e \in Devices \ {d} : entries'[e] = entries[e]
      /\ \A n \in Counters : /\ entries[d][n] # "none" => entries'[d][n] # "none"
                             /\ entries'[d][n] \in {"synced", "conflict"} => serverLog[n] # NoTx
  BY DEF Marks
<1>s. /\ \A e \in Devices \ {d} : /\ stage'[e] = stage[e] /\ batch'[e] = batch[e]
                                  /\ left'[e] = left[e] /\ sent'[e] = sent[e]
      /\ sent'[d] # 0 => Apart(d, sent'[d])
      /\ sent' \in [Devices -> 0..MaxTasks]
      /\ batch' \in [Devices -> Seq(Counters)] /\ left' \in [Devices -> Seq(Counters)]
  BY DEF Sends
<1>t. \A t \in Tasks : \/ tasks'[t] = tasks[t] \/ tasks'[t] = NoTask
                       \/ Sound(tasks'[t]) /\ Apart(d, t)
  BY DEF Sends
<1>e. \A e \in Devices, n \in Counters : entries[e][n] # "none" => entries'[e][n] # "none"
  BY <1>m
<1>b. \A s \in Seq(Counters) : ToSet(s) \subseteq Counters
  BY LenProperties DEF ToSet
<1>1. TypeInv'
  <2>1. DevicesOK' /\ TasksOK' /\ LimitsOK' /\ ServerOK'
    BY <1>0, <1>m DEF Marks, Sends, TypeInv, DevicesOK, ServerOK
  <2>2. \A e \in Devices : stage'[e] = "push" => batch'[e] # <<>>
    BY <1>0, <1>s DEF Sends, TypeInv, StepsOK
  <2>3. \A t \in Tasks : tasks'[t] \in PushTask => (tasks'[t].step = "reply" <=> tasks'[t].rest = <<>>)
    <3>1. SUFFICES ASSUME NEW t \in Tasks, tasks'[t] \in PushTask
                   PROVE  tasks'[t].step = "reply" <=> tasks'[t].rest = <<>>
      OBVIOUS
    <3>2. CASE tasks'[t] = tasks[t]
      BY <1>0, <3>1, <3>2 DEF TypeInv, StepsOK
    <3>3. CASE Sound(tasks'[t])
      BY <3>1, <3>3 DEF Sound
    <3>4. QED BY <1>t, <3>1, <3>2, <3>3, NothingAssumption
  <2>4. QED BY <2>1, <2>2, <2>3 DEF TypeInv, StepsOK
<1>2. Owned'
  BY DEF Marks
<1>3. Sent'
  BY <1>0, <1>s DEF Sent, Apart
<1>4. Carried'
  <2>1. SUFFICES ASSUME NEW e \in Devices, NEW n \in ToSet(batch'[e]) \cup ToSet(left'[e])
                 PROVE  entries[e][n] # "none" /\ n \in Counters
    BY <1>e DEF Carried
  <2>2. n \in Counters
    BY <1>b, <1>s
  <2>3. CASE e = d
    BY <2>2, <2>3 DEF Sends
  <2>4. CASE e # d
    BY <1>0, <1>s, <2>2, <2>4 DEF Carried
  <2>5. QED BY <2>3, <2>4
<1>5. Told'
  BY <1>0, <1>m DEF Told
<1>6. FlaggedIsSuperseded'
  BY <1>0, <1>m DEF FlaggedIsSuperseded
<1>7. RequestsOK'
  <2>1. SUFFICES ASSUME NEW t \in Tasks
                 PROVE  /\ tasks'[t] \in EntityTask => EntityOK(tasks'[t], row)
                        /\ tasks'[t] \in PushTask => PushOK(tasks'[t], entries', serverLog, row)
    BY <1>m DEF RequestsOK
  <2>2. ASSUME NEW k, k \in PushTask, PushOK(k, entries, serverLog, row)
        PROVE  PushOK(k, entries', serverLog, row)
    <3>1. k.by \in Devices /\ ToSet(k.rest) \subseteq Counters
      BY <1>b, <2>2 DEF PushTask
    <3>2. QED BY <1>e, <2>2, <3>1 DEF PushOK
  <2>3. CASE tasks'[t] = tasks[t]
    BY <1>0, <2>2, <2>3 DEF RequestsOK
  <2>4. CASE Sound(tasks'[t])
    BY <2>2, <2>4 DEF Sound
  <2>5. CASE tasks'[t] = NoTask
    BY <2>5, NothingAssumption
  <2>6. QED BY <1>t, <2>3, <2>4, <2>5
<1>8. Covered'
  <2>1. SUFFICES ASSUME NEW e \in Devices, stage'[e] = "push", sent'[e] # 0, tasks'[sent'[e]] # NoTask
                 PROVE  Covers(e, batch'[e], tasks'[sent'[e]], serverLog)
    BY <1>m DEF Covered
  <2>2. CASE e = d
    BY <2>1, <2>2 DEF Sends
  <2>3. CASE e # d
    <3>1. sent'[e] = sent[e] /\ batch'[e] = batch[e] /\ stage[e] = "push" /\ sent[e] \in Tasks
      BY <1>0, <1>s, <2>1, <2>3 DEF Tasks
    <3>2. tasks'[sent[e]] = tasks[sent[e]]
      BY <1>t, <2>1, <2>3, <3>1 DEF Apart
    <3>3. QED BY <1>0, <2>1, <3>1, <3>2 DEF Covered
  <2>4. QED BY <2>2, <2>3
<1>9. QED BY <1>1, <1>2, <1>3, <1>4, <1>5, <1>6, <1>7, <1>8 DEF PushInv

(* What d holds is marked otherwise, or not at all.                        *)
LEMMA MarkingMarks ==
    ASSUME PushInv, NEW d \in Devices, NEW f \in [Counters -> Status],
           entries' = [entries EXCEPT ![d] = f],
           \A n \in Counters : /\ f[n] # "none" <=> entries[d][n] # "none"
                               /\ f[n] \in {"synced", "conflict"} => serverLog[n] # NoTx,
           record' \in [Devices -> Records], UNCHANGED <<head, serverLog, row, site>>,
           faults' \in 0..site.maxFaults
    PROVE  Marks(d)
<1>1. /\ Owned /\ entries \in [Devices -> [Counters -> Status]] /\ LimitsOK
      /\ serverLog \in [Counters -> LogRows \cup {NoTx}]
  BY DEF PushInv, TypeInv, DevicesOK, ServerOK
<1>2. /\ entries' \in [Devices -> [Counters -> Status]] /\ entries'[d] = f
      /\ \A e \in Devices \ {d} : entries'[e] = entries[e]
  BY <1>1
<1>3. \A e \in Devices, n \in Counters : entries'[e][n] # "none" <=> entries[e][n] # "none"
  BY <1>2
<1>4. \A n \in Counters : serverLog[n] # NoTx => serverLog[n].by \in Devices
  BY <1>1 DEF LogRows
<1>5. Owned'
  BY <1>1, <1>3, <1>4 DEF Owned
<1>6. LimitsOK'
  BY <1>1 DEF LimitsOK
<1>7. QED BY <1>2, <1>5, <1>6 DEF Marks

LEMMA QuietMarks ==
    ASSUME PushInv, NEW d \in Devices, UNCHANGED <<head, entries, serverLog, row, site>>,
           record' \in [Devices -> Records], faults' \in 0..site.maxFaults
    PROVE  Marks(d)
<1>1. /\ entries \in [Devices -> [Counters -> Status]]
      /\ \A n \in Counters : entries[d][n] \in {"synced", "conflict"} => serverLog[n] # NoTx
  BY DEF PushInv, TypeInv, DevicesOK, Told
<1>2. PICK f : f = entries[d]
  OBVIOUS
<1>3. f \in [Counters -> Status] /\ entries' = [entries EXCEPT ![d] = f]
  BY <1>1, <1>2
<1>4. \A n \in Counters : /\ f[n] # "none" <=> entries[d][n] # "none"
                          /\ f[n] \in {"synced", "conflict"} => serverLog[n] # NoTx
  BY <1>1, <1>2
<1>5. QED BY <1>3, <1>4, MarkingMarks

(* Nothing is sent; the device stops waiting; or it sends a request.       *)
SendFacts ==
    /\ Sent /\ Covered /\ Carried
    /\ stage \in [Devices -> {"idle", "entities", "transactions", "push"}]
    /\ batch \in [Devices -> Seq(Counters)] /\ left \in [Devices -> Seq(Counters)]
    /\ sent \in [Devices -> 0..MaxTasks] /\ tasks \in [Tasks -> Requests \cup {NoTask}]
    /\ \A e \in Devices : stage[e] = "push" => batch[e] # <<>>

LEMMA SendingFacts == PushInv => SendFacts /\ MaxTasks \in Nat
BY PushAssumption DEF PushInv, SendFacts, TypeInv, DevicesOK, TasksOK, StepsOK

LEMMA QuietSends ==
    ASSUME PushInv, NEW d \in Devices, UNCHANGED <<stage, batch, left, sent, tasks>>
    PROVE  Sends(d)
<1>1. SendFacts
  BY SendingFacts
<1>2. sent'[d] # 0 => Apart(d, sent'[d])
  BY <1>1 DEF SendFacts, Sent, Apart
<1>3. \A n \in ToSet(batch'[d]) \cup ToSet(left'[d]) : entries[d][n] # "none"
  BY <1>1 DEF SendFacts, Carried
<1>4. stage'[d] = "push" =>
          /\ batch'[d] # <<>>
          /\ sent'[d] # 0 /\ tasks'[sent'[d]] # NoTask
                => Covers(d, batch'[d], tasks'[sent'[d]], serverLog)
  BY <1>1 DEF SendFacts, Covered
<1>5. QED BY <1>1, <1>2, <1>3, <1>4 DEF SendFacts, Sends, TasksOK

(* The lists of a device are as before, or others of what it holds.        *)
Lists(d, b, l) ==
    /\ b \in Seq(Counters) /\ l \in Seq(Counters)
    /\ \A n \in ToSet(b) \cup ToSet(l) : entries[d][n] # "none"
    /\ batch' = [batch EXCEPT ![d] = b] /\ left' = [left EXCEPT ![d] = l]

LEMMA SameLists ==
    ASSUME PushInv, NEW d \in Devices, UNCHANGED <<batch, left>>
    PROVE  Lists(d, batch[d], left[d])
BY SendingFacts DEF SendFacts, Lists, Carried

LEMMA NoLists ==
    ASSUME NEW d \in Devices, batch' = [batch EXCEPT ![d] = <<>>], left' = [left EXCEPT ![d] = <<>>]
    PROVE  Lists(d, <<>>, <<>>)
<1>1. <<>> \in Seq(Counters) /\ ToSet(<<>>) = {}
  BY EmptySeq DEF ToSet
<1>2. QED BY <1>1 DEF Lists

Drops(d) ==
    \/ UNCHANGED tasks
    \/ sent[d] # 0 /\ Take(d)

LEMMA StopSends ==
    ASSUME PushInv, NEW d \in Devices, NEW st \in {"idle", "transactions"}, NEW b, NEW l, Lists(d, b, l),
           Proceed(d, st, 0), Drops(d)
    PROVE  Sends(d)
<1>1. SendFacts /\ MaxTasks \in Nat
  BY SendingFacts
<1>2. /\ stage' = [stage EXCEPT ![d] = st] /\ sent' = [sent EXCEPT ![d] = 0]
      /\ batch' = [batch EXCEPT ![d] = b] /\ left' = [left EXCEPT ![d] = l]
      /\ b \in Seq(Counters) /\ l \in Seq(Counters)
      /\ \A n \in ToSet(b) \cup ToSet(l) : entries[d][n] # "none"
  BY DEF Proceed, Lists
<1>3. TasksOK' /\ \A t \in Tasks : tasks'[t] = tasks[t] \/ tasks'[t] = NoTask
  BY <1>1 DEF SendFacts, TasksOK, Drops, Take
<1>4. /\ stage' \in [Devices -> {"idle", "entities", "transactions", "push"}]
      /\ batch' \in [Devices -> Seq(Counters)] /\ left' \in [Devices -> Seq(Counters)]
      /\ sent' \in [Devices -> 0..MaxTasks]
  BY <1>1, <1>2 DEF SendFacts
<1>5. QED BY <1>1, <1>2, <1>3, <1>4 DEF SendFacts, Sends

LEMMA NewSends ==
    ASSUME PushInv, NEW d \in Devices, NEW st \in {"entities", "push"}, NEW b, NEW l, Lists(d, b, l),
           NEW t \in Tasks, Apart(d, t), NEW k, Sound(k), tasks' = [tasks EXCEPT ![t] = k],
           Proceed(d, st, t), st = "push" => b # <<>> /\ Covers(d, b, k, serverLog)
    PROVE  Sends(d)
<1>1. SendFacts /\ MaxTasks \in Nat
  BY SendingFacts
<1>2. /\ stage' = [stage EXCEPT ![d] = st] /\ sent' = [sent EXCEPT ![d] = t]
      /\ batch' = [batch EXCEPT ![d] = b] /\ left' = [left EXCEPT ![d] = l]
      /\ b \in Seq(Counters) /\ l \in Seq(Counters)
      /\ \A n \in ToSet(b) \cup ToSet(l) : entries[d][n] # "none"
  BY DEF Proceed, Lists
<1>3. k \in Requests /\ t \in 0..MaxTasks
  BY <1>1 DEF Sound, Tasks
<1>4. TasksOK' /\ tasks'[t] = k /\ \A x \in Tasks : x # t => tasks'[x] = tasks[x]
  BY <1>1, <1>3 DEF SendFacts, TasksOK
<1>5. /\ stage' \in [Devices -> {"idle", "entities", "transactions", "push"}]
      /\ batch' \in [Devices -> Seq(Counters)] /\ left' \in [Devices -> Seq(Counters)]
      /\ sent' \in [Devices -> 0..MaxTasks]
  BY <1>1, <1>2, <1>3 DEF SendFacts
<1>6. sent'[d] = t /\ stage'[d] = st /\ batch'[d] = b /\ left'[d] = l
  BY <1>1, <1>2 DEF SendFacts
<1>7. /\ \A e \in Devices \ {d} : /\ stage'[e] = stage[e] /\ batch'[e] = batch[e]
                                  /\ left'[e] = left[e] /\ sent'[e] = sent[e]
      /\ \A n \in ToSet(batch'[d]) \cup ToSet(left'[d]) : entries[d][n] # "none"
      /\ sent'[d] # 0 => Apart(d, sent'[d])
  BY <1>1, <1>2, <1>6 DEF SendFacts
<1>8. \A x \in Tasks : \/ tasks'[x] = tasks[x] \/ tasks'[x] = NoTask
                       \/ Sound(tasks'[x]) /\ Apart(d, x)
  BY <1>4
<1>9. stage'[d] = "push" =>
          /\ batch'[d] # <<>>
          /\ sent'[d] # 0 /\ tasks'[sent'[d]] # NoTask
                => Covers(d, batch'[d], tasks'[sent'[d]], serverLog)
  BY <1>4, <1>6
<1>10. QED BY <1>4, <1>5, <1>7, <1>8, <1>9 DEF Sends

(* The requests a device makes.                                            *)
LEMMA SoundRequests ==
    ASSUME PushInv, NEW d \in Devices
    PROVE  /\ Sound(EntityRequest(d))
           /\ \A b \in Seq(Counters) :
                 b # <<>> /\ (\A n \in ToSet(b) : entries[d][n] # "none")
                    => Sound(PushRequest(d, b)) /\ Covers(d, b, PushRequest(d, b), serverLog)
<1>1. /\ EntityRequest(d) \in EntityTask /\ EntityRequest(d).known = NoRow
      /\ EntityRequest(d) \notin PushTask
  BY Requested, TwoKinds DEF PushInv
<1>2. Sound(EntityRequest(d))
  BY <1>1 DEF Sound, Requests, EntityOK
<1>3. ASSUME NEW b \in Seq(Counters), b # <<>>, \A n \in ToSet(b) : entries[d][n] # "none"
      PROVE  Sound(PushRequest(d, b)) /\ Covers(d, b, PushRequest(d, b), serverLog)
  <2>1. PICK k : k = PushRequest(d, b)
    OBVIOUS
  <2>2. k \in PushTask /\ k.by = d /\ k.rest = b /\ k.step = "find" /\ k.stales = {} /\ k.errors = {}
    BY <2>1, Requested DEF PushInv
  <2>3. k \notin EntityTask
    BY <2>2, TwoKinds
  <2>4. PushOK(k, entries, serverLog, row)
    BY <1>3, <2>2 DEF PushOK
  <2>5. Sound(k)
    BY <1>3, <2>2, <2>3, <2>4 DEF Sound, Requests
  <2>6. Covers(d, b, k, serverLog)
    BY <2>2 DEF Covers
  <2>7. QED BY <2>1, <2>5, <2>6
<1>4. QED BY <1>2, <1>3

(* The next batch, or the end of the cycle.                                *)
LEMMA NextSends ==
    ASSUME PushInv, NEW d \in Devices, stage[d] = "push", sent[d] # 0, NextBatch(d)
    PROVE  Sends(d)
<1>1. SendFacts /\ MaxTasks \in Nat
  BY SendingFacts
<1>2. CASE left[d] = <<>>
  <2>1. Take(d) /\ Proceed(d, "idle", 0) /\ Lists(d, <<>>, <<>>)
    BY <1>2, NoLists DEF NextBatch, CycleEnds
  <2>2. Drops(d)
    BY <2>1 DEF Drops
  <2>3. QED BY <2>1, <2>2, StopSends
<1>3. CASE left[d] # <<>>
  <2>1. PICK t : t = sent[d]
    OBVIOUS
  <2>2. t \in Tasks /\ Apart(d, t)
    BY <1>1, <2>1 DEF SendFacts, Sent, Apart, Tasks
  <2>3. PICK b : b = FirstBatch(left[d])
    OBVIOUS
  <2>4. PICK l : l = Others(left[d])
    OBVIOUS
  <2>5. /\ b \in Seq(Counters) /\ b # <<>> /\ l \in Seq(Counters)
        /\ \A n \in ToSet(b) \cup ToSet(l) : entries[d][n] # "none"
    <3>1. left[d] \in Seq(Counters) /\ \A n \in ToSet(left[d]) : entries[d][n] # "none"
      BY <1>1 DEF SendFacts, Carried
    <3>2. site \in Sites
      BY DEF PushInv, TypeInv, LimitsOK
    <3>3. QED BY <1>3, <2>3, <2>4, <3>1, <3>2, BatchFacts
  <2>6. PICK k : k = PushRequest(d, b)
    OBVIOUS
  <2>7. Sound(k) /\ Covers(d, b, k, serverLog)
    BY <2>5, <2>6, SoundRequests
  <2>8. Lists(d, b, l) /\ tasks' = [tasks EXCEPT ![t] = k] /\ UNCHANGED <<stage, sent>>
    BY <1>1, <1>3, <2>1, <2>3, <2>4, <2>5, <2>6 DEF NextBatch, Lists, SendFacts
  <2>9. Proceed(d, "push", t)
    BY <1>1, <2>1, <2>8 DEF Proceed, SendFacts
  <2>10. QED BY <2>2, <2>5, <2>7, <2>8, <2>9, NewSends
<1>4. QED BY <1>2, <1>3

-----------------------------------------------------------------------------
(* The steps of a device.                                                  *)
LEMMA LimitFacts ==
    PushInv => /\ faults \in 0..site.maxFaults /\ site \in Sites /\ site.maxFaults \in Nat
               /\ record \in [Devices -> Records] /\ entries \in [Devices -> [Counters -> Status]]
               /\ serverLog \in [Counters -> LogRows \cup {NoTx}] /\ row \in Rows \cup {NoRow}
               /\ head \in 0..MaxCounter /\ MaxCounter \in Nat
BY PushAssumption DEF PushInv, TypeInv, LimitsOK, DevicesOK, ServerOK

LEMMA Writes ==
    ASSUME PushInv, NEW d \in Devices, Write(d) \/ Fork(d)
    PROVE  PushInv'
<1>0. /\ Owned /\ Told /\ site \in Sites /\ site.writes \in 0..MaxCounter
  BY PushAssumption, LimitFacts DEF PushInv
<1>1. PICK n : n = IF Write(d) THEN head + 1 ELSE head
  OBVIOUS
<1>2. /\ RecordWrite(d, n) /\ n \in Counters /\ n \in Nat /\ head' \in 0..MaxCounter /\ n <= head' /\ head <= head'
      /\ entries[d][n] = "none"
      /\ site.fork \/ \A e \in Devices : entries[e][n] = "none"
  <2>1. CASE Write(d)
    <3>1. RecordWrite(d, n) /\ head' = head + 1 /\ n = head + 1 /\ n \in Counters
      BY <1>0, <1>1, <2>1, LimitFacts DEF Write, Counters
    <3>2. ~(n <= head)
      BY <3>1, LimitFacts
    <3>3. \A e \in Devices : entries[e][n] = "none"
      BY <1>0, <3>1, <3>2 DEF Owned
    <3>4. QED BY <3>1, <3>3, LimitFacts DEF Counters
  <2>2. CASE ~Write(d) /\ Fork(d)
    BY <1>0, <1>1, <2>2, LimitFacts DEF Fork, Counters
  <2>3. QED BY <2>1, <2>2
<1>3. /\ entries' = [entries EXCEPT ![d][n] = "pending"]
      /\ UNCHANGED <<stage, batch, left, sent, tasks, serverLog, row, faults, site>>
  BY <1>2 DEF RecordWrite, server, limits
<1>4. /\ entries' \in [Devices -> [Counters -> Status]] /\ entries'[d][n] = "pending"
      /\ \A e \in Devices \ {d} : entries'[e] = entries[e]
      /\ \A m \in Counters : m # n => entries'[d][m] = entries[d][m]
  BY <1>2, <1>3, LimitFacts DEF Status
<1>5. record' \in [Devices -> Records]
  <2>1. [counter |-> n, by |-> d] \in Tx
    BY <1>2 DEF Tx
  <2>2. record[d].sync \in {"absent", "pending", "synced"}
    BY LimitFacts DEF Records
  <2>3. PICK x : x = [sync |-> IF record[d].sync = "absent" THEN "pending" ELSE record[d].sync,
                      counter |-> n, tx |-> [counter |-> n, by |-> d]]
    OBVIOUS
  <2>4. x \in Records
    BY <1>2, <2>1, <2>2, <2>3 DEF Records
  <2>5. record' = [record EXCEPT ![d] = x]
    BY <1>2, <2>3, LimitFacts DEF RecordWrite
  <2>6. QED BY <2>4, <2>5, LimitFacts
<1>6. LimitsOK'
  BY <1>2, <1>3, LimitFacts DEF LimitsOK
<1>7. Owned'
  <2>1. \A e \in Devices, m \in Counters : entries'[e][m] # "none" => m <= head'
    <3>1. SUFFICES ASSUME NEW e \in Devices, NEW m \in Counters, entries'[e][m] # "none"
                   PROVE  m <= head'
      OBVIOUS
    <3>2. CASE e = d /\ m = n
      BY <1>2, <3>2
    <3>3. CASE ~(e = d /\ m = n)
      <4>1. m <= head /\ m \in Nat
        BY <1>0, <1>4, <3>1, <3>3 DEF Owned, Counters
      <4>2. QED BY <1>2, <4>1, LimitFacts
    <3>4. QED BY <3>2, <3>3
  <2>2. site.fork \/ \A a, e \in Devices, m \in Counters :
                       entries'[a][m] # "none" /\ entries'[e][m] # "none" => a = e
    <3>1. SUFFICES ASSUME ~site.fork, NEW a \in Devices, NEW e \in Devices, NEW m \in Counters,
                          entries'[a][m] # "none", entries'[e][m] # "none"
                   PROVE  a = e
      OBVIOUS
    <3>2. CASE m = n
      BY <1>2, <1>4, <3>1, <3>2
    <3>3. CASE m # n
      BY <1>0, <1>4, <3>1, <3>3 DEF Owned
    <3>4. QED BY <3>2, <3>3
  <2>3. \A m \in Counters : serverLog[m] # NoTx => entries'[serverLog[m].by][m] # "none"
    <3>1. SUFFICES ASSUME NEW m \in Counters, serverLog[m] # NoTx
                   PROVE  entries'[serverLog[m].by][m] # "none"
      OBVIOUS
    <3>2. serverLog[m].by \in Devices /\ entries[serverLog[m].by][m] # "none"
      BY <1>0, <3>1, LimitFacts DEF Owned, LogRows
    <3>3. QED BY <1>2, <1>4, <3>2
  <2>4. QED BY <1>3, <2>1, <2>2, <2>3 DEF Owned
<1>8. \A m \in Counters : /\ entries[d][m] # "none" => entries'[d][m] # "none"
                          /\ entries'[d][m] \in {"synced", "conflict"} => serverLog[m] # NoTx
  BY <1>0, <1>2, <1>4 DEF Told
<1>9. Marks(d)
  BY <1>3, <1>4, <1>5, <1>6, <1>7, <1>8 DEF Marks
<1>10. QED BY <1>3, <1>9, QuietSends, DeviceKeeps

LEMMA RecordSteps ==
    ASSUME PushInv, NEW d \in Devices, Edit(d) \/ PullRecord(d) \/ \E n \in Counters : PullSettles(d, n)
    PROVE  PushInv'
<1>1. UNCHANGED <<head, stage, batch, left, sent, tasks, serverLog, row, faults, site>>
  BY DEF Edit, PullRecord, PullSettles, server, limits
<1>2. CASE Edit(d)
  <2>1. PICK x : x = [record[d] EXCEPT !.sync = "pending"]
    OBVIOUS
  <2>2. x \in Records /\ record' = [record EXCEPT ![d] = x] /\ entries' = entries
    BY <1>2, <2>1, LimitFacts DEF Edit, Records
  <2>3. Marks(d)
    BY <1>1, <2>2, LimitFacts, QuietMarks
  <2>4. QED BY <1>1, <2>3, QuietSends, DeviceKeeps
<1>3. CASE PullRecord(d)
  <2>1. PICK x : x = [sync |-> "synced", counter |-> row.counter, tx |-> row.tx]
    OBVIOUS
  <2>2. row \in Rows /\ record' = [record EXCEPT ![d] = x] /\ entries' = entries
    BY <1>3, <2>1, LimitFacts DEF PullRecord
  <2>3. x \in Records
    BY <2>1, <2>2 DEF Records, Rows
  <2>4. Marks(d)
    BY <1>1, <2>2, <2>3, LimitFacts, QuietMarks
  <2>5. QED BY <1>1, <2>4, QuietSends, DeviceKeeps
<1>4. ASSUME NEW n \in Counters, PullSettles(d, n)
      PROVE  PushInv'
  <2>1. PICK f : f = [entries[d] EXCEPT ![n] = "synced"]
    OBVIOUS
  <2>2. /\ f \in [Counters -> Status] /\ entries' = [entries EXCEPT ![d] = f] /\ record' = record
        /\ f[n] = "synced" /\ entries[d][n] # "none" /\ serverLog[n] # NoTx
        /\ \A m \in Counters : m # n => f[m] = entries[d][m]
    BY <1>4, <2>1, LimitFacts DEF PullSettles, Status
  <2>3. \A m \in Counters : /\ f[m] # "none" <=> entries[d][m] # "none"
                            /\ f[m] \in {"synced", "conflict"} => serverLog[m] # NoTx
    BY <2>2 DEF PushInv, Told
  <2>4. Marks(d)
    BY <1>1, <2>2, <2>3, LimitFacts, MarkingMarks
  <2>5. QED BY <1>1, <2>4, QuietSends, DeviceKeeps
<1>5. QED BY <1>2, <1>3, <1>4

LEMMA SendingSteps ==
    ASSUME PushInv, NEW d \in Devices, StartCycle(d) \/ ReadOutbox(d) \/ EntityReply(d) \/ Abandon(d)
    PROVE  PushInv'
<1>1. Marks(d)
  <2>1. UNCHANGED <<head, entries, serverLog, row, site>> /\ faults' \in 0..site.maxFaults
    BY LimitFacts DEF StartCycle, ReadOutbox, EntityReply, Abandon, limits
  <2>2. record' \in [Devices -> Records]
    <3>1. PICK x : x = [record[d] EXCEPT !.sync = "synced"]
      OBVIOUS
    <3>2. x \in Records
      BY <3>1, LimitFacts DEF Records
    <3>3. record' = record \/ record' = [record EXCEPT ![d] = x]
      BY <3>1, LimitFacts DEF StartCycle, ReadOutbox, EntityReply, Abandon
    <3>4. QED BY <3>2, <3>3, LimitFacts
  <2>3. QED BY <2>1, <2>2, QuietMarks
<1>s. SendFacts
  BY SendingFacts
<1>2. CASE StartCycle(d)
  <2>1. Lists(d, batch[d], left[d])
    BY <1>2, SameLists DEF StartCycle
  <2>2. CASE record[d].sync = "pending"
    <3>1. PICK t \in Tasks : NewTask(d, t, EntityRequest(d)) /\ Proceed(d, "entities", t)
      BY <1>2, <2>2 DEF StartCycle
    <3>2. Apart(d, t) /\ tasks' = [tasks EXCEPT ![t] = EntityRequest(d)]
      BY <3>1 DEF NewTask, Apart
    <3>3. PICK k : k = EntityRequest(d)
      OBVIOUS
    <3>4. Sound(k) /\ tasks' = [tasks EXCEPT ![t] = k]
      BY <3>2, <3>3, SoundRequests
    <3>5. Sends(d)
      BY <2>1, <3>1, <3>2, <3>4, NewSends
    <3>6. QED BY <1>1, <3>5, DeviceKeeps
  <2>3. CASE record[d].sync # "pending"
    <3>1. Proceed(d, "transactions", 0) /\ Drops(d)
      BY <1>2, <2>3 DEF StartCycle, Drops
    <3>2. QED BY <1>1, <2>1, <3>1, StopSends, DeviceKeeps
  <2>4. QED BY <2>2, <2>3
<1>3. CASE ReadOutbox(d)
  <2>1. PICK b : b = FirstBatch(Syncable(d))
    OBVIOUS
  <2>2. PICK l : l = Others(Syncable(d))
    OBVIOUS
  <2>3. /\ b \in Seq(Counters) /\ l \in Seq(Counters) /\ (Syncable(d) # <<>> => b # <<>>)
        /\ \A n \in ToSet(b) \cup ToSet(l) : entries[d][n] # "none"
    <3>1. Syncable(d) \in Seq(Counters) /\ \A n \in ToSet(Syncable(d)) : entries[d][n] # "none"
      BY SyncableFacts
    <3>2. QED BY <2>1, <2>2, <3>1, LimitFacts, BatchFacts
  <2>4. Lists(d, b, l)
    BY <1>3, <2>1, <2>2, <2>3 DEF ReadOutbox, Lists
  <2>5. CASE Syncable(d) = <<>>
    <3>1. Proceed(d, "idle", 0) /\ Drops(d)
      BY <1>3, <2>5 DEF ReadOutbox, Drops
    <3>2. QED BY <1>1, <2>4, <3>1, StopSends, DeviceKeeps
  <2>6. CASE Syncable(d) # <<>>
    <3>1. PICK t \in Tasks : NewTask(d, t, PushRequest(d, b)) /\ Proceed(d, "push", t)
      BY <1>3, <2>1, <2>6 DEF ReadOutbox
    <3>2. PICK k : k = PushRequest(d, b)
      OBVIOUS
    <3>3. Apart(d, t) /\ tasks' = [tasks EXCEPT ![t] = k]
      BY <3>1, <3>2 DEF NewTask, Apart
    <3>4. Sound(k) /\ Covers(d, b, k, serverLog) /\ b # <<>>
      BY <2>3, <2>6, <3>2, SoundRequests
    <3>5. Sends(d)
      BY <2>4, <3>1, <3>3, <3>4, NewSends
    <3>6. QED BY <1>1, <3>5, DeviceKeeps
  <2>7. QED BY <2>5, <2>6
<1>4. CASE EntityReply(d)
  <2>1. Lists(d, batch[d], left[d]) /\ Drops(d) /\ Proceed(d, "transactions", 0)
    BY <1>4, SameLists DEF EntityReply, Answered, Drops
  <2>2. QED BY <1>1, <2>1, StopSends, DeviceKeeps
<1>5. CASE Abandon(d)
  <2>1. CASE Proceed(d, "transactions", 0) /\ UNCHANGED <<tasks, batch, left>>
    <3>1. Lists(d, batch[d], left[d]) /\ Drops(d)
      BY <2>1, SameLists DEF Drops
    <3>2. QED BY <1>1, <2>1, <3>1, StopSends, DeviceKeeps
  <2>2. CASE CycleEnds(d) /\ UNCHANGED tasks
    <3>1. Lists(d, <<>>, <<>>) /\ Proceed(d, "idle", 0) /\ Drops(d)
      BY <2>2, NoLists DEF CycleEnds, Drops
    <3>2. QED BY <1>1, <2>2, <3>1, StopSends, DeviceKeeps
  <2>3. ASSUME NEW t \in Tasks, NEW k, NEW st \in {"entities", "push"}, Sound(k), NewTask(d, t, k), Proceed(d, st, t),
               UNCHANGED <<batch, left>>, st = "push" => batch[d] # <<>> /\ Covers(d, batch[d], k, serverLog)
        PROVE  PushInv'
    <3>1. Lists(d, batch[d], left[d]) /\ Apart(d, t) /\ tasks' = [tasks EXCEPT ![t] = k]
      BY <2>3, SameLists DEF NewTask, Apart
    <3>2. Sends(d)
      BY <2>3, <3>1, NewSends
    <3>3. QED BY <1>1, <3>2, DeviceKeeps
  <2>4. CASE stage[d] = "entities" /\ TryAgain(d, EntityRequest(d)) /\ UNCHANGED <<batch, left>>
    <3>1. PICK t \in Tasks : NewTask(d, t, EntityRequest(d)) /\ Proceed(d, "entities", t)
      BY <2>4 DEF TryAgain
    <3>2. QED BY <2>3, <2>4, <3>1, SoundRequests
  <2>5. CASE stage[d] = "push" /\ TryAgain(d, PushRequest(d, batch[d])) /\ UNCHANGED <<batch, left>>
    <3>1. PICK t \in Tasks : NewTask(d, t, PushRequest(d, batch[d])) /\ Proceed(d, "push", t)
      BY <2>5 DEF TryAgain
    <3>2. batch[d] \in Seq(Counters) /\ batch[d] # <<>> /\ \A n \in ToSet(batch[d]) : entries[d][n] # "none"
      BY <1>s, <2>5 DEF SendFacts, Carried
    <3>3. /\ Sound(PushRequest(d, batch[d]))
          /\ Covers(d, batch[d], PushRequest(d, batch[d]), serverLog)
      BY <3>2, SoundRequests
    <3>4. QED BY <2>3, <2>5, <3>1, <3>2, <3>3
  <2>6. QED BY <1>5, <2>1, <2>2, <2>4, <2>5 DEF Abandon
<1>6. QED BY <1>2, <1>3, <1>4, <1>5

(* An answer, and a refusal of the whole batch.                            *)
LEMMA MarkingSteps ==
    ASSUME PushInv, NEW d \in Devices, PushRefused(d) \/ \E k \in 0..MaxCounter : PushReply(d, k)
    PROVE  PushInv'
<1>s. SendFacts /\ \A n \in ToSet(batch[d]) : n \in Counters /\ entries[d][n] # "none"
  <2>1. SendFacts /\ batch[d] \in Seq(Counters)
    BY SendingFacts DEF SendFacts
  <2>2. QED BY <2>1, LenProperties DEF SendFacts, Carried, ToSet
<1>1. CASE PushRefused(d)
  <2>1. PICK f : f = [n \in Counters |-> IF n \in ToSet(batch[d]) THEN "failed" ELSE entries[d][n]]
    OBVIOUS
  <2>2. f \in [Counters -> Status] /\ entries' = [entries EXCEPT ![d] = f]
    BY <1>1, <2>1, LimitFacts DEF PushRefused, MarkFailed, Status
  <2>3. \A n \in Counters : /\ f[n] # "none" <=> entries[d][n] # "none"
                            /\ f[n] \in {"synced", "conflict"} => serverLog[n] # NoTx
    BY <1>s, <2>1 DEF PushInv, Told
  <2>4. UNCHANGED <<head, record, serverLog, row, faults, site>>
    BY <1>1 DEF PushRefused, limits
  <2>5. Marks(d)
    BY <2>2, <2>3, <2>4, LimitFacts, MarkingMarks
  <2>6. Sends(d)
    BY <1>1, NextSends DEF PushRefused, Untouched
  <2>7. QED BY <2>5, <2>6, DeviceKeeps
<1>2. ASSUME NEW k \in 0..MaxCounter, PushReply(d, k)
      PROVE  PushInv'
  <2>1. PICK task : task = tasks[sent[d]]
    OBVIOUS
  <2>2. PICK marked : marked = {batch[d][i] : i \in 1..k}
    OBVIOUS
  <2>3. PICK f : f = [n \in Counters |-> IF n \in marked THEN Verdict(task, n) ELSE entries[d][n]]
    OBVIOUS
  <2>4. /\ stage[d] = "push" /\ sent[d] # 0 /\ task # NoTask /\ task.step = "reply" /\ k \in 0..Len(batch[d])
        /\ entries' = [entries EXCEPT ![d] = f]
        /\ UNCHANGED <<head, record, serverLog, row, site>>
    BY <1>2, <2>1, <2>2, <2>3, LimitFacts DEF PushReply, Answered
  <2>5. marked \subseteq ToSet(batch[d])
    <3>1. Len(batch[d]) \in Nat /\ DOMAIN batch[d] = 1..Len(batch[d])
      BY <1>s, LenProperties DEF SendFacts
    <3>2. \A i \in 1..k : i \in 1..Len(batch[d])
      BY <2>4, <3>1
    <3>3. QED BY <2>2, <3>1, <3>2 DEF ToSet
  <2>6. \A n \in ToSet(batch[d]) : Verdict(task, n) \in {"synced", "conflict"} => serverLog[n] # NoTx
    <3>1. sent[d] \in Tasks
      BY <2>4, SendingFacts DEF SendFacts, Tasks
    <3>2. task \in PushTask /\ \A n \in ToSet(batch[d]) : n \in ToSet(task.rest) \cup task.errors \/ serverLog[n] # NoTx
      BY <1>s, <2>1, <2>4 DEF SendFacts, Covered, Covers
    <3>3. task.rest = <<>> /\ PushOK(task, entries, serverLog, row)
      BY <2>1, <2>4, <3>1, <3>2 DEF PushInv, TypeInv, StepsOK, RequestsOK
    <3>4. ToSet(task.rest) = {}
      BY <3>3 DEF ToSet
    <3>5. QED BY <3>2, <3>3, <3>4 DEF Verdict, PushOK
  <2>7. f \in [Counters -> Status]
    BY <2>3, LimitFacts DEF Verdict, Status
  <2>8. \A n \in Counters : /\ f[n] # "none" <=> entries[d][n] # "none"
                            /\ f[n] \in {"synced", "conflict"} => serverLog[n] # NoTx
    BY <1>s, <2>3, <2>5, <2>6 DEF PushInv, Told, Verdict
  <2>9. faults' \in 0..site.maxFaults
    BY <1>2, LimitFacts DEF PushReply
  <2>10. Marks(d)
    BY <2>4, <2>7, <2>8, <2>9, LimitFacts, MarkingMarks
  <2>11. CASE k < Len(batch[d])
    <3>1. Lists(d, <<>>, <<>>) /\ Proceed(d, "idle", 0) /\ Drops(d)
      BY <1>2, <2>4, <2>11, NoLists DEF PushReply, CycleEnds, Drops
    <3>2. QED BY <2>10, <3>1, StopSends, DeviceKeeps
  <2>12. CASE ~(k < Len(batch[d]))
    <3>1. NextBatch(d)
      BY <1>2, <2>12 DEF PushReply
    <3>2. QED BY <2>4, <2>10, <3>1, NextSends, DeviceKeeps
  <2>13. QED BY <2>11, <2>12
<1>3. QED BY <1>1, <1>2

(* A request ends.                                                         *)
LEMMA EndingStep ==
    ASSUME PushInv, NEW t \in Tasks, TaskEnds(t)
    PROVE  PushInv'
<1>1. PICK d \in Devices : TRUE
  BY PushAssumption
<1>2. /\ UNCHANGED <<head, entries, record, stage, batch, left, sent, serverLog, row, site>>
      /\ tasks' = [tasks EXCEPT ![t] = NoTask] /\ faults' \in 0..site.maxFaults
  BY LimitFacts DEF TaskEnds, device
<1>3. Marks(d)
  BY <1>2, LimitFacts, QuietMarks
<1>s. SendFacts /\ MaxTasks \in Nat
  BY SendingFacts
<1>4. TasksOK' /\ \A x \in Tasks : tasks'[x] = tasks[x] \/ tasks'[x] = NoTask
  BY <1>2, <1>s DEF SendFacts, TasksOK
<1>5. sent'[d] # 0 => Apart(d, sent'[d])
  BY <1>2, <1>s DEF SendFacts, Sent, Apart
<1>6. \A n \in ToSet(batch'[d]) \cup ToSet(left'[d]) : entries[d][n] # "none"
  BY <1>2, <1>s DEF SendFacts, Carried
<1>7. stage'[d] = "push" =>
          /\ batch'[d] # <<>>
          /\ sent'[d] # 0 /\ tasks'[sent'[d]] # NoTask
                => Covers(d, batch'[d], tasks'[sent'[d]], serverLog)
  <2>1. sent[d] # 0 => sent[d] \in Tasks
    BY <1>s DEF SendFacts, Tasks
  <2>2. QED BY <1>2, <1>4, <1>s, <2>1 DEF SendFacts, Covered
<1>8. Sends(d)
  BY <1>2, <1>4, <1>5, <1>6, <1>7, <1>s DEF SendFacts, Sends
<1>9. QED BY <1>3, <1>8, DeviceKeeps
-----------------------------------------------------------------------------
LEMMA InitPush == Init => PushInv
<1> SUFFICES ASSUME Init
             PROVE  PushInv
  OBVIOUS
<1>1. Issued \in Tx
  <2>1. (CHOOSE d \in Devices : TRUE) \in Devices
    BY PushAssumption
  <2>2. QED BY <2>1 DEF Issued, Tx
<1>2. /\ site \in Sites /\ site.maxFaults \in Nat /\ head = 0 /\ faults = 0 /\ {MaxCounter, MaxTasks} \subseteq Nat
  BY PushAssumption DEF Init
<1>3. /\ entries = [d \in Devices |-> [n \in Counters |-> "none"]]
      /\ stage = [d \in Devices |-> "idle"]
      /\ batch = [d \in Devices |-> <<>>] /\ left = batch
      /\ sent = [d \in Devices |-> 0] /\ tasks = [t \in Tasks |-> NoTask]
      /\ serverLog = [n \in Counters |-> NoTx]
  BY DEF Init
<1>4. DevicesOK
  <2>1. record \in [Devices -> Records]
    BY <1>1 DEF Init, Records
  <2>2. QED BY <1>2, <1>3, <2>1 DEF DevicesOK, Status
<1>5. TasksOK /\ LimitsOK
  BY <1>2, <1>3 DEF TasksOK, LimitsOK
<1>6. ServerOK
  <2>1. row \in Rows \cup {NoRow}
    BY <1>1 DEF Init, Rows
  <2>2. QED BY <1>3, <2>1 DEF ServerOK
<1>7. StepsOK
  BY <1>3, NothingAssumption DEF StepsOK
<1>8. Owned /\ Sent /\ Covered /\ Told /\ FlaggedIsSuperseded
  BY <1>3 DEF Owned, Sent, Covered, Told, FlaggedIsSuperseded
<1>9. RequestsOK
  BY <1>3, NothingAssumption DEF RequestsOK
<1>10. Carried
  BY <1>3 DEF Carried, ToSet
<1>11. QED BY <1>4, <1>5, <1>6, <1>7, <1>8, <1>9, <1>10 DEF PushInv, TypeInv

LEMMA NextPush == PushInv /\ [Next]_vars => PushInv'
<1> SUFFICES ASSUME PushInv, [Next]_vars
             PROVE  PushInv'
  OBVIOUS
<1>1. ASSUME NEW d \in Devices,
             \/ Write(d) \/ Fork(d) \/ Edit(d) \/ StartCycle(d) \/ ReadOutbox(d) \/ Replies(d)
             \/ PushRefused(d) \/ Abandon(d) \/ PullRecord(d)
             \/ \E n \in Counters : PullSettles(d, n)
      PROVE  PushInv'
  BY <1>1, Writes, RecordSteps, SendingSteps, MarkingSteps DEF Replies
<1>2. ASSUME NEW t \in Tasks, ServerStep(t) \/ StatementFails(t) \/ TaskEnds(t)
      PROVE  PushInv'
  BY <1>2, ServerSteps, EndingStep
<1>3. CASE UNCHANGED vars
  BY <1>3 DEF vars, device, server, limits, PushInv, TypeInv, DevicesOK, TasksOK, ServerOK, LimitsOK, StepsOK,
        Owned, Sent, RequestsOK, Carried, Covered, Told, FlaggedIsSuperseded
<1>4. QED BY <1>1, <1>2, <1>3 DEF Next

(* What a device shows as synced, or as a conflict, is this very           *)
(* transaction in the server's log unless card writes fork, and a          *)
(* transaction is flagged only if the card's row is at its counter or      *)
(* beyond: for any number of devices, transactions, concurrent requests,   *)
(* lost or repeated requests and answers, and failing statements.          *)
THEOREM VerdictsTrue == Spec => []VerdictsAreTrue
<1>1. PushInv => VerdictsAreTrue
  <2> SUFFICES ASSUME PushInv
               PROVE  VerdictsAreTrue
    OBVIOUS
  <2>1. TypeOK
    BY DEF PushInv, TypeInv, TypeOK, DevicesOK, TasksOK, ServerOK, LimitsOK, Records, Requests, Rows, LogRows
  <2>2. AnsweredIsStored
    <3>1. SUFFICES ASSUME ~site.fork, NEW d \in Devices, NEW n \in Counters, entries[d][n] \in {"synced", "conflict"}
                   PROVE  Stored(d, n)
      BY DEF AnsweredIsStored
    <3>2. serverLog[n] # NoTx
      BY <3>1 DEF PushInv, Told
    <3>3. serverLog[n].by \in Devices /\ entries[serverLog[n].by][n] # "none"
      BY <3>2, LimitFacts DEF PushInv, Owned, LogRows
    <3>4. QED BY <3>1, <3>2, <3>3 DEF PushInv, Owned, Stored
  <2>3. QED BY <2>1, <2>2 DEF PushInv, VerdictsAreTrue
<1>2. QED BY <1>1, InitPush, NextPush, PTL DEF Spec

(* The server's counter of a card never falls: only the last statement of  *)
(* an entity and of a transaction change the row, whatever the order in    *)
(* which requests that read it before are carried out.                     *)
THEOREM CounterKept == Spec => CounterNeverFalls
<1>1. PushInv /\ [Next]_vars => [row # NoRow => row' # NoRow /\ row'.counter >= row.counter]_row
  <2> SUFFICES ASSUME PushInv, [Next]_vars, row' # row, row # NoRow
               PROVE  row' # NoRow /\ row'.counter >= row.counter
    BY DEF CounterNeverFalls
  <2>1. PICK t \in Tasks : EntityWrite(t) \/ PushUpdate(t)
    BY DEF Next, Write, Fork, RecordWrite, Edit, StartCycle, ReadOutbox, Replies, EntityReply, PushReply, PushRefused,
           Abandon, PullRecord, PullSettles, ServerStep, EntityRead, PushFind, PushRow, PushInsert, StatementFails,
           TaskEnds, vars, server
  <2>2. row \in Rows /\ row.counter \in Nat
    BY LimitFacts DEF Rows
  <2>3. tasks \in [Tasks -> Requests \cup {NoTask}] /\ RequestsOK
    BY DEF PushInv, TypeInv, TasksOK
  <2>4. PICK k : k = tasks[t]
    OBVIOUS
  <2>5. CASE EntityWrite(t)
    <3>1. k \in EntityTask
      BY <2>3, <2>4, <2>5, NothingAssumption DEF EntityWrite, At, EntityTask, PushTask, Requests
    <3>2. k.counter \in Nat
      BY <3>1 DEF EntityTask
    <3>3. row' = [counter |-> Max({k.counter, row.counter}), tx |-> k.tx]
      BY <2>3, <2>4, <2>5, <3>1 DEF EntityWrite, RequestsOK, EntityOK
    <3> DEFINE m == Max({k.counter, row.counter})
    <3>4. \E x \in {k.counter, row.counter} : \A y \in {k.counter, row.counter} : x >= y
      BY <2>2, <3>2
    <3>5. m \in Nat /\ m >= row.counter
      BY <2>2, <3>2, <3>4 DEF Max
    <3> HIDE DEF m
    <3>6. row' = [counter |-> m, tx |-> k.tx] /\ k.tx \in Tx
      BY <3>1, <3>3 DEF m, EntityTask
    <3>7. row' # NoRow
      BY <3>5, <3>6, NothingAssumption
    <3>8. QED BY <3>5, <3>6, <3>7
  <2>6. CASE PushUpdate(t)
    <3>1. k \in PushTask /\ k.step = "update"
      BY <2>3, <2>4, <2>6, NothingAssumption DEF PushUpdate, At, EntityTask, PushTask, Requests
    <3>2. FinishesAs(t, {}, {}, Finished(k, {}, {}))
      BY <2>4, <3>1 DEF FinishesAs
    <3>3. Current(t) \in Counters
      BY <3>2, FinishFacts DEF PushInv
    <3>4. /\ row' = [counter |-> Current(t), tx |-> [counter |-> Current(t), by |-> k.by]]
          /\ row.counter < Current(t)
      BY <2>4, <2>6 DEF PushUpdate
    <3>5. [counter |-> Current(t), by |-> k.by] \in Tx /\ Current(t) \in Nat
      BY <3>1, <3>3 DEF PushTask, Tx, Counters
    <3>6. row' # NoRow
      BY <3>4, <3>5, NothingAssumption
    <3>7. QED BY <2>2, <3>4, <3>5, <3>6
  <2>7. QED BY <2>1, <2>5, <2>6
<1>2. QED BY <1>1, InitPush, NextPush, PTL DEF Spec, CounterNeverFalls

=============================================================================

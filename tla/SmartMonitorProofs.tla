------------------------- MODULE SmartMonitorProofs -------------------------
(***************************************************************************)
(* Proofs about SmartMonitor for any number of collectors and disks and    *)
(* any dumps: types, the order in which samples enter the history, and     *)
(* what the analyses of a history say of a disk that wears.                 *)
(***************************************************************************)
EXTENDS SmartMonitor, FiniteSetTheorems, WellFoundedInduction, TLAPS

USE DEF vars

-----------------------------------------------------------------------------
(* Parsing.  A set of positions of a sequence has a last one, so the last   *)
(* accepted line of an attribute is a line of the dump.                     *)
LEMMA LastPosition ==
  ASSUME NEW n \in Nat, NEW P \in SUBSET (1..n), P # {}
  PROVE  \E i \in P : \A j \in P : j <= i
<1> DEFINE T == {n - i : i \in P}
<1>1. T \subseteq Nat /\ T # {}
  <2>1. \A i \in P : i \in Nat /\ n - i \in Nat
    OBVIOUS
  <2>2. QED
    BY <2>1
<1>2. PICK x \in T : \A y \in T : <<y, x>> \notin OpToRel(<, Nat)
  <2> HIDE DEF T
  <2>1. QED
    BY <1>1, NatLessThanWellFounded, WFMin
<1>3. PICK i \in P : x = n - i
  OBVIOUS
<1>4. ASSUME NEW j \in P PROVE j <= i
  <2>1. <<n - j, x>> \notin OpToRel(<, Nat)
    BY <1>2
  <2>2. ~(n - j < x)
    BY <1>1, <2>1 DEF OpToRel
  <2>3. QED
    BY <1>3, <2>2
<1>5. QED
  BY <1>4

LEMMA AcceptedLine ==
  ASSUME NEW dump \in Seq(Line), NEW a, Accepted(dump, a) # {}
  PROVE  LastAccepted(dump, a) \in Line
<1>1. Accepted(dump, a) \in SUBSET (1..Len(dump)) /\ Len(dump) \in Nat
  BY DEF Accepted
<1>2. \E i \in Accepted(dump, a) : \A j \in Accepted(dump, a) : j <= i
  BY <1>1, LastPosition
<1>3. QED
  BY <1>1, <1>2 DEF LastAccepted

LEMMA RawIsANumber ==
  ASSUME NEW dump \in Seq(Line), NEW a
  PROVE  Raw(dump, a) \in Nat
BY AcceptedLine DEF Raw, Line

LEMMA SampleIsTyped ==
  ASSUME TypeOK, NEW c \in Collectors, NEW dump \in Seq(Line)
  PROVE  Sample(c, dump) \in SampleType
<1>1. \A a : Raw(dump, a) \in Nat
  BY RawIsANumber
<1>2. \A s, r, t, f : assessOverallHealth(s, r, t, f) \in {"Healthy", "SubHealthy", "Failed"}
  BY DEF assessOverallHealth
<1>3. Whole(dump) \in BOOLEAN
  BY DEF Whole
<1>4. QED
  BY <1>1, <1>2, <1>3 DEF Sample, SampleType, TypeOK

-----------------------------------------------------------------------------
(* Types.                                                                  *)
LEMMA TypeStep == TypeOK /\ [Next]_vars => TypeOK'
<1> SUFFICES ASSUME TypeOK, [Next]_vars PROVE TypeOK'
  OBVIOUS
<1> USE DEF TypeOK
<1>1. CASE Tick
  BY <1>1 DEF Tick
<1>2. ASSUME NEW d \in Disks, Degrade(d) PROVE TypeOK'
  BY <1>2, MonitorAssumption DEF Degrade
<1>3. ASSUME NEW c \in Collectors, NEW d \in Disks, ParseSMART(c, d) PROVE TypeOK'
  <2>1. PICK dump \in Dumps[wear[d]] :
          \/ UNCHANGED pending
          \/ pending' = [pending EXCEPT ![c] = <<DeviceID(d, dump), Sample(c, dump)>>]
    BY <1>3 DEF ParseSMART
  <2>2. dump \in Seq(Line)
    BY <2>1, MonitorAssumption
  <2>3. Sample(c, dump) \in SampleType /\ DeviceID(d, dump) \in IDs
    BY <2>2, SampleIsTyped DEF DeviceID, IDs
  <2>4. QED
    BY <1>3, <2>1, <2>3 DEF ParseSMART
<1>4. ASSUME NEW c \in Collectors, Store(c) PROVE TypeOK'
  BY <1>4 DEF Store
<1>5. ASSUME NEW c \in Collectors, StoreFails(c) PROVE TypeOK'
  BY <1>5 DEF StoreFails
<1>6. CASE UNCHANGED vars
  BY <1>6
<1>7. QED
  BY <1>1, <1>2, <1>3, <1>4, <1>5, <1>6 DEF Next

(* Every variable of SmartMonitor keeps its type, whatever the dumps hold.  *)
THEOREM TypeCorrect == Spec => []TypeOK
<1>1. Init => TypeOK
  BY MonitorAssumption DEF Init, TypeOK
<1>2. QED
  BY <1>1, TypeStep, PTL DEF Spec

(* What Store leaves: its sample at the end of one history, and nothing of  *)
(* it with the collector.                                                   *)
LEMMA StoredSamples ==
  ASSUME TypeOK, NEW c \in Collectors, Store(c)
  PROVE  /\ pending[c] # <<>> /\ pending[c][1] \in IDs
         /\ UNCHANGED <<now, kind, wear>>
         /\ pending'[c] = <<>> /\ \A b \in Collectors \ {c} : pending'[b] = pending[b]
         /\ \A d \in IDs : DOMAIN log[d] = 1..Len(log[d]) /\ Len(log[d]) \in Nat
         /\ \A d \in IDs : \A i \in DOMAIN log'[d] :
              \/ i \in DOMAIN log[d] /\ log'[d][i] = log[d][i]
              \/ d = pending[c][1] /\ i = Len(log[d]) + 1 /\ log'[d][i] = pending[c][2]
<1> DEFINE e == pending[c][1]  s == pending[c][2]
<1>1. pending[c] # <<>> /\ e \in IDs
  BY DEF Store, TypeOK
<1>2. log' = [log EXCEPT ![e] = Append(@, s)]
  BY DEF Store
<1>3. ASSUME NEW d \in IDs, NEW i \in DOMAIN log'[d]
      PROVE  \/ i \in DOMAIN log[d] /\ log'[d][i] = log[d][i]
             \/ d = e /\ i = Len(log[d]) + 1 /\ log'[d][i] = s
  BY <1>1, <1>2 DEF TypeOK
<1>4. \A d \in IDs : DOMAIN log[d] = 1..Len(log[d]) /\ Len(log[d]) \in Nat
  BY DEF TypeOK
<1>5. pending'[c] = <<>> /\ \A b \in Collectors \ {c} : pending'[b] = pending[b]
  BY DEF Store, TypeOK
<1>6. QED
  BY <1>1, <1>3, <1>4, <1>5 DEF Store

(* What ParseSMART leaves: with its collector, a sample of one of the       *)
(* disk's present dumps, or nothing new if that was empty.                  *)
LEMMA ParsedSample ==
  ASSUME TypeOK, NEW c \in Collectors, NEW d \in Disks, ParseSMART(c, d)
  PROVE  /\ UNCHANGED <<now, kind, wear, log>>
         /\ \A b \in Collectors \ {c} : pending'[b] = pending[b]
         /\ \E dump \in Dumps[wear[d]] :
              \/ pending' = pending
              \/ pending'[c] = <<DeviceID(d, dump), Sample(c, dump)>>
BY DEF ParseSMART, TypeOK

-----------------------------------------------------------------------------
(* Order.  The history alone does not tell why: the sample that a collector *)
(* has yet to store was stamped after all that it has stored, and after all *)
(* that was in a history before its last one there.                         *)
PendingInv ==
  \A c \in Collectors : pending[c] # <<>> =>
    /\ pending[c][2].by = c
    /\ pending[c][2].ts <= now
    /\ \A d \in IDs : \A i, j \in DOMAIN log[d] :
         i <= j /\ log[d][j].by = c => log[d][i].ts <= pending[c][2].ts

OrderInv == CollectorOrder /\ PendingInv

LEMMA StampsAreNumbers ==
  ASSUME TypeOK
  PROVE  /\ now \in Nat
         /\ \A d \in IDs : \A i \in DOMAIN log[d] : i \in Nat /\ log[d][i].ts \in Nat
         /\ \A c \in Collectors : pending[c] # <<>> => pending[c][2].ts \in Nat
<1>1. \A t \in SampleType : t.ts \in Nat
  BY DEF SampleType
<1>2. ASSUME NEW d \in IDs, NEW i \in DOMAIN log[d] PROVE i \in Nat /\ log[d][i] \in SampleType
  BY DEF TypeOK
<1>3. ASSUME NEW c \in Collectors, pending[c] # <<>> PROVE pending[c][2] \in SampleType
  BY <1>3 DEF TypeOK
<1>4. QED
  BY <1>1, <1>2, <1>3 DEF TypeOK

LEMMA OrderStep == TypeOK /\ OrderInv /\ [Next]_vars => OrderInv'
<1> SUFFICES ASSUME TypeOK, OrderInv, [Next]_vars PROVE OrderInv'
  OBVIOUS
<1>1. CASE Tick
  BY <1>1, StampsAreNumbers DEF Tick, OrderInv, CollectorOrder, PendingInv
<1>2. ASSUME NEW d \in Disks, Degrade(d) PROVE OrderInv'
  BY <1>2 DEF Degrade, OrderInv, CollectorOrder, PendingInv
<1>3. ASSUME NEW c \in Collectors, NEW d \in Disks, ParseSMART(c, d) PROVE OrderInv'
  <2>1. /\ UNCHANGED <<now, log>>
        /\ \A b \in Collectors \ {c} : pending'[b] = pending[b]
    BY <1>3, ParsedSample
  <2>2. pending' = pending \/ (pending'[c][2].by = c /\ pending'[c][2].ts = now)
    <3>1. PICK dump \in Dumps[wear[d]] :
            pending' = pending \/ pending'[c] = <<DeviceID(d, dump), Sample(c, dump)>>
      BY <1>3, ParsedSample
    <3>2. Sample(c, dump).by = c /\ Sample(c, dump).ts = now
      BY DEF Sample
    <3>3. QED
      BY <3>1, <3>2
  <2>3. CollectorOrder'
    BY <2>1 DEF OrderInv, CollectorOrder
  <2>4. ASSUME NEW b \in Collectors, pending'[b] # <<>>
        PROVE  /\ pending'[b][2].by = b
               /\ pending'[b][2].ts <= now
               /\ \A e \in IDs : \A i, j \in DOMAIN log[e] :
                    i <= j /\ log[e][j].by = b => log[e][i].ts <= pending'[b][2].ts
    <3>1. CASE pending'[b] = pending[b]
      BY <2>4, <3>1 DEF OrderInv, PendingInv
    <3>2. CASE b = c /\ pending'[c][2].by = c /\ pending'[c][2].ts = now
      BY <3>2, StampsAreNumbers DEF OrderInv, CollectorOrder
    <3>3. QED
      BY <2>1, <2>2, <3>1, <3>2
  <2>5. PendingInv'
    BY <2>1, <2>4 DEF PendingInv
  <2>6. QED
    BY <2>3, <2>5 DEF OrderInv
<1>4. ASSUME NEW c \in Collectors, Store(c) PROVE OrderInv'
  <2> DEFINE e == pending[c][1]  s == pending[c][2]
  <2>1. /\ pending[c] # <<>> /\ s.by = c /\ s.ts <= now
    BY <1>4, StoredSamples DEF OrderInv, PendingInv
  <2>2. /\ now' = now
        /\ pending'[c] = <<>> /\ \A b \in Collectors \ {c} : pending'[b] = pending[b]
    BY <1>4, StoredSamples
  <2>3. ASSUME NEW d \in IDs, NEW i \in DOMAIN log'[d]
        PROVE  /\ i \in Nat
               /\ \/ i \in DOMAIN log[d] /\ i <= Len(log[d]) /\ log'[d][i] = log[d][i]
                  \/ i = Len(log[d]) + 1 /\ log'[d][i] = s
    BY <1>4, StoredSamples
  <2>4. \A d \in IDs : DOMAIN log[d] = 1..Len(log[d]) /\ Len(log[d]) \in Nat
    BY <1>4, StoredSamples
  <2>5. \A d \in IDs : \A i, j \in DOMAIN log[d] :
          i <= j /\ log[d][j].by = c => log[d][i].ts <= s.ts
    BY <2>1 DEF OrderInv, PendingInv
  <2> HIDE DEF e, s
  <2>6. CollectorOrder'
    <3>1. ASSUME NEW d \in IDs, NEW i \in DOMAIN log'[d] PROVE log'[d][i].ts <= now
      BY <2>1, <2>3 DEF OrderInv, CollectorOrder
    <3>2. ASSUME NEW d \in IDs, NEW i \in DOMAIN log'[d], NEW j \in DOMAIN log'[d],
                 NEW k \in DOMAIN log'[d], i <= j, j < k, log'[d][j].by = log'[d][k].by
          PROVE  log'[d][i].ts <= log'[d][k].ts
      <4>1. k \in Nat /\ (k <= Len(log[d]) \/ k = Len(log[d]) + 1)
        BY <2>3
      <4>2. /\ i \in DOMAIN log[d] /\ log'[d][i] = log[d][i]
            /\ j \in DOMAIN log[d] /\ log'[d][j] = log[d][j]
        BY <2>3, <2>4, <3>2, <4>1
      <4>3. CASE k \in DOMAIN log[d] /\ log'[d][k] = log[d][k]
        BY <3>2, <4>2, <4>3 DEF OrderInv, CollectorOrder
      <4>4. CASE log'[d][k] = s
        BY <2>1, <2>5, <3>2, <4>2, <4>4
      <4>5. QED
        BY <2>3, <4>3, <4>4
    <3>3. QED
      BY <2>2, <3>1, <3>2 DEF CollectorOrder
  <2>7. ASSUME NEW b \in Collectors \ {c}, pending[b] # <<>>
        PROVE  /\ pending[b][2].by = b
               /\ pending[b][2].ts <= now
               /\ \A d \in IDs : \A i, j \in DOMAIN log'[d] :
                    i <= j /\ log'[d][j].by = b => log'[d][i].ts <= pending[b][2].ts
    <3>1. ASSUME NEW d \in IDs, NEW i \in DOMAIN log'[d], NEW j \in DOMAIN log'[d],
                 i <= j, log'[d][j].by = b
          PROVE  log'[d][i].ts <= pending[b][2].ts
      <4>1. j \in DOMAIN log[d] /\ log'[d][j] = log[d][j] /\ j <= Len(log[d]) /\ j \in Nat
        BY <2>1, <2>3, <3>1
      <4>2. i \in DOMAIN log[d] /\ log'[d][i] = log[d][i]
        BY <2>3, <2>4, <3>1, <4>1
      <4>3. QED
        BY <2>7, <3>1, <4>1, <4>2 DEF OrderInv, PendingInv
    <3>2. QED
      BY <2>7, <3>1 DEF OrderInv, PendingInv
  <2>8. PendingInv'
    BY <2>2, <2>7 DEF PendingInv
  <2>9. QED
    BY <2>6, <2>8 DEF OrderInv
<1>5. ASSUME NEW c \in Collectors, StoreFails(c) PROVE OrderInv'
  BY <1>5 DEF StoreFails, OrderInv, CollectorOrder, PendingInv, TypeOK
<1>6. CASE UNCHANGED vars
  BY <1>6 DEF OrderInv, CollectorOrder, PendingInv
<1>7. QED
  BY <1>1, <1>2, <1>3, <1>4, <1>5, <1>6 DEF Next

LEMMA OrderIsLasting == Spec => []OrderInv
<1>1. Init => OrderInv
  BY DEF Init, OrderInv, CollectorOrder, PendingInv
<1>2. QED
  BY <1>1, OrderStep, TypeCorrect, PTL DEF Spec

(* However the collectors and disks of a history interleave, each           *)
(* collector's samples are in it in the order of their time stamps, and at  *)
(* most one between two of them is later than the second.                   *)
THEOREM CollectorsStayInOrder == Spec => []CollectorOrder
<1>1. OrderInv => CollectorOrder
  BY DEF OrderInv
<1>2. QED
  BY <1>1, OrderIsLasting, PTL

-----------------------------------------------------------------------------
(* The assessment.  A sample carries its own two counters into the history, *)
(* so it is there what assessOverallHealth has made of them.                *)
Coherent(s) ==
  /\ s.status = "Healthy" => s.sectors <= 10 /\ s.rate <= 10000
  /\ s.status = "Failed" <=> s.sectors > 100 \/ s.rate > 100000

AssessedInv ==
  /\ \A c \in Collectors : pending[c] # <<>> => Coherent(pending[c][2])
  /\ \A d \in IDs : \A i \in DOMAIN log[d] : Coherent(log[d][i])

LEMMA AssessedStep == TypeOK /\ AssessedInv /\ [Next]_vars => AssessedInv'
<1> SUFFICES ASSUME TypeOK, AssessedInv, [Next]_vars PROVE AssessedInv'
  OBVIOUS
<1>1. ASSUME NEW c \in Collectors, NEW d \in Disks, ParseSMART(c, d) PROVE AssessedInv'
  <2>1. PICK dump \in Dumps[wear[d]] :
          pending' = pending \/ pending'[c] = <<DeviceID(d, dump), Sample(c, dump)>>
    BY <1>1, ParsedSample
  <2>2. dump \in Seq(Line)
    BY <2>1, MonitorAssumption DEF TypeOK
  <2>3. Raw(dump, "sectors") \in Nat /\ Raw(dump, "rate") \in Nat
    BY <2>2, RawIsANumber
  <2>4. Coherent(Sample(c, dump))
    BY <2>3 DEF Coherent, Sample, assessOverallHealth
  <2>5. QED
    BY <1>1, <2>1, <2>4, ParsedSample DEF AssessedInv
<1>2. ASSUME NEW c \in Collectors, Store(c) PROVE AssessedInv'
  BY <1>2, StoredSamples DEF AssessedInv
<1>3. ASSUME NEW c \in Collectors, StoreFails(c) PROVE AssessedInv'
  BY <1>3 DEF StoreFails, AssessedInv, TypeOK
<1>4. QED
  BY <1>1, <1>2, <1>3 DEF Next, Tick, Degrade, AssessedInv

-----------------------------------------------------------------------------
(* The ends of what a Query answers.                                       *)
LEMMA FirstPosition ==
  ASSUME NEW n \in Nat, NEW P \in SUBSET (1..n), P # {}
  PROVE  \E i \in P : \A j \in P : i <= j
<1>1. P \subseteq Nat
  OBVIOUS
<1>2. PICK i \in P : \A j \in P : <<j, i>> \notin OpToRel(<, Nat)
  BY <1>1, NatLessThanWellFounded, WFMin
<1>3. ASSUME NEW j \in P PROVE i <= j
  <2>1. <<j, i>> \notin OpToRel(<, Nat)
    BY <1>2
  <2>2. i \in Nat /\ j \in Nat
    BY <1>1
  <2>3. ~(j < i)
    BY <2>1, <2>2 DEF OpToRel
  <2>4. QED
    BY <2>2, <2>3
<1>4. QED
  BY <1>3

LEMMA EndsOfMetrics ==
  ASSUME TypeOK, NEW d \in IDs, NEW P \in SUBSET DOMAIN log[d], P # {}
  PROVE  /\ Max(P) \in P /\ \A j \in P : j <= Max(P)
         /\ Min(P) \in P /\ \A j \in P : Min(P) <= j
         /\ Latest(d, P) = log[d][Max(P)] /\ Oldest(d, P) = log[d][Min(P)]
         /\ Latest(d, P) \in SampleType /\ Oldest(d, P) \in SampleType
<1>1. DOMAIN log[d] = 1..Len(log[d]) /\ Len(log[d]) \in Nat
  BY DEF TypeOK
<1>2. \E i \in P : \A j \in P : j <= i
  BY <1>1, LastPosition
<1>3. \E i \in P : \A j \in P : i <= j
  BY <1>1, FirstPosition
<1>4. Max(P) \in P /\ \A j \in P : j <= Max(P)
  BY <1>1, <1>2 DEF Max
<1>5. Min(P) \in P /\ \A j \in P : Min(P) <= j
  BY <1>1, <1>3 DEF Min
<1>6. \A i \in P : log[d][i] \in SampleType
  BY DEF TypeOK
<1>7. QED
  BY <1>4, <1>5, <1>6 DEF Latest, Oldest

LEMMA QueriedPositions ==
  ASSUME TypeOK, NEW d \in IDs, NEW w \in Windows, Cardinality(Query(d, w)) >= 3
  PROVE  Query(d, w) \in SUBSET DOMAIN log[d] /\ Query(d, w) # {}
<1>1. Query(d, w) \in SUBSET DOMAIN log[d]
  BY DEF Query
<1>2. Query(d, w) # {}
  BY FS_EmptySet
<1>3. QED
  BY <1>1, <1>2

(* predictFailure and assessOverallHealth have thresholds of their own; on  *)
(* a coherent sample they never contradict each other.                      *)
LEMMA ThresholdsAgree ==
  ASSUME NEW s \in SampleType, Coherent(s)
  PROVE  /\ Alarming(s) => s.status # "Healthy"
         /\ s.status = "Failed" => Alarming(s)
BY DEF Coherent, Alarming, SampleType

(* Whatever was collected and stored, a prediction agrees with the health   *)
(* that the latest sample in the window was given when it was parsed.       *)
THEOREM PredictionAlwaysAgrees == Spec => []PredictionAgreesWithHealth
<1>1. Init => AssessedInv
  BY DEF Init, AssessedInv
<1>2. TypeOK /\ AssessedInv => PredictionAgreesWithHealth
  <2> SUFFICES ASSUME TypeOK, AssessedInv, NEW d \in IDs, NEW w \in Windows,
                      Cardinality(Query(d, w)) >= 3
               PROVE  /\ MonitorPerformance(d, w).predicted
                           => Latest(d, Query(d, w)).status # "Healthy"
                      /\ kind = "memory" /\ Latest(d, Query(d, w)).status = "Failed"
                           => MonitorPerformance(d, w).predicted
    BY DEF PredictionAgreesWithHealth
  <2> DEFINE Q == Query(d, w)
  <2>1. Q \in SUBSET DOMAIN log[d] /\ Q # {}
    BY QueriedPositions
  <2>2. Latest(d, Q) \in SampleType /\ Coherent(Latest(d, Q))
    BY <2>1, EndsOfMetrics DEF AssessedInv
  <2>3. /\ Alarming(Latest(d, Q)) => Latest(d, Q).status # "Healthy"
        /\ Latest(d, Q).status = "Failed" => Alarming(Latest(d, Q))
    BY <2>2, ThresholdsAgree
  <2>4. MonitorPerformance(d, w).predicted = predictFailure(d, Q)
    BY DEF MonitorPerformance
  <2>5. predictFailure(d, Q) <=> Alarming(Latest(d, Q)) /\ SMARTValues(Q) # {}
    BY DEF predictFailure
  <2>6. kind = "memory" => SMARTValues(Q) # {}
    BY <2>1 DEF SMARTValues
  <2>7. QED
    BY <2>3, <2>4, <2>5, <2>6
<1>3. QED
  BY <1>1, <1>2, AssessedStep, TypeCorrect, PTL DEF Spec

-----------------------------------------------------------------------------
(* Wear.  The samples of a disk show a disk that wears, in the order of     *)
(* their stamps and in the order of each collector.  That needs to be known *)
(* of where each sample comes from, a dump of the disk at a level of wear   *)
(* that it has reached, and of the samples that are still pending.          *)
NoMore(s, t) == s.whole /\ t.whole => s.sectors <= t.sectors /\ s.rate <= t.rate

ShownAt(s, level) ==
  s.whole => \E v \in 0..level : \E dump \in Dumps[v] :
    Whole(dump) /\ s.sectors = Raw(dump, "sectors") /\ s.rate = Raw(dump, "rate")

(* The disk's collectors with a parsed sample of it.                        *)
Holding(d) == {c \in Collectors : pending[c] # <<>> /\ pending[c][1] = d}

OriginInv ==
  \A d \in Disks :
    /\ \A c \in Holding(d) : ShownAt(pending[c][2], wear[d])
    /\ \A i \in DOMAIN log[d] : ShownAt(log[d][i], wear[d])

Older(s, t) == s.ts < t.ts => NoMore(s, t)

GrowthInv ==
  \A d \in Disks :
    /\ \A i, j \in DOMAIN log[d] :
         /\ Older(log[d][i], log[d][j])
         /\ i < j /\ log[d][i].by = log[d][j].by => NoMore(log[d][i], log[d][j])
    /\ \A c \in Holding(d), i \in DOMAIN log[d] :
         /\ InOrder(log[d][i], pending[c][2]) => NoMore(log[d][i], pending[c][2])
         /\ Older(pending[c][2], log[d][i])
    /\ \A b, c \in Holding(d) : Older(pending[b][2], pending[c][2])

WearInv == OrderInv /\ OriginInv /\ GrowthInv

(* What a step leaves of the collectors that hold a sample of a disk.       *)
LEMMA ParsedHolding ==
  ASSUME TypeOK, NEW c \in Collectors, NEW e \in Disks, ParseSMART(c, e), NEW d \in Disks,
         NEW b \in Holding(d)'
  PROVE  \/ b \in Holding(d) /\ pending'[b] = pending[b]
         \/ b = c /\ e = d /\ \E dump \in Dumps[wear[d]] : pending'[b][2] = Sample(c, dump)
<1>1. b \in Collectors /\ pending'[b] # <<>> /\ pending'[b][1] = d
  BY DEF Holding
<1>2. CASE pending'[b] = pending[b]
  BY <1>1, <1>2 DEF Holding
<1>3. ASSUME NEW dump \in Dumps[wear[e]], b = c,
             pending'[c] = <<DeviceID(e, dump), Sample(c, dump)>>
      PROVE  e = d /\ \E text \in Dumps[wear[d]] : pending'[b][2] = Sample(c, text)
  <2>1. d = DeviceID(e, dump)
    BY <1>1, <1>3
  <2>2. d = e
    BY <2>1, MonitorAssumption DEF DeviceID
  <2>3. QED
    BY <1>3, <2>2
<1>4. QED
  BY <1>1, <1>2, <1>3, ParsedSample

LEMMA StoredHolding ==
  ASSUME TypeOK, NEW c \in Collectors, Store(c), NEW d \in Disks
  PROVE  /\ \A b \in Holding(d)' : b \in Holding(d) \ {c} /\ pending'[b] = pending[b]
         /\ \A i \in DOMAIN log'[d] :
              \/ i \in DOMAIN log[d] /\ log'[d][i] = log[d][i]
              \/ c \in Holding(d) /\ i = Len(log[d]) + 1 /\ log'[d][i] = pending[c][2]
<1>1. ASSUME NEW b \in Holding(d)' PROVE b \in Holding(d) \ {c} /\ pending'[b] = pending[b]
  <2>1. b \in Collectors /\ pending'[b] # <<>> /\ pending'[b][1] = d
    BY DEF Holding
  <2>2. b # c /\ pending'[b] = pending[b]
    BY <2>1, StoredSamples
  <2>3. QED
    BY <2>1, <2>2 DEF Holding
<1>2. d \in IDs
  BY DEF IDs
<1>3. QED
  BY <1>1, <1>2, StoredSamples DEF Holding

LEMMA OriginStep == TypeOK /\ OriginInv /\ [Next]_vars => OriginInv'
<1> SUFFICES ASSUME TypeOK, OriginInv, [Next]_vars, NEW d \in Disks
             PROVE  /\ \A c \in Holding(d)' : ShownAt(pending'[c][2], wear'[d])
                    /\ \A i \in DOMAIN log'[d] : ShownAt(log'[d][i], wear'[d])
  BY DEF OriginInv
<1>0. /\ \A c \in Holding(d) : ShownAt(pending[c][2], wear[d])
      /\ \A i \in DOMAIN log[d] : ShownAt(log[d][i], wear[d])
  BY DEF OriginInv
<1>1. ASSUME NEW e \in Disks, Degrade(e)
      PROVE  /\ \A c \in Holding(d)' : ShownAt(pending'[c][2], wear'[d])
             /\ \A i \in DOMAIN log'[d] : ShownAt(log'[d][i], wear'[d])
  <2>1. wear[d] \in Nat /\ wear'[d] \in Nat /\ wear[d] <= wear'[d]
    BY <1>1, MonitorAssumption DEF Degrade, TypeOK
  <2>2. ASSUME NEW s, ShownAt(s, wear[d]) PROVE ShownAt(s, wear'[d])
    BY <2>1, <2>2 DEF ShownAt
  <2>3. Holding(d)' = Holding(d) /\ pending' = pending /\ log' = log
    BY <1>1 DEF Degrade, Holding
  <2>4. QED
    BY <1>0, <2>2, <2>3
<1>2. ASSUME NEW c \in Collectors, NEW e \in Disks, ParseSMART(c, e)
      PROVE  /\ \A b \in Holding(d)' : ShownAt(pending'[b][2], wear'[d])
             /\ \A i \in DOMAIN log'[d] : ShownAt(log'[d][i], wear'[d])
  <2>1. wear[d] \in 0..wear[d]
    BY MonitorAssumption DEF TypeOK
  <2>2. \A dump \in Dumps[wear[d]] : ShownAt(Sample(c, dump), wear[d])
    BY <2>1 DEF ShownAt, Sample
  <2>3. wear' = wear /\ log' = log
    BY <1>2, ParsedSample
  <2>4. ASSUME NEW b \in Holding(d)' PROVE ShownAt(pending'[b][2], wear[d])
    BY <1>0, <1>2, <2>2, ParsedHolding
  <2>5. QED
    BY <1>0, <2>3, <2>4
<1>3. ASSUME NEW c \in Collectors, Store(c)
      PROVE  /\ \A b \in Holding(d)' : ShownAt(pending'[b][2], wear'[d])
             /\ \A i \in DOMAIN log'[d] : ShownAt(log'[d][i], wear'[d])
  <2>1. wear' = wear
    BY <1>3, StoredSamples
  <2>2. QED
    BY <1>0, <1>3, <2>1, StoredHolding
<1>4. ASSUME NEW c \in Collectors, StoreFails(c)
      PROVE  /\ UNCHANGED <<wear, log>>
             /\ \A b \in Holding(d)' : b \in Holding(d) /\ pending'[b] = pending[b]
  BY <1>4 DEF StoreFails, TypeOK, Holding
<1>5. ASSUME Tick \/ UNCHANGED vars PROVE UNCHANGED <<wear, log, pending, Holding(d)>>
  BY <1>5 DEF Tick, Holding
<1>6. QED
  BY <1>0, <1>1, <1>2, <1>3, <1>4, <1>5 DEF Next

(* A collector's new sample shows no less than any of its disk before.      *)
LEMMA SampleShowsGrowth ==
  ASSUME TypeOK, NEW d \in Disks, NEW c, NEW dump \in Dumps[wear[d]], NEW s, ShownAt(s, wear[d])
  PROVE  NoMore(s, Sample(c, dump))
<1> SUFFICES ASSUME s.whole, Whole(dump)
             PROVE  s.sectors <= Raw(dump, "sectors") /\ s.rate <= Raw(dump, "rate")
  BY DEF NoMore, Sample
<1>1. PICK v \in 0..wear[d] : \E old \in Dumps[v] :
        Whole(old) /\ s.sectors = Raw(old, "sectors") /\ s.rate = Raw(old, "rate")
  BY DEF ShownAt
<1>2. PICK old \in Dumps[v] :
        Whole(old) /\ s.sectors = Raw(old, "sectors") /\ s.rate = Raw(old, "rate")
  BY <1>1
<1>3. v \in 0..MaxWear /\ wear[d] \in 0..MaxWear /\ v <= wear[d]
  BY MonitorAssumption DEF TypeOK
<1>4. QED
  BY <1>2, <1>3, WearAssumption

LEMMA GrowthStep == TypeOK /\ WearInv /\ [Next]_vars => GrowthInv'
<1> DEFINE Stored(d) ==
             \A i, j \in DOMAIN log[d] :
               /\ Older(log[d][i], log[d][j])
               /\ i < j /\ log[d][i].by = log[d][j].by => NoMore(log[d][i], log[d][j])
           Waiting(d) ==
             \A c \in Holding(d), i \in DOMAIN log[d] :
               /\ InOrder(log[d][i], pending[c][2]) => NoMore(log[d][i], pending[c][2])
               /\ Older(pending[c][2], log[d][i])
           Together(d) == \A b, c \in Holding(d) : Older(pending[b][2], pending[c][2])
<1> SUFFICES ASSUME TypeOK, WearInv, [Next]_vars, NEW d \in Disks
             PROVE  (Stored(d) /\ Waiting(d) /\ Together(d))'
  BY DEF GrowthInv
<1>0. Stored(d) /\ Waiting(d) /\ Together(d)
  BY DEF WearInv, GrowthInv
<1>s. /\ \A i \in DOMAIN log[d] :
           /\ i \in Nat /\ log[d][i].ts \in Nat /\ log[d][i].ts <= now
           /\ ShownAt(log[d][i], wear[d])
      /\ \A b \in Holding(d) :
           /\ pending[b][2].ts \in Nat /\ pending[b][2].ts <= now /\ pending[b][2].by = b
           /\ ShownAt(pending[b][2], wear[d])
      /\ now \in Nat
  BY StampsAreNumbers DEF WearInv, OrderInv, CollectorOrder, PendingInv, OriginInv, Holding, IDs
<1>1. ASSUME NEW c \in Collectors, NEW e \in Disks, ParseSMART(c, e)
      PROVE  (Stored(d) /\ Waiting(d) /\ Together(d))'
  <2>1. log' = log
    BY <1>1, ParsedSample
  <2>2. ASSUME NEW b \in Holding(d)', pending'[b] # pending[b] \/ b \notin Holding(d)
        PROVE  /\ b = c
               /\ pending'[b][2].ts = now
               /\ \A s : ShownAt(s, wear[d]) => NoMore(s, pending'[b][2])
    <3>1. b = c
      BY <1>1, <2>2, ParsedHolding
    <3>2. PICK dump \in Dumps[wear[d]] : pending'[b][2] = Sample(c, dump)
      BY <1>1, <2>2, ParsedHolding
    <3>3. QED
      BY <3>1, <3>2, SampleShowsGrowth DEF Sample
  <2>3. ASSUME NEW b \in Holding(d)', NEW i \in DOMAIN log[d]
        PROVE  /\ InOrder(log[d][i], pending'[b][2]) => NoMore(log[d][i], pending'[b][2])
               /\ Older(pending'[b][2], log[d][i])
    <3>1. CASE pending'[b] = pending[b] /\ b \in Holding(d)
      BY <1>0, <3>1
    <3>2. CASE pending'[b] # pending[b] \/ b \notin Holding(d)
      BY <1>s, <2>2, <3>2 DEF Older
    <3>3. QED
      BY <3>1, <3>2
  <2>4. ASSUME NEW a \in Holding(d)', NEW b \in Holding(d)'
        PROVE  Older(pending'[a][2], pending'[b][2])
    <3>1. CASE pending'[a] = pending[a] /\ a \in Holding(d)
      <4>1. CASE pending'[b] = pending[b] /\ b \in Holding(d)
        BY <1>0, <3>1, <4>1
      <4>2. CASE pending'[b] # pending[b] \/ b \notin Holding(d)
        BY <1>s, <2>2, <3>1, <4>2 DEF Older
      <4>3. QED
        BY <4>1, <4>2
    <3>2. CASE pending'[a] # pending[a] \/ a \notin Holding(d)
      <4>1. pending'[a][2].ts = now
        BY <2>2, <3>2
      <4>2. pending'[b][2].ts <= now /\ pending'[b][2].ts \in Nat
        BY <1>s, <2>2
      <4>3. QED
        BY <1>s, <4>1, <4>2 DEF Older
    <3>3. QED
      BY <3>1, <3>2
  <2>5. QED
    BY <1>0, <2>1, <2>3, <2>4
<1>2. ASSUME NEW c \in Collectors, Store(c)
      PROVE  (Stored(d) /\ Waiting(d) /\ Together(d))'
  <2> DEFINE s == pending[c][2]
  <2>1. \A b \in Holding(d)' : b \in Holding(d) /\ b # c /\ pending'[b] = pending[b]
    BY <1>2, StoredHolding
  <2>2. ASSUME NEW i \in DOMAIN log'[d]
        PROVE  \/ i \in DOMAIN log[d] /\ i <= Len(log[d]) /\ log'[d][i] = log[d][i]
               \/ c \in Holding(d) /\ i = Len(log[d]) + 1 /\ log'[d][i] = s
    <3>1. DOMAIN log[d] = 1..Len(log[d]) /\ Len(log[d]) \in Nat
      BY DEF TypeOK, IDs
    <3>2. QED
      BY <1>2, <3>1, StoredHolding
  <2>3. Len(log[d]) \in Nat
    BY DEF TypeOK, IDs
  <2>4. c \in Holding(d) => s.ts \in Nat /\ s.by = c
    BY <1>s
  <2> HIDE DEF s
  <2>5. ASSUME NEW i \in DOMAIN log'[d], NEW j \in DOMAIN log'[d]
        PROVE  /\ Older(log'[d][i], log'[d][j])
               /\ i < j /\ log'[d][i].by = log'[d][j].by => NoMore(log'[d][i], log'[d][j])
    <3>1. CASE i \in DOMAIN log[d] /\ log'[d][i] = log[d][i]
      <4>1. CASE j \in DOMAIN log[d] /\ log'[d][j] = log[d][j]
        BY <1>0, <3>1, <4>1
      <4>2. CASE c \in Holding(d) /\ log'[d][j] = s
        BY <1>0, <3>1, <4>2 DEF InOrder, Older, s
      <4>3. QED
        BY <2>2, <4>1, <4>2
    <3>2. CASE c \in Holding(d) /\ i = Len(log[d]) + 1 /\ log'[d][i] = s
      <4>1. CASE j \in DOMAIN log[d] /\ j <= Len(log[d]) /\ log'[d][j] = log[d][j]
        <5>1. ~(i < j)
          BY <1>s, <2>3, <3>2, <4>1
        <5>2. QED
          BY <1>0, <3>2, <4>1, <5>1 DEF s
      <4>2. CASE j = Len(log[d]) + 1 /\ log'[d][j] = s
        BY <2>3, <2>4, <3>2, <4>2 DEF Older
      <4>3. QED
        BY <2>2, <4>1, <4>2
    <3>3. QED
      BY <2>2, <3>1, <3>2
  <2>6. ASSUME NEW b \in Holding(d)', NEW i \in DOMAIN log'[d]
        PROVE  /\ InOrder(log'[d][i], pending'[b][2]) => NoMore(log'[d][i], pending'[b][2])
               /\ Older(pending'[b][2], log'[d][i])
    <3>1. CASE i \in DOMAIN log[d] /\ log'[d][i] = log[d][i]
      BY <1>0, <2>1, <3>1
    <3>2. CASE c \in Holding(d) /\ log'[d][i] = s
      <4>1. b \in Holding(d) /\ pending'[b] = pending[b] /\ pending[b][2].by # s.by
        BY <1>s, <2>1, <2>4, <3>2
      <4>2. QED
        BY <1>0, <3>2, <4>1 DEF InOrder, Older, s
    <3>3. QED
      BY <2>2, <3>1, <3>2
  <2>7. ASSUME NEW a \in Holding(d)', NEW b \in Holding(d)'
        PROVE  Older(pending'[a][2], pending'[b][2])
    BY <1>0, <2>1
  <2>8. QED
    BY <2>5, <2>6, <2>7
<1>3. ASSUME NEW c \in Collectors, StoreFails(c)
      PROVE  /\ log' = log
             /\ \A b \in Holding(d)' : b \in Holding(d) /\ pending'[b] = pending[b]
  BY <1>3 DEF StoreFails, TypeOK, Holding
<1>4. ASSUME Tick \/ UNCHANGED vars \/ \E e \in Disks : Degrade(e)
      PROVE  UNCHANGED <<log, pending>> /\ Holding(d)' = Holding(d)
  BY <1>4 DEF Tick, Degrade, Holding
<1>5. ASSUME log' = log, \A b \in Holding(d)' : b \in Holding(d) /\ pending'[b] = pending[b]
      PROVE  (Stored(d) /\ Waiting(d) /\ Together(d))'
  BY <1>0, <1>5
<1>6. QED
  BY <1>1, <1>2, <1>3, <1>4, <1>5 DEF Next

LEMMA WearIsLasting == Spec => []WearInv
<1>1. Init => OriginInv /\ GrowthInv
  <2>1. Init => \A d \in Disks : Holding(d) = {} /\ DOMAIN log[d] = {}
    BY DEF Init, Holding, IDs
  <2>2. QED
    BY <2>1 DEF OriginInv, GrowthInv
<1>2. TypeOK /\ OrderInv /\ OriginInv /\ GrowthInv /\ [Next]_vars => OriginInv' /\ GrowthInv'
  BY OriginStep, GrowthStep DEF WearInv
<1>3. Spec => [](OriginInv /\ GrowthInv)
  BY <1>1, <1>2, TypeCorrect, OrderIsLasting, PTL DEF Spec
<1>4. QED
  BY <1>3, OrderIsLasting, PTL DEF WearInv

(* What the history is worth to an analysis: of two positions, the later    *)
(* in the file and in order, the second shows no less wear.                 *)
LEMMA InOrderShowsGrowth ==
  ASSUME TypeOK, WearInv, NEW d \in Disks, NEW i \in DOMAIN log[d], NEW j \in DOMAIN log[d],
         i < j, InOrder(log[d][i], log[d][j])
  PROVE  NoMore(log[d][i], log[d][j])
BY DEF WearInv, GrowthInv, InOrder, Older

(* Of a disk that only wears, analyzeErrorTrend never reports that errors   *)
(* decrease from a whole sample to a whole one that is not late.            *)
THEOREM WearIsNeverADecrease == Spec => []WearNeverDecreases
<1>1. TypeOK /\ WearInv => WearNeverDecreases
  <2> SUFFICES ASSUME TypeOK, WearInv, NEW d \in Disks, NEW w \in Windows,
                      NEW V, V = SMARTValues(Query(d, w)), V # {},
                      Oldest(d, V).whole, Latest(d, V).whole,
                      InOrder(Oldest(d, V), Latest(d, V))
               PROVE  analyzeErrorTrend(d, Query(d, w)) # "decreasing"
    BY DEF WearNeverDecreases, MonitorPerformance, GetHistoricalData
  <2>1. V \in SUBSET DOMAIN log[d] /\ d \in IDs
    BY DEF SMARTValues, Query, IDs
  <2>2. /\ Max(V) \in V /\ Min(V) \in V /\ Min(V) <= Max(V)
        /\ Latest(d, V) = log[d][Max(V)] /\ Oldest(d, V) = log[d][Min(V)]
        /\ Oldest(d, V) \in SampleType /\ Latest(d, V) \in SampleType
    BY <2>1, EndsOfMetrics
  <2>3. Min(V) = Max(V) \/ Min(V) < Max(V)
    BY <2>1, <2>2, StampsAreNumbers
  <2>4. Oldest(d, V) = Latest(d, V) \/ NoMore(Oldest(d, V), Latest(d, V))
    BY <2>1, <2>2, <2>3, InOrderShowsGrowth
  <2>5. /\ Oldest(d, V).rate \in Nat /\ Latest(d, V).rate \in Nat
        /\ Oldest(d, V).rate <= Latest(d, V).rate
    BY <2>2, <2>4 DEF NoMore, SampleType
  <2>6. ~(2 * Latest(d, V).rate < Oldest(d, V).rate)
    BY <2>5
  <2>7. QED
    BY <2>6 DEF analyzeErrorTrend
<1>2. QED
  BY <1>1, WearIsLasting, TypeCorrect, PTL

(* With a storage that gives back the values it was given, an alarming      *)
(* whole sample in the window is not forgotten by predictFailure, which     *)
(* looks only at the latest, if that is whole and not late.                 *)
THEOREM AlarmStaysInMemory == Spec => []PredictsFailureInMemory
<1>1. TypeOK /\ WearInv => PredictsFailureInMemory
  <2> SUFFICES ASSUME TypeOK, WearInv, kind = "memory",
                      NEW d \in Disks, NEW w \in Windows,
                      NEW Q, Q = Query(d, w), Cardinality(Q) >= 3, Latest(d, Q).whole,
                      NEW i \in Q, log[d][i].whole, Alarming(log[d][i]),
                      InOrder(log[d][i], Latest(d, Q))
               PROVE  predictFailure(d, Q)
    BY DEF PredictsFailureInMemory, PredictsFailure, MonitorPerformance
  <2>1. Q \in SUBSET DOMAIN log[d] /\ Q # {} /\ d \in IDs
    BY QueriedPositions DEF IDs
  <2>2. /\ Max(Q) \in Q /\ i <= Max(Q)
        /\ Latest(d, Q) = log[d][Max(Q)] /\ Latest(d, Q) \in SampleType
    BY <2>1, EndsOfMetrics
  <2>3. i = Max(Q) \/ i < Max(Q)
    BY <2>1, <2>2, StampsAreNumbers
  <2>4. i = Max(Q) \/ NoMore(log[d][i], Latest(d, Q))
    BY <2>1, <2>2, <2>3, InOrderShowsGrowth
  <2>5. log[d][i] \in SampleType
    BY <2>1 DEF TypeOK
  <2>6. Alarming(Latest(d, Q))
    BY <2>2, <2>4, <2>5 DEF NoMore, Alarming, SampleType
  <2>7. QED
    BY <2>1, <2>6 DEF predictFailure, SMARTValues
<1>2. QED
  BY <1>1, WearIsLasting, TypeCorrect, PTL
-----------------------------------------------------------------------------
(* A disk does not recover.                                                *)
FailedStaysFailed ==
  \A d \in Disks : \A i, j \in DOMAIN log[d] :
    /\ i < j /\ InOrder(log[d][i], log[d][j])
    /\ log[d][i].whole /\ log[d][j].whole
    /\ log[d][i].status = "Failed"
    => log[d][j].status = "Failed"

(* Of a disk that a whole sample found Failed, every whole sample stored    *)
(* afterwards says so again (assessOverallHealth), unless it is a late one  *)
(* of another collector.                                                    *)
THEOREM NoFalseRecovery == Spec => []FailedStaysFailed
<1>1. Init => AssessedInv
  BY DEF Init, AssessedInv
<1>2. TypeOK /\ AssessedInv /\ WearInv => FailedStaysFailed
  <2> SUFFICES ASSUME TypeOK, AssessedInv, WearInv, NEW d \in Disks,
                      NEW i \in DOMAIN log[d], NEW j \in DOMAIN log[d], i < j,
                      InOrder(log[d][i], log[d][j]),
                      log[d][i].whole, log[d][j].whole, log[d][i].status = "Failed"
               PROVE  log[d][j].status = "Failed"
    BY DEF FailedStaysFailed
  <2>1. log[d][i] \in SampleType /\ log[d][j] \in SampleType
    BY DEF TypeOK, IDs
  <2>2. Coherent(log[d][i]) /\ Coherent(log[d][j])
    BY DEF AssessedInv, IDs
  <2>3. NoMore(log[d][i], log[d][j])
    BY InOrderShowsGrowth
  <2>4. QED
    BY <2>1, <2>2, <2>3 DEF Coherent, NoMore, SampleType
<1>3. QED
  BY <1>1, <1>2, AssessedStep, WearIsLasting, TypeCorrect, PTL DEF Spec
=============================================================================

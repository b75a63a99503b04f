---------------------------- MODULE SmartMonitor ----------------------------
(***************************************************************************)
(* SMARTMonitor of pkg/disk/smart.go: collector goroutines parse SMART     *)
(* dumps and append the result to the history of their disk, from which    *)
(* MonitorPerformance derives an error trend and a failure prediction.     *)
(* ParseSMART takes the time stamp before it parses and stores afterwards, *)
(* so the history is in the order of the Stores and not of the stamps.     *)
(* The storage is the atomic log of MetricLog, with the metrics' values.   *)
(* Rates are raw counters: ReadErrorRate is the raw value over 1000000.    *)
(***************************************************************************)
EXTENDS Naturals, Sequences, FiniteSetsExt, Functions

CONSTANTS
  Disks,       \* device IDs
  Collectors,  \* goroutines that call ParseSMART
  Collects,    \* pairs <<c, d>>: collector c parses dumps of disk d
  MaxWear,     \* bound: the last level of wear of a disk
  Dumps,       \* Dumps[w]: the texts smartctl may print at wear level w
  Storages,    \* kinds of storage.Storage: "file" is FileStorage, "memory"
               \* one that hands back the values it was given
  Windows,     \* windows asked for
  MaxClock,    \* bound: last tick of the wall clock
  MaxLog       \* bound: samples stored; a Store beyond it fails

Attrs == {"sectors", "rate", "temp", "hours"}

(* A line of a dump: "Device:", another one that is not used, or one about  *)
(* an attribute.  parseAttributeLine accepts a good line; it rejects a      *)
(* garbled one, whose numbers do not parse; of a short one, with less than  *)
(* six fields, it returns a zero attribute, and a nil error because         *)
(* errors.New(msg, nil) is Wrap(nil, msg), which is nil.                    *)
Line == [attr : Attrs \cup {"device", "other"}, form : {"good", "garbled", "short"},
         raw : Nat, failing : BOOLEAN]

(* The DeviceID of a dump without a "Device:" line.                         *)
NoDevice == ""

(* The keys of the storage.                                                 *)
IDs == Disks \cup {NoDevice}

ASSUME MonitorAssumption ==
  /\ NoDevice \notin Disks
  /\ Collects \subseteq Collectors \X Disks
  /\ Storages \subseteq {"file", "memory"}
  /\ Windows \subseteq Nat
  /\ {MaxWear, MaxClock, MaxLog} \subseteq Nat
  /\ Dumps \in [0..MaxWear -> SUBSET Seq(Line)]

VARIABLES
  now,      \* the wall clock
  kind,     \* the kind of storage the monitor was built with
  wear,     \* wear[d]: the wear of disk d, which only grows
  pending,  \* pending[c]: the parsed samples c has not yet passed to Store
  log       \* log[d]: the samples stored under the ID d, in the order of the Stores

vars == <<now, kind, wear, pending, log>>

-----------------------------------------------------------------------------
(* Parsing a dump.                                                         *)

(* The last accepted line of an attribute decides its value.                *)
Accepted(dump, a) ==
  {i \in DOMAIN dump : dump[i].attr = a /\ dump[i].form # "garbled"}

(* Mutant of LastAccepted: the first accepted line decides.                         *)
FirstAccepted(dump, a) ==
  dump[CHOOSE i \in Accepted(dump, a) : \A j \in Accepted(dump, a) : i <= j]

LastAccepted(dump, a) ==
  dump[CHOOSE i \in Accepted(dump, a) : \A j \in Accepted(dump, a) : j <= i]

Raw(dump, a) ==
  IF Accepted(dump, a) = {} \/ LastAccepted(dump, a).form = "short" THEN 0
  ELSE LastAccepted(dump, a).raw

AnyFailing(dump) ==
  \E a \in Attrs :
    /\ Accepted(dump, a) # {}
    /\ LastAccepted(dump, a).form = "good"
    /\ LastAccepted(dump, a).failing

(* No line of the dump was rejected or cut short.                           *)
Whole(dump) ==
  /\ \A i \in DOMAIN dump : dump[i].form = "good"
  /\ \A a \in Attrs : \E i \in DOMAIN dump : dump[i].attr = a

(* SMART's counters of reallocated sectors and of read errors only grow: a   *)
(* whole dump of a disk that is worn more shows no less of either.          *)
ASSUME WearAssumption ==
  \A v, w \in 0..MaxWear : v <= w =>
    \A old \in Dumps[v], new \in Dumps[w] : Whole(old) /\ Whole(new) =>
      \A a \in {"sectors", "rate"} : Raw(old, a) <= Raw(new, a)

(* Mutant of assessOverallHealth: no warning for reallocated sectors.       *)
assessWithoutWarning(sectors, rate, temp, failing) ==
  IF sectors > 100 \/ rate > 100000 THEN "Failed"
  ELSE IF temp > 65 \/ failing \/ rate > 10000 THEN "SubHealthy"
  ELSE "Healthy"

assessOverallHealth(sectors, rate, temp, failing) ==
  IF sectors > 100 \/ rate > 100000 THEN "Failed"
  ELSE IF temp > 65 \/ failing \/ sectors > 10 \/ rate > 10000 THEN "SubHealthy"
  ELSE "Healthy"

(* Mutant of DeviceID: the name keeps the space after the colon.            *)
DeviceIDUntrimmed(d, dump) ==
  IF \E i \in DOMAIN dump : dump[i].attr = "device" THEN <<" ", d>> ELSE NoDevice

(* The ID that the sample of a dump of disk d is stored under.              *)
DeviceID(d, dump) ==
  IF \E i \in DOMAIN dump : dump[i].attr = "device" THEN d ELSE NoDevice

(* What collector c makes of a dump.  "by" and "whole" are for properties.  *)
Sample(c, dump) ==
  [ts      |-> now,
   sectors |-> Raw(dump, "sectors"),
   rate    |-> Raw(dump, "rate"),
   status  |-> assessOverallHealth(Raw(dump, "sectors"), Raw(dump, "rate"),
                                   Raw(dump, "temp"), AnyFailing(dump)),
   by      |-> c,
   whole   |-> Whole(dump)]

-----------------------------------------------------------------------------
Init ==
  /\ now = 0
  /\ kind \in Storages
  /\ wear = [d \in Disks |-> 0]
  /\ pending = [c \in Collectors |-> <<>>]
  /\ log = [d \in IDs |-> <<>>]

Tick ==
  /\ now < MaxClock
  /\ now' = now + 1
  /\ UNCHANGED <<kind, wear, pending, log>>

Degrade(d) ==
  /\ wear[d] < MaxWear
  /\ wear' = [wear EXCEPT ![d] = @ + 1]
  /\ UNCHANGED <<now, kind, pending, log>>

(* The dump is printed, stamped and parsed; the sample waits for Store.  An *)
(* empty text is answered by (nil, nil), and nothing is stored.             *)
ParseSMART(c, d) ==
  /\ <<c, d>> \in Collects
  /\ pending[c] = <<>>
  /\ \E dump \in Dumps[wear[d]] :
       \/ dump = <<>> /\ UNCHANGED pending
       \/ /\ dump # <<>>
          /\ pending' = [pending EXCEPT ![c] = <<DeviceID(d, dump), Sample(c, dump)>>]
  /\ UNCHANGED <<now, kind, wear, log>>

(* Bound.                                                                  *)
Room == FoldFunction(+, 0, [d \in IDs |-> Len(log[d])]) < MaxLog

(* Mutant of Store: newest first.                                           *)
StoreFirst(c) ==
  /\ pending[c] # <<>>
  /\ Room
  /\ log' = [log EXCEPT ![pending[c][1]] = <<pending[c][2]>> \o @]
  /\ pending' = [pending EXCEPT ![c] = <<>>]
  /\ UNCHANGED <<now, kind, wear>>

Store(c) ==
  /\ pending[c] # <<>>
  /\ Room
  /\ log' = [log EXCEPT ![pending[c][1]] = Append(@, pending[c][2])]
  /\ pending' = [pending EXCEPT ![c] = <<>>]
  /\ UNCHANGED <<now, kind, wear>>

(* Store returns an error: a warning is logged, ParseSMART still succeeds.  *)
StoreFails(c) ==
  /\ pending[c] # <<>>
  /\ pending' = [pending EXCEPT ![c] = <<>>]
  /\ UNCHANGED <<now, kind, wear, log>>

Next ==
  \/ Tick
  \/ \E d \in Disks : Degrade(d)
  \/ \E c \in Collectors :
       \/ \E d \in Disks : ParseSMART(c, d)
       \/ Store(c)
       \/ StoreFails(c)

Spec == Init /\ [][Next]_vars

-----------------------------------------------------------------------------
(* The analyses read the history of a disk and change nothing.  The metrics *)
(* a Query answers are positions in the history, in its order.              *)

Query(d, window) == {i \in DOMAIN log[d] : log[d][i].ts + window > now}

Oldest(d, metrics) == log[d][Min(metrics)]
Latest(d, metrics) == log[d][Max(metrics)]

(* The assertion that a Value is a *SMARTData holds if it was kept as is.  A *)
(* value that has been through JSON is a map[string]interface{} instead.    *)
SMARTValues(metrics) == IF kind = "memory" THEN metrics ELSE {}

GetHistoricalData(d, window) == SMARTValues(Query(d, window))

(* Mutant of analyzeErrorTrend: the ends of the history swapped.            *)
analyzeSwapped(d, metrics) ==
  LET v     == SMARTValues(metrics)
      first == Latest(d, v).rate
      last  == Oldest(d, v).rate
  IN  IF Cardinality(v) < 2 THEN "stable"
      ELSE IF 2 * last > 3 * first THEN "increasing"
      ELSE IF 2 * last < first THEN "decreasing"
      ELSE "stable"

analyzeErrorTrend(d, metrics) ==
  LET v     == SMARTValues(metrics)
      first == Oldest(d, v).rate
      last  == Latest(d, v).rate
  IN  IF Cardinality(v) < 2 THEN "stable"
      ELSE IF 2 * last > 3 * first THEN "increasing"
      ELSE IF 2 * last < first THEN "decreasing"
      ELSE "stable"

Alarming(sample) == sample.sectors > 50 \/ sample.rate > 50000

(* Mutant of predictFailure: the oldest sample decides.                     *)
predictFromOldest(d, metrics) ==
  /\ Cardinality(metrics) >= 3
  /\ SMARTValues(metrics) # {}
  /\ Alarming(Oldest(d, metrics))

predictFailure(d, metrics) ==
  /\ Cardinality(metrics) >= 3
  /\ SMARTValues(metrics) # {}
  /\ Alarming(Latest(d, metrics))

(* With two metrics or more LatencyTrend is never assigned.                 *)
MonitorPerformance(d, window) ==
  LET metrics == Query(d, window)
  IN  [latency   |-> IF Cardinality(metrics) < 2 THEN "stable" ELSE "",
       errors    |-> analyzeErrorTrend(d, metrics),
       predicted |-> predictFailure(d, metrics)]

-----------------------------------------------------------------------------
(* Properties.                                                             *)

(* Type correctness.                                                       *)
SampleType ==
  [ts : Nat, sectors : Nat, rate : Nat, by : Collectors, whole : BOOLEAN,
   status : {"Healthy", "SubHealthy", "Failed"}]

TypeOK ==
  /\ now \in Nat
  /\ kind \in Storages
  /\ wear \in [Disks -> 0..MaxWear]
  /\ pending \in [Collectors -> {<<>>} \cup (IDs \X SampleType)]
  /\ log \in [IDs -> Seq(SampleType)]

(* Stores may be out of the order of the stamps, but not by much: of the    *)
(* samples of one collector that follow some sample in a history, at most   *)
(* the first is older than it, namely if it was parsed before, and then of  *)
(* another collector.  Whatever collectors and disks share a history, each  *)
(* collector's own samples are in order, and none is from the future.       *)
CollectorOrder ==
  \A d \in IDs : \A i, j, k \in DOMAIN log[d] :
    /\ log[d][i].ts <= now
    /\ i <= j /\ j < k /\ log[d][j].by = log[d][k].by => log[d][i].ts <= log[d][k].ts

(* The two sets of thresholds agree: a failure is never predicted for a     *)
(* disk whose latest stored sample was assessed healthy, and always for one *)
(* whose latest sample is Failed, if the storage gives back what it was     *)
(* given and has three samples in the window.                               *)
PredictionAgreesWithHealth ==
  \A d \in IDs, w \in Windows :
    LET metrics == Query(d, w)
        latest  == Latest(d, metrics)
    IN  Cardinality(metrics) >= 3 =>
          /\ MonitorPerformance(d, w).predicted => latest.status # "Healthy"
          /\ kind = "memory" /\ latest.status = "Failed"
               => MonitorPerformance(d, w).predicted

(* Of two samples of a history, s before t, t is not a late one: it has a    *)
(* later stamp or is of the same collector.                                 *)
InOrder(s, t) == s.ts < t.ts \/ s.by = t.by

(* A disk only wears: whichever collectors it has, and whatever lines are   *)
(* damaged in other dumps, its error rate is never reported as decreasing   *)
(* if the two samples compared are of whole dumps and the latest is not a   *)
(* late one.                                                                *)
WearNeverDecreases ==
  \A d \in Disks, w \in Windows :
    LET v == GetHistoricalData(d, w)
    IN  v # {} =>
          (/\ Oldest(d, v).whole /\ Latest(d, v).whole
           /\ InOrder(Oldest(d, v), Latest(d, v))
           => MonitorPerformance(d, w).errors # "decreasing")

(* "Predict failure if reallocated sectors > 50 or read error rate > 0.05%" *)
(* (smart.go:340): once a whole sample in the window shows such a disk, the *)
(* prediction stays up, whichever collector stores next, as long as the     *)
(* latest sample is whole and not a late one.                               *)
PredictsFailure ==
  \A d \in Disks, w \in Windows :
    LET metrics == Query(d, w)
        latest  == Latest(d, metrics)
    IN  /\ Cardinality(metrics) >= 3
        /\ latest.whole
        /\ \E i \in metrics :
             /\ log[d][i].whole /\ Alarming(log[d][i])
             /\ InOrder(log[d][i], latest)
        => MonitorPerformance(d, w).predicted

(* The same of a storage that hands back the values it was given.           *)
PredictsFailureInMemory == kind = "memory" => PredictsFailure
=============================================================================

---------------------------- MODULE MCHealthReadings ----------------------------
(* HealthReadings for TLC with values on both sides of every threshold: the    *)
(* indicators lie around the objectives of a critical disk.                    *)
EXTENDS HealthReadings

RAIDReadingsDef == [queue : {9, 10}, latency : {20, 21}, retries : {100, 101}]
DiskReadingsDef == [variance : {5, 6}, sectors : {100, 101}]
NetReadingsDef  == [loss : {1, 2}, latency : {20, 21, 49, 50, 100, 101}]
SLIReadingsDef  ==
  [latency : {30, 31}, throughput : {99, 100}, loss : {5, 6},
   availability : {9494, 9495, 9994, 9995}]
SLOsDef == {configs[<<"Disk", "critical">>], GetSLOConfig("Disk", "critical")}
==============================================================================

---------------------------- MODULE MCRemediation ----------------------------
(* A small instance of Remediation for TLC: one reading for each verdict.   *)
EXTENDS Remediation, TLC

ReadingsDef ==
  {[queue |-> 1, latency |-> 1, retries |-> 0],
   [queue |-> 10, latency |-> 1, retries |-> 0],
   [queue |-> 1, latency |-> 1, retries |-> 101]}

Symmetric == Permutations(Callers) \cup Permutations(Controllers)
==============================================================================

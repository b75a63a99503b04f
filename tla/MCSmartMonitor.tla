--------------------------- MODULE MCSmartMonitor ---------------------------
(* A small instance of SmartMonitor for TLC: disk d1 has two collectors,    *)
(* disk d2 one of them.                                                     *)
EXTENDS SmartMonitor

CONSTANTS c1, c2, d1, d2

Assigned == {<<c1, d1>>, <<c2, d1>>, <<c1, d2>>}

Ln(a, form, raw) == [attr |-> a, form |-> form, raw |-> raw, failing |-> FALSE]

(* A healthy disk, a worn one just above two of the thresholds, a failed    *)
(* one: a whole dump of each, damaged dumps of the worn disk, one of the    *)
(* failed disk that does not name it, and one that is empty.                *)
Named(dump) == <<Ln("device", "good", 0)>> \o dump

Printed(sectors, rate, form) ==
  <<Ln("sectors", "good", sectors), Ln("temp", "good", 40),
    Ln("hours", "good", 1), Ln("rate", form, rate)>>

DumpsAt ==
  [w \in 0..2 |->
     CASE w = 0 -> {Named(Printed(0, 0, "good")), <<>>}
       [] w = 1 -> {Named(Printed(51, 10000, "good")), Named(Printed(11, 10000, "short"))}
       [] w = 2 -> {Named(Printed(101, 60000, "good")), Named(Printed(101, 60000, "garbled")),
                    Printed(101, 60000, "good")}]
=============================================================================

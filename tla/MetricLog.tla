------------------------------ MODULE MetricLog ------------------------------
(***************************************************************************)
(* What internal/infra/storage promises its callers, one level above the   *)
(* files: for every device an append-only log of metrics, on which Store   *)
(* and Query take effect atomically at some moment between the call and    *)
(* the return.                                                             *)
(*                                                                         *)
(* The promise has two limits, both of which the code really has.  A call  *)
(* may fail without effect at any time, and a failing Store, or a crash    *)
(* while a Store is pending, may ruin the log of its own device: the log   *)
(* is then "poisoned", its history is gone and no later Store or Query on  *)
(* it succeeds.  FileStorage implements this module.                       *)
(***************************************************************************)
EXTENDS Naturals, Sequences

CONSTANTS
  Procs,    \* goroutines that call the storage
  Files,    \* devices: one log for each device type and device ID
  Requests  \* the calls they make: records [op, file, arg]

VARIABLES
  now,       \* the wall clock, in ticks
  log,       \* log[f]: the time stamps of the metrics stored for f, in order
  poisoned,  \* poisoned[f]: the log of f can neither be read nor extended
  phase,     \* phase[p]: where p is between a call and its return
  req,       \* req[p]: the arguments of p's last call
  rsp        \* rsp[p]: what p's call will return, once that is fixed

mlVars == <<now, log, poisoned, phase, req, rsp>>

(* Requests are records of [op : {"store", "query"}, file : Files,          *)
(* arg : Nat].  The metric of a Store is abstracted to its time stamp, which *)
(* is its "arg"; that of a Query is the time window.                        *)

(* A Query answers the positions in the log of the metrics it returns.      *)
Pending  == [status |-> "none", data |-> {}]
Ok(d)    == [status |-> "ok", data |-> d]
Error    == [status |-> "error", data |-> {}]

(* The metrics of log s inside the window: m.Timestamp is after           *)
(* time.Now().Add(-window).                                                *)
InWindow(s, window, t) == {i \in DOMAIN s : s[i] + window > t}

MLInit ==
  /\ now = 0
  /\ log = [f \in Files |-> <<>>]
  /\ poisoned = [f \in Files |-> FALSE]
  /\ phase = [p \in Procs |-> "idle"]
  /\ req \in [Procs -> Requests]
  /\ rsp = [p \in Procs |-> Pending]

MLTick ==
  /\ now' = now + 1
  /\ UNCHANGED <<log, poisoned, phase, req, rsp>>

MLCall(p, r) ==
  /\ phase[p] = "idle"
  /\ phase' = [phase EXCEPT ![p] = "pending"]
  /\ req' = [req EXCEPT ![p] = r]
  /\ UNCHANGED <<now, log, poisoned, rsp>>

(* The call of p takes effect, or fails, and its answer is fixed.          *)
Answer(p, a) ==
  /\ phase[p] = "pending"
  /\ phase' = [phase EXCEPT ![p] = "done"]
  /\ rsp' = [rsp EXCEPT ![p] = a]
  /\ UNCHANGED <<now, req>>

MLStore(p) ==
  /\ req[p].op = "store"
  /\ ~poisoned[req[p].file]
  /\ log' = [log EXCEPT ![req[p].file] = Append(@, req[p].arg)]
  /\ Answer(p, Ok({}))
  /\ UNCHANGED poisoned

MLQuery(p) ==
  /\ req[p].op = "query"
  /\ ~poisoned[req[p].file]
  /\ Answer(p, Ok(InWindow(log[req[p].file], req[p].arg, now)))
  /\ UNCHANGED <<log, poisoned>>

MLReject(p) ==
  /\ Answer(p, Error)
  /\ UNCHANGED <<log, poisoned>>

Poison(S) ==
  /\ log' = [f \in Files |-> IF f \in S THEN <<>> ELSE log[f]]
  /\ poisoned' = [f \in Files |-> poisoned[f] \/ f \in S]

MLRuin(p) ==
  /\ req[p].op = "store"
  /\ Answer(p, Error)
  /\ Poison({req[p].file})

MLReturn(p) ==
  /\ phase[p] = "done"
  /\ phase' = [phase EXCEPT ![p] = "idle"]
  /\ rsp' = [rsp EXCEPT ![p] = Pending]
  /\ UNCHANGED <<now, log, poisoned, req>>

(* The process dies with every call it was serving; at most one of the     *)
(* pending Stores was writing, and takes its log with it.                  *)
MLCrash ==
  /\ phase' = [p \in Procs |-> "idle"]
  /\ rsp' = [p \in Procs |-> Pending]
  /\ \/ UNCHANGED <<log, poisoned>>
     \/ \E p \in Procs :
          /\ phase[p] = "pending"
          /\ req[p].op = "store"
          /\ Poison({req[p].file})
  /\ UNCHANGED <<now, req>>

MLNext ==
  \/ MLTick
  \/ MLCrash
  \/ \E p \in Procs :
       \/ \E r \in Requests : MLCall(p, r)
       \/ MLStore(p)
       \/ MLQuery(p)
       \/ MLReject(p)
       \/ MLRuin(p)
       \/ MLReturn(p)

MLSpec == MLInit /\ [][MLNext]_mlVars
=============================================================================

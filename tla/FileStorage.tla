----------------------------- MODULE FileStorage -----------------------------
(***************************************************************************)
(* FileStorage of internal/infra/storage/storage.go: goroutines of one     *)
(* process call Store and Query, which read and rewrite one JSON file per  *)
(* device under a sync.RWMutex.  os.WriteFile is two steps, as it is in    *)
(* the os package: the file is truncated when it is opened and is filled   *)
(* afterwards.  The process may crash between any two steps and restart,   *)
(* and any file operation may fail.                                        *)
(***************************************************************************)
EXTENDS Naturals, FiniteSets, Sequences, SequencesExt

CONSTANTS
  Procs,       \* goroutines that call the storage
  Nobody,      \* the value of "writer" when nobody holds or awaits the lock
  Files,       \* the paths getFilePath yields
  Dirs,        \* the per-device-type directories in those paths
  DirOf,       \* the directory of each path
  Prepared,    \* directories that exist before the program starts
  Stamps,      \* time stamps of the metrics callers store
  Windows,     \* windows callers query
  MaxClock,    \* bound: last tick of the wall clock
  MaxLen,      \* bound: metrics that Stores done and under way put into a file
  MaxMishaps   \* bound: crashes and input/output errors in a behaviour

ASSUME StorageAssumption ==
  /\ Nobody \notin Procs
  /\ DirOf \in [Files -> Dirs]
  /\ Prepared \subseteq Dirs
  /\ Stamps \subseteq Nat
  /\ Windows \subseteq Nat
  /\ {MaxClock, MaxLen, MaxMishaps} \subseteq Nat

VARIABLES
  clock,    \* the wall clock
  up,       \* the process runs and has its FileStorage
  disk,     \* disk[f]: what is at path f
  pc,       \* pc[p]: the next statement of goroutine p
  req,      \* req[p]: the arguments of p's last call
  buf,      \* buf[p]: the local variable "metrics" of p's call
  rsp,      \* rsp[p]: what p's call will return, once that is fixed
  writer,   \* s.mu: the goroutine that holds the write lock or waits for
            \*       the readers to leave
  readers,  \* s.mu: the goroutines that hold the read lock
  mishaps   \* crashes and input/output errors so far

vars == <<clock, up, disk, pc, req, buf, rsp, writer, readers, mishaps>>
lockVars == <<writer, readers>>
callVars == <<pc, req, buf, rsp>>

(* "arg" is the metric's time stamp for a Store, the window for a Query.    *)
StoreRequests == [op : {"store"}, file : Files, arg : Stamps]
QueryRequests == [op : {"query"}, file : Files, arg : Windows]
Requests      == StoreRequests \cup QueryRequests

(* The metrics a Query answers are given by their positions in the file,    *)
(* in whose order it returns them.                                          *)
Response == [status : {"none", "ok", "error"}, data : SUBSET Nat]
Pending  == [status |-> "none", data |-> {}]
Ok(d)    == [status |-> "ok", data |-> d]
Error    == [status |-> "error", data |-> {}]

(* A path holds nothing, a complete JSON array of metrics, or "torn" bytes  *)
(* that json.Unmarshal rejects: a truncated file is empty or cut short, and *)
(* no proper prefix of a JSON array is a JSON document.                     *)
FileState == [state : {"absent", "torn", "json"}, data : Seq(Nat)]
Absent  == [state |-> "absent", data |-> <<>>]
Torn    == [state |-> "torn", data |-> <<>>]
Json(s) == [state |-> "json", data |-> s]

StorePcs == {"lock", "drain", "read", "open", "write", "unlock"}
QueryPcs == {"rlock", "rwait", "scan", "filter", "runlock"}
WriteCS  == {"read", "open", "write", "unlock"}
ReadCS   == {"scan", "filter", "runlock"}

Init ==
  /\ clock = 0
  /\ up = FALSE
  /\ disk = [f \in Files |-> Absent]
  /\ pc = [p \in Procs |-> "idle"]
  /\ \E r \in QueryRequests : req = [p \in Procs |-> r]
  /\ buf = [p \in Procs |-> <<>>]
  /\ rsp = [p \in Procs |-> Pending]
  /\ writer = Nobody
  /\ readers = {}
  /\ mishaps = 0

Tick ==
  /\ clock < MaxClock
  /\ clock' = clock + 1
  /\ UNCHANGED <<up, disk, callVars, lockVars, mishaps>>

Goto(p, from, to) ==
  /\ pc[p] = from
  /\ pc' = [pc EXCEPT ![p] = to]

-----------------------------------------------------------------------------
(* The life of the process.                                                *)

(* MkdirAll(baseDir) succeeds and the process gets a FileStorage.  Only     *)
(* baseDir is created, never a directory of Dirs below it.                  *)
NewFileStorage ==
  /\ ~up
  /\ up' = TRUE
  /\ UNCHANGED <<clock, disk, callVars, lockVars, mishaps>>

Crash ==
  /\ up
  /\ mishaps < MaxMishaps
  /\ mishaps' = mishaps + 1
  /\ up' = FALSE
  /\ pc' = [p \in Procs |-> "idle"]
  /\ buf' = [p \in Procs |-> <<>>]
  /\ rsp' = [p \in Procs |-> Pending]
  /\ writer' = Nobody
  /\ readers' = {}
  /\ UNCHANGED <<clock, disk, req>>

Call(p, r, start) ==
  /\ up
  /\ Goto(p, "idle", start)
  /\ req' = [req EXCEPT ![p] = r]
  /\ UNCHANGED <<clock, up, disk, buf, rsp, lockVars, mishaps>>

(* The metrics of f as the callers know them: during a Store the file is    *)
(* torn, and they live only in the local variable of that Store.            *)
Writing(f)  == {p \in Procs : pc[p] = "write" /\ req[p].file = f}
Log(f)      == IF Writing(f) # {} THEN buf[CHOOSE p \in Writing(f) : TRUE]
               ELSE disk[f].data
Poisoned(f) == disk[f] = Torn /\ Writing(f) = {}

CallStore(p) ==
  \E r \in StoreRequests :
    /\ r.arg <= clock
    /\ Len(Log(r.file)) + Cardinality({q \in Procs : pc[q] \in StorePcs}) < MaxLen
    /\ Call(p, r, "lock")

CallQuery(p) ==
  \E r \in QueryRequests : Call(p, r, "rlock")

(* The call's local variables and result are gone when it has returned.     *)
Return(p) ==
  /\ buf' = [buf EXCEPT ![p] = <<>>]
  /\ rsp' = [rsp EXCEPT ![p] = Pending]

-----------------------------------------------------------------------------
(* sync.RWMutex: Lock takes the writers' mutex, which keeps new readers     *)
(* out, and waits for the present ones; Unlock lets in every reader that    *)
(* was blocked meanwhile before another writer can come.                    *)

(* Mutant of Lock: a lock that readers may keep busy for ever.              *)
LockWhenFree(p) ==
  /\ writer = Nobody
  /\ readers = {}
  /\ Goto(p, "lock", "drain")
  /\ writer' = p
  /\ UNCHANGED <<clock, up, disk, req, buf, rsp, readers, mishaps>>

Lock(p) ==
  /\ writer = Nobody
  /\ Goto(p, "lock", "drain")
  /\ writer' = p
  /\ UNCHANGED <<clock, up, disk, req, buf, rsp, readers, mishaps>>

(* Mutant of Drained: the writer does not wait for the readers.             *)
DrainedAtOnce(p) ==
  /\ Goto(p, "drain", "read")
  /\ UNCHANGED <<clock, up, disk, req, buf, rsp, lockVars, mishaps>>

Drained(p) ==
  /\ readers = {}
  /\ Goto(p, "drain", "read")
  /\ UNCHANGED <<clock, up, disk, req, buf, rsp, lockVars, mishaps>>

Unlock(p) ==
  /\ pc[p] = "unlock"
  /\ LET blocked == {q \in Procs : pc[q] = "rwait"}
     IN  /\ readers' = readers \cup blocked
         /\ pc' = [q \in Procs |-> IF q = p THEN "idle"
                                   ELSE IF q \in blocked THEN "scan" ELSE pc[q]]
  /\ writer' = Nobody
  /\ Return(p)
  /\ UNCHANGED <<clock, up, disk, req, mishaps>>

(* Mutant of RLock: a Query that reads without waiting for the writer.      *)
RLockAtOnce(p) ==
  /\ Goto(p, "rlock", "scan")
  /\ readers' = readers \cup {p}
  /\ UNCHANGED <<clock, up, disk, req, buf, rsp, writer, mishaps>>

RLock(p) ==
  /\ writer = Nobody
  /\ Goto(p, "rlock", "scan")
  /\ readers' = readers \cup {p}
  /\ UNCHANGED <<clock, up, disk, req, buf, rsp, writer, mishaps>>

RBlock(p) ==
  /\ writer # Nobody
  /\ Goto(p, "rlock", "rwait")
  /\ UNCHANGED <<clock, up, disk, req, buf, rsp, lockVars, mishaps>>

RUnlock(p) ==
  /\ Goto(p, "runlock", "idle")
  /\ readers' = readers \ {p}
  /\ Return(p)
  /\ UNCHANGED <<clock, up, disk, req, writer, mishaps>>

-----------------------------------------------------------------------------
(* Store and Query between locking and unlocking.                          *)

(* Mutant of Fail: an early return that forgets to unlock.                  *)
FailWithoutUnlock(p) ==
  /\ pc' = [pc EXCEPT ![p] = "return"]
  /\ rsp' = [rsp EXCEPT ![p] = Error]

(* The call returns an error: the deferred unlock is all that is left.     *)
Fail(p) ==
  /\ pc' = [pc EXCEPT ![p] = IF req[p].op = "store" THEN "unlock" ELSE "runlock"]
  /\ rsp' = [rsp EXCEPT ![p] = Error]

(* Mutant of ReadMetrics: contents that do not parse count as no metrics.   *)
ReadMetricsLeniently(p, next) ==
  /\ buf' = [buf EXCEPT ![p] = disk[req[p].file].data]
  /\ pc' = [pc EXCEPT ![p] = next]
  /\ rsp' = rsp

(* os.ReadFile and json.Unmarshal, the same in both: a missing file counts  *)
(* as no metrics, a torn one is an error.                                   *)
ReadMetrics(p, next) ==
  \/ /\ disk[req[p].file] # Torn
     /\ buf' = [buf EXCEPT ![p] = disk[req[p].file].data]
     /\ pc' = [pc EXCEPT ![p] = next]
     /\ rsp' = rsp
  \/ /\ disk[req[p].file] = Torn
     /\ Fail(p)
     /\ buf' = buf

StoreRead(p) ==
  /\ pc[p] = "read"
  /\ ReadMetrics(p, "open")
  /\ UNCHANGED <<clock, up, disk, req, lockVars, mishaps>>

(* os.WriteFile opens with O_CREATE|O_TRUNC; without its directory the file *)
(* cannot be created and the call fails.                                    *)
StoreOpen(p) ==
  /\ pc[p] = "open"
  /\ \/ /\ DirOf[req[p].file] \in Prepared
        /\ disk' = [disk EXCEPT ![req[p].file] = Torn]
        /\ pc' = [pc EXCEPT ![p] = "write"]
        /\ rsp' = rsp
     \/ /\ DirOf[req[p].file] \notin Prepared
        /\ Fail(p)
        /\ disk' = disk
  /\ UNCHANGED <<clock, up, req, buf, lockVars, mishaps>>

(* Mutant of StoreWrite: the new metric replaces the old ones.              *)
StoreWriteAlone(p) ==
  /\ Goto(p, "write", "unlock")
  /\ disk' = [disk EXCEPT ![req[p].file] = Json(<<req[p].arg>>)]
  /\ rsp' = [rsp EXCEPT ![p] = Ok({})]
  /\ UNCHANGED <<clock, up, req, buf, lockVars, mishaps>>

StoreWrite(p) ==
  /\ Goto(p, "write", "unlock")
  /\ disk' = [disk EXCEPT ![req[p].file] = Json(Append(buf[p], req[p].arg))]
  /\ rsp' = [rsp EXCEPT ![p] = Ok({})]
  /\ UNCHANGED <<clock, up, req, buf, lockVars, mishaps>>

QueryRead(p) ==
  /\ pc[p] = "scan"
  /\ ReadMetrics(p, "filter")
  /\ UNCHANGED <<clock, up, disk, req, lockVars, mishaps>>

(* Mutant of QueryFilter: a metric as old as the window counts as inside.   *)
QueryFilterInclusive(p) ==
  /\ Goto(p, "filter", "runlock")
  /\ rsp' = [rsp EXCEPT ![p] =
       Ok({i \in DOMAIN buf[p] : buf[p][i] + req[p].arg >= clock})]
  /\ UNCHANGED <<clock, up, disk, req, buf, lockVars, mishaps>>

QueryFilter(p) ==
  /\ Goto(p, "filter", "runlock")
  /\ rsp' = [rsp EXCEPT ![p] =
       Ok({i \in DOMAIN buf[p] : buf[p][i] + req[p].arg > clock})]
  /\ UNCHANGED <<clock, up, disk, req, buf, lockVars, mishaps>>

(* Any file operation, or the marshalling before the write, may fail.  A    *)
(* failing write leaves what the truncation left.                           *)
IOError(p) ==
  /\ pc[p] \in {"read", "open", "write", "scan"}
  /\ mishaps < MaxMishaps
  /\ mishaps' = mishaps + 1
  /\ Fail(p)
  /\ UNCHANGED <<clock, up, disk, req, buf, lockVars>>

-----------------------------------------------------------------------------
Step(p) ==
  \/ Drained(p) \/ Unlock(p)
  \/ RLock(p) \/ RBlock(p) \/ RUnlock(p)
  \/ StoreRead(p) \/ StoreOpen(p) \/ StoreWrite(p)
  \/ QueryRead(p) \/ QueryFilter(p)

Next ==
  \/ Tick
  \/ NewFileStorage
  \/ Crash
  \/ \E p \in Procs :
       \/ CallStore(p)
       \/ CallQuery(p)
       \/ Lock(p)
       \/ Step(p)
       \/ IOError(p)

Spec == Init /\ [][Next]_vars

(* A goroutine inside a call is scheduled again, and a goroutine that asks  *)
(* for the writers' mutex again and again gets it: sync.Mutex hands itself  *)
(* to its oldest waiter once that one has waited for a millisecond.         *)
Fairness == \A p \in Procs : WF_vars(Step(p)) /\ SF_vars(Lock(p))

FairSpec == Spec /\ Fairness

-----------------------------------------------------------------------------
(* Properties.                                                             *)

(* Type correctness.                                                       *)
TypeOK ==
  /\ clock \in Nat
  /\ up \in BOOLEAN
  /\ disk \in [Files -> FileState]
  /\ pc \in [Procs -> {"idle"} \cup StorePcs \cup QueryPcs]
  /\ req \in [Procs -> Requests]
  /\ buf \in [Procs -> Seq(Nat)]
  /\ rsp \in [Procs -> Response]
  /\ writer \in Procs \cup {Nobody}
  /\ readers \subseteq Procs
  /\ mishaps \in Nat

(* The read-modify-write of a Store excludes every other Store and Query   *)
(* from the files, on whatever device they work: no update is lost and no   *)
(* Query sees a file while it is rewritten.                                *)
RWExclusion ==
  \A p, q \in Procs : pc[p] \in WriteCS /\ p # q => pc[q] \notin WriteCS \cup ReadCS

(* Concurrency alone never makes a call fail: an error is answered only    *)
(* after a crash or an input/output error has really happened, or for a     *)
(* device whose directory is missing.                                       *)
NoSpuriousError ==
  \A p \in Procs :
    rsp[p].status = "error" => mishaps > 0 \/ DirOf[req[p].file] \notin Prepared

(* What has been stored is never lost, changed or reordered, not even by a  *)
(* restart, unless the device's log is ruined as a whole.                   *)
AppendOnly ==
  [][\A f \in Files : Poisoned(f)' \/ IsPrefix(Log(f), Log(f)')]_vars

(* No call repairs a ruined log: the code has no way back from a torn file, *)
(* since Store must parse the old contents before it writes.                *)
PoisonIsPermanent == [][\A f \in Files : Poisoned(f) => Poisoned(f)']_vars

(* Every call returns: neither the readers nor the writers starve.          *)
CallsReturn == \A p \in Procs : (pc[p] # "idle") ~> (pc[p] = "idle")

(* The code implements the log that MetricLog promises: a Store takes       *)
(* effect when its write completes, a Query when it filters what it read.   *)
Phase(p) ==
  CASE pc[p] = "idle" -> "idle"
    [] pc[p] \in {"unlock", "runlock"} -> "done"
    [] OTHER -> "pending"

ML == INSTANCE MetricLog WITH
        now      <- clock,
        log      <- [f \in Files |-> Log(f)],
        poisoned <- [f \in Files |-> Poisoned(f)],
        phase    <- [p \in Procs |-> Phase(p)]

ImplementsMetricLog == ML!MLSpec

(* What the code's comments and documents say, which it does not do.        *)

(* "Store saves a metric to the file-based storage": a Store that meets no  *)
(* crash and no input/output error succeeds (storage.go:45).                *)
StoreSavesMetric ==
  \A p \in Procs :
    req[p].op = "store" /\ rsp[p].status = "error" => mishaps > 0

(* The history survives a single fault (docs/architecture.md:469): one      *)
(* crash or one failing operation ruins no device's log.                    *)
HistorySurvivesOneFault ==
  mishaps <= 1 => \A f \in Files : ~Poisoned(f)
=============================================================================

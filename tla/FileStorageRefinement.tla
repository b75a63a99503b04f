------------------------ MODULE FileStorageRefinement ------------------------
(***************************************************************************)
(* FileStorage implements MetricLog, for any number of goroutines, devices *)
(* and mishaps: every step of the code is a step of the abstract log, or   *)
(* none.                                                                   *)
(***************************************************************************)
EXTENDS FileStorageProofs

USE DEF vars, lockVars, callVars

(* What a Query has read stays in the file until it has filtered it.        *)
ScanInv ==
  \A p \in Procs :
    pc[p] = "filter" => /\ disk[req[p].file] # Torn
                        /\ buf[p] = disk[req[p].file].data

LEMMA NothingReadChanges == Spec => []ScanInv
<1> USE DEF WriteCS, ReadCS
<1>1. Init => ScanInv
  BY DEF Init, ScanInv
<1>2. TypeOK /\ RWExclusion /\ ScanInv /\ [Next]_vars => ScanInv'
  <2> SUFFICES ASSUME TypeOK, RWExclusion, ScanInv, [Next]_vars PROVE ScanInv'
    OBVIOUS
  <2> USE RequestFields DEF ScanInv, TypeOK, RWExclusion
  <2>1. CASE Tick
    BY <2>1 DEF Tick
  <2>2. CASE NewFileStorage
    BY <2>2 DEF NewFileStorage
  <2>3. CASE Crash
    BY <2>3 DEF Crash
  <2>4. ASSUME NEW p \in Procs, CallStore(p) PROVE ScanInv'
    BY <2>4 DEF CallStore, Call, Goto
  <2>5. ASSUME NEW p \in Procs, CallQuery(p) PROVE ScanInv'
    BY <2>5 DEF CallQuery, Call, Goto
  <2>6. ASSUME NEW p \in Procs, Lock(p) PROVE ScanInv'
    BY <2>6 DEF Lock, Goto
  <2>7. ASSUME NEW p \in Procs, Drained(p) PROVE ScanInv'
    BY <2>7 DEF Drained, Goto
  <2>8. ASSUME NEW p \in Procs, Unlock(p) PROVE ScanInv'
    BY <2>8 DEF Unlock, Return
  <2>9. ASSUME NEW p \in Procs, RLock(p) PROVE ScanInv'
    BY <2>9 DEF RLock, Goto
  <2>10. ASSUME NEW p \in Procs, RBlock(p) PROVE ScanInv'
    BY <2>10 DEF RBlock, Goto
  <2>11. ASSUME NEW p \in Procs, RUnlock(p) PROVE ScanInv'
    BY <2>11 DEF RUnlock, Goto, Return
  <2>12. ASSUME NEW p \in Procs, StoreRead(p) PROVE ScanInv'
    BY <2>12 DEF StoreRead, ReadMetrics, Fail
  <2>13. ASSUME NEW p \in Procs, StoreOpen(p) PROVE ScanInv'
    BY <2>13 DEF StoreOpen, Fail
  <2>14. ASSUME NEW p \in Procs, StoreWrite(p) PROVE ScanInv'
    BY <2>14 DEF StoreWrite, Goto
  <2>15. ASSUME NEW p \in Procs, QueryRead(p) PROVE ScanInv'
    BY <2>15 DEF QueryRead, ReadMetrics, Fail
  <2>16. ASSUME NEW p \in Procs, QueryFilter(p) PROVE ScanInv'
    BY <2>16 DEF QueryFilter, Goto
  <2>17. ASSUME NEW p \in Procs, IOError(p) PROVE ScanInv'
    BY <2>17 DEF IOError, Fail
  <2>18. CASE UNCHANGED vars
    BY <2>18
  <2>19. QED
    BY <2>1, <2>2, <2>3, <2>4, <2>5, <2>6, <2>7, <2>8, <2>9, <2>10, <2>11, <2>12,
       <2>13, <2>14, <2>15, <2>16, <2>17, <2>18 DEF Next, Step
<1>3. QED
  BY <1>1, <1>2, TypeCorrect, MutualExclusion, PTL DEF Spec

-----------------------------------------------------------------------------
(* The refinement mapping.                                                 *)

Logs     == [f \in Files |-> Log(f)]
Poisons  == [f \in Files |-> Poisoned(f)]
Phases   == [p \in Procs |-> Phase(p)]

PhaseOf(s) ==
  CASE s = "idle" -> "idle"
    [] s \in {"unlock", "runlock"} -> "done"
    [] OTHER -> "pending"

LEMMA PhaseValues ==
  /\ \A p \in Procs : Phase(p) = PhaseOf(pc[p])
  /\ \A p \in Procs : Phase(p)' = PhaseOf(pc'[p])
  /\ PhaseOf("idle") = "idle"
  /\ PhaseOf("unlock") = "done" /\ PhaseOf("runlock") = "done"
  /\ \A s \in {"lock", "drain", "read", "open", "write", "rlock", "rwait", "scan", "filter"} :
       PhaseOf(s) = "pending"
BY DEF Phase, PhaseOf

(* The logs that a step does not touch are mapped to what they were.        *)
LEMMA SameLogs ==
  ASSUME \A f \in Files : Untouched(f)
  PROVE  Logs' = Logs /\ Poisons' = Poisons
<1>1. \A f \in Files : Log(f)' = Log(f) /\ (Poisoned(f) <=> Poisoned(f)')
  BY SameLog DEF Untouched
<1>2. Logs' = Logs
  BY <1>1 DEF Logs
<1>3. Poisons' = Poisons
  <2>1. \A f \in Files : Poisoned(f) \in BOOLEAN /\ Poisoned(f)' \in BOOLEAN
    BY DEF Poisoned
  <2>2. \A f \in Files : Poisoned(f)' = Poisoned(f)
    BY <1>1, <2>1
  <2>3. QED
    BY <2>2 DEF Poisons
<1>4. QED
  BY <1>2, <1>3

(* The abstract actions in the terms of the mapping.                        *)
Unmoved == Logs' = Logs /\ Poisons' = Poisons

LEMMA AbstractStutter ==
  ASSUME clock' = clock, Unmoved, Phases' = Phases, req' = req, rsp' = rsp
  PROVE  UNCHANGED ML!mlVars
BY DEF ML!mlVars, Unmoved, Logs, Poisons, Phases

LEMMA AbstractTick ==
  ASSUME clock' = clock + 1, Unmoved, Phases' = Phases, req' = req, rsp' = rsp
  PROVE  ML!MLTick
BY DEF ML!MLTick, Unmoved, Logs, Poisons, Phases

LEMMA AbstractCall ==
  ASSUME NEW p \in Procs, NEW r, Phases[p] = "idle",
         clock' = clock, Unmoved, Phases' = [Phases EXCEPT ![p] = "pending"],
         req' = [req EXCEPT ![p] = r], rsp' = rsp
  PROVE  ML!MLCall(p, r)
BY DEF ML!MLCall, Unmoved, Logs, Poisons, Phases

LEMMA AbstractReturn ==
  ASSUME NEW p \in Procs, Phases[p] = "done",
         clock' = clock, Unmoved, Phases' = [Phases EXCEPT ![p] = "idle"],
         req' = req, rsp' = [rsp EXCEPT ![p] = Pending]
  PROVE  ML!MLReturn(p)
BY DEF ML!MLReturn, ML!Pending, Pending, Unmoved, Logs, Poisons, Phases

Answered(p, a) ==
  /\ Phases[p] = "pending"
  /\ Phases' = [Phases EXCEPT ![p] = "done"]
  /\ rsp' = [rsp EXCEPT ![p] = a]
  /\ clock' = clock /\ req' = req

LEMMA AbstractReject ==
  ASSUME NEW p \in Procs, Answered(p, Error), Unmoved
  PROVE  ML!MLReject(p)
BY DEF ML!MLReject, ML!Answer, ML!Error, Error, Answered, Unmoved, Logs, Poisons, Phases

LEMMA AbstractStore ==
  ASSUME NEW p \in Procs, Answered(p, Ok({})), req[p].op = "store",
         ~Poisons[req[p].file], Poisons' = Poisons,
         Logs' = [Logs EXCEPT ![req[p].file] = Append(@, req[p].arg)]
  PROVE  ML!MLStore(p)
BY DEF ML!MLStore, ML!Answer, ML!Ok, Ok, Answered, Logs, Poisons, Phases

LEMMA AbstractQuery ==
  ASSUME NEW p \in Procs, req[p].op = "query", ~Poisons[req[p].file], Unmoved,
         Answered(p, Ok({i \in DOMAIN Logs[req[p].file] :
                           Logs[req[p].file][i] + req[p].arg > clock}))
  PROVE  ML!MLQuery(p)
BY DEF ML!MLQuery, ML!Answer, ML!Ok, ML!InWindow, Ok, Answered, Unmoved, Logs, Poisons, Phases

Ruined(f) ==
  /\ Logs' = [g \in Files |-> IF g \in {f} THEN <<>> ELSE Logs[g]]
  /\ Poisons' = [g \in Files |-> Poisons[g] \/ g \in {f}]

LEMMA AbstractRuin ==
  ASSUME NEW p \in Procs, Answered(p, Error), req[p].op = "store", Ruined(req[p].file)
  PROVE  ML!MLRuin(p)
BY DEF ML!MLRuin, ML!Answer, ML!Error, ML!Poison, Error, Answered, Ruined, Logs, Poisons, Phases

LEMMA AbstractCrash ==
  ASSUME clock' = clock, req' = req, Phases' = [p \in Procs |-> "idle"],
         rsp' = [p \in Procs |-> Pending],
         \/ Unmoved
         \/ \E p \in Procs : Phases[p] = "pending" /\ req[p].op = "store" /\ Ruined(req[p].file)
  PROVE  ML!MLCrash
BY DEF ML!MLCrash, ML!Pending, ML!Poison, Pending, Unmoved, Ruined, Logs, Poisons, Phases

(* Moving within a call leaves its phase alone; fixing its answer ends it.  *)
PendingPcs == {"lock", "drain", "read", "open", "write", "rlock", "rwait", "scan", "filter"}
DonePcs    == {"unlock", "runlock"}

Moves(p, s) == pc' = [pc EXCEPT ![p] = s]

LEMMA MappedPhases ==
  /\ Phases = [p \in Procs |-> PhaseOf(pc[p])]
  /\ Phases' = [p \in Procs |-> PhaseOf(pc'[p])]
<1>1. \A p \in Procs : Phase(p) = PhaseOf(pc[p]) /\ Phase(p)' = PhaseOf(pc'[p])
  BY PhaseValues
<1>2. QED
  BY <1>1 DEF Phases

LEMMA StaysPending ==
  ASSUME TypeOK, NEW p \in Procs, NEW s \in PendingPcs, pc[p] \in PendingPcs, Moves(p, s)
  PROVE  Phases' = Phases
<1>1. PhaseOf(s) = "pending" /\ PhaseOf(pc[p]) = "pending"
  BY DEF PhaseOf, PendingPcs
<1>2. \A q \in Procs : PhaseOf(pc'[q]) = PhaseOf(pc[q])
  BY <1>1 DEF TypeOK, Moves
<1>3. QED
  BY <1>2, MappedPhases

LEMMA GetsDone ==
  ASSUME TypeOK, NEW p \in Procs, NEW s \in DonePcs, pc[p] \in PendingPcs, Moves(p, s)
  PROVE  Phases[p] = "pending" /\ Phases' = [Phases EXCEPT ![p] = "done"]
<1>1. PhaseOf(s) = "done" /\ PhaseOf(pc[p]) = "pending"
  BY DEF PhaseOf, PendingPcs, DonePcs
<1>2. \A q \in Procs : PhaseOf(pc'[q]) = IF q = p THEN "done" ELSE PhaseOf(pc[q])
  BY <1>1 DEF TypeOK, Moves
<1>3. QED
  BY <1>1, <1>2, MappedPhases

(* The logs when the step ends a Store of file f by ruining f.              *)
LEMMA RuinOf ==
  ASSUME NEW f \in Files, disk'[f] = Torn, Writing(f)' = {},
         \A g \in Files \ {f} : Untouched(g)
  PROVE  Ruined(f)
<1>1. Log(f)' = <<>> /\ Poisoned(f)'
  BY DEF Log, Poisoned, Torn
<1>2. \A g \in Files \ {f} : Log(g)' = Log(g) /\ (Poisoned(g) <=> Poisoned(g)')
  BY SameLog DEF Untouched
<1>3. \A g \in Files : Poisoned(g) \in BOOLEAN /\ Poisoned(g)' \in BOOLEAN
  BY DEF Poisoned
<1>4. \A g \in Files : Log(g)' = IF g \in {f} THEN <<>> ELSE Log(g)
  BY <1>1, <1>2
<1>5. \A g \in Files : Poisoned(g)' = (Poisoned(g) \/ g \in {f})
  BY <1>1, <1>2, <1>3
<1>6. QED
  BY <1>4, <1>5 DEF Ruined, Logs, Poisons

-----------------------------------------------------------------------------
(* Every step, by what it does.                                            *)
Invs == TypeOK /\ CallInv /\ RWExclusion /\ FileInv /\ ScanInv

(* A step of p that only moves on inside its call, or answers an error,     *)
(* leaves every log alone unless p is about to write.                       *)
LEMMA MoveLeavesLogs ==
  ASSUME Invs, NEW p \in Procs, NEW s, s # "write", pc[p] # "write",
         pc' = [pc EXCEPT ![p] = s], disk' = disk, req' = req,
         \A q \in Procs \ {p} : buf'[q] = buf[q]
  PROVE  Unmoved
<1>1. \A f \in Files : Writing(f)' = Writing(f) /\ p \notin Writing(f)
  BY DEF Writing, Invs, TypeOK
<1>2. \A f \in Files : Untouched(f)
  BY <1>1 DEF Untouched, Writing
<1>3. QED
  BY <1>2, SameLogs DEF Unmoved

LEMMA FailIsReject ==
  ASSUME Invs, NEW p \in Procs, Fail(p), pc[p] \in {"read", "open", "scan"},
         disk' = disk, req' = req, clock' = clock, buf' = buf
  PROVE  ML!MLReject(p)
<1>1. PICK s \in {"unlock", "runlock"} : pc' = [pc EXCEPT ![p] = s]
  BY DEF Fail
<1>2. Unmoved
  BY <1>1, MoveLeavesLogs
<1>3. Moves(p, s) /\ s \in DonePcs /\ pc[p] \in PendingPcs
  BY <1>1 DEF Moves, DonePcs, PendingPcs
<1>4. Answered(p, Error)
  BY <1>3, GetsDone DEF Fail, Answered, Invs
<1>5. QED
  BY <1>2, <1>4, AbstractReject

LEMMA ReadIsStutterOrReject ==
  ASSUME Invs, NEW p \in Procs, NEW next \in {"open", "filter"}, pc[p] \in {"read", "scan"},
         ReadMetrics(p, next), disk' = disk, req' = req, clock' = clock
  PROVE  UNCHANGED ML!mlVars \/ ML!MLReject(p)
<1>1. CASE disk[req[p].file] = Torn
  BY <1>1, FailIsReject DEF ReadMetrics
<1>2. CASE disk[req[p].file] # Torn
  <2>1. pc' = [pc EXCEPT ![p] = next] /\ rsp' = rsp
    BY <1>2 DEF ReadMetrics
  <2>2. \A q \in Procs \ {p} : buf'[q] = buf[q]
    BY <1>2 DEF ReadMetrics, Invs, TypeOK
  <2>3. Unmoved
    BY <2>1, <2>2, MoveLeavesLogs
  <2>4. Moves(p, next) /\ next \in PendingPcs /\ pc[p] \in PendingPcs
    BY <2>1 DEF Moves, PendingPcs
  <2>5. Phases' = Phases
    BY <2>4, StaysPending DEF Invs
  <2>6. QED
    BY <2>1, <2>3, <2>5, AbstractStutter
<1>3. QED
  BY <1>1, <1>2

LEMMA OpenIsStutterOrReject ==
  ASSUME Invs, NEW p \in Procs, StoreOpen(p)
  PROVE  UNCHANGED ML!mlVars \/ ML!MLReject(p)
<1>0. PICK f \in Files : f = req[p].file
  BY RequestFields DEF Invs, TypeOK
<1>1. CASE DirOf[f] \notin Prepared
  BY <1>0, <1>1, FailIsReject DEF StoreOpen
<1>2. CASE DirOf[f] \in Prepared
  <2> USE <1>0, RequestFields DEF Invs, TypeOK, RWExclusion, WriteCS, ReadCS
  <2>1. /\ pc[p] = "open" /\ pc' = [pc EXCEPT ![p] = "write"]
        /\ disk' = [disk EXCEPT ![f] = Torn]
        /\ clock' = clock /\ req' = req /\ buf' = buf /\ rsp' = rsp
    BY <1>2 DEF StoreOpen
  <2>2. f \in Files
    OBVIOUS
  <2>3. Writing(f) = {}
    BY <2>1 DEF Writing
  <2>4. Writing(f)' = {p}
    BY <2>1 DEF Writing
  <2>5. disk[f] # Torn /\ buf[p] = disk[f].data
    BY <2>1 DEF FileInv
  <2>6. Log(f) = buf[p] /\ Log(f)' = buf[p]
    BY <2>1, <2>3, <2>4, <2>5 DEF Log
  <2>7. Poisoned(f) = FALSE /\ Poisoned(f)' = FALSE
    BY <2>4, <2>5 DEF Poisoned
  <2>8. \A g \in Files \ {f} : Untouched(g)
    BY <2>1 DEF Untouched, Writing
  <2>9. \A g \in Files : Log(g)' = Log(g)
    BY <2>6, <2>8, SameLog DEF Untouched
  <2>10. \A g \in Files : Poisoned(g)' = Poisoned(g)
    <3>1. \A g \in Files : Poisoned(g) \in BOOLEAN /\ Poisoned(g)' \in BOOLEAN
      BY DEF Poisoned
    <3>2. \A g \in Files \ {f} : Poisoned(g) <=> Poisoned(g)'
      BY <2>8, SameLog DEF Untouched
    <3>3. QED
      BY <2>7, <3>1, <3>2
  <2>11. Unmoved
    BY <2>9, <2>10 DEF Unmoved, Logs, Poisons
  <2>12. Phases' = Phases
    <3>1. Moves(p, "write") /\ "write" \in PendingPcs /\ pc[p] \in PendingPcs
      BY <2>1 DEF Moves, PendingPcs
    <3>2. QED
      BY <3>1, StaysPending
  <2>13. QED
    BY <2>1, <2>11, <2>12, AbstractStutter
<1>3. QED
  BY <1>1, <1>2

LEMMA WriteIsStore ==
  ASSUME Invs, NEW p \in Procs, StoreWrite(p)
  PROVE  ML!MLStore(p)
<1>0. PICK f \in Files : f = req[p].file
  BY RequestFields DEF Invs, TypeOK
<1> USE <1>0, RequestFields DEF Invs, TypeOK, RWExclusion, WriteCS, ReadCS
<1>1. /\ pc[p] = "write" /\ pc' = [pc EXCEPT ![p] = "unlock"]
      /\ disk' = [disk EXCEPT ![f] = Json(Append(buf[p], req[p].arg))]
      /\ rsp' = [rsp EXCEPT ![p] = Ok({})]
      /\ clock' = clock /\ req' = req /\ buf' = buf
  BY DEF StoreWrite, Goto
<1>2. f \in Files /\ req[p].arg \in Nat
  OBVIOUS
<1>3. Writing(f) = {p} /\ Writing(f)' = {}
  BY <1>1 DEF Writing
<1>4. Append(buf[p], req[p].arg) \in Seq(Nat)
  BY <1>2
<1>5. disk'[f] # Torn /\ disk'[f].data = Append(buf[p], req[p].arg)
  BY <1>1, <1>2, <1>4, JsonIsWhole
<1>6. Log(f) = buf[p] /\ Log(f)' = Append(buf[p], req[p].arg)
  BY <1>3, <1>5 DEF Log
<1>7. Poisoned(f) = FALSE /\ Poisoned(f)' = FALSE
  BY <1>3, <1>5 DEF Poisoned
<1>8. \A g \in Files \ {f} : Untouched(g)
  BY <1>1 DEF Untouched, Writing
<1>9. Logs' = [Logs EXCEPT ![f] = Append(@, req[p].arg)]
  <2>1. \A g \in Files \ {f} : Log(g)' = Log(g)
    BY <1>8, SameLog DEF Untouched
  <2>2. QED
    BY <1>2, <1>6, <2>1 DEF Logs
<1>10. Poisons' = Poisons
  <2>1. \A g \in Files : Poisoned(g) \in BOOLEAN /\ Poisoned(g)' \in BOOLEAN
    BY DEF Poisoned
  <2>2. \A g \in Files \ {f} : Poisoned(g) <=> Poisoned(g)'
    BY <1>8, SameLog DEF Untouched
  <2>3. \A g \in Files : Poisoned(g)' = Poisoned(g)
    BY <1>7, <2>1, <2>2
  <2>4. QED
    BY <2>3 DEF Poisons
<1>11. ~Poisons[f]
  BY <1>2, <1>7 DEF Poisons
<1>12. req[p].op = "store"
  BY <1>1 DEF CallInv, StorePcs
<1>13. Answered(p, Ok({}))
  <2>1. Moves(p, "unlock") /\ "unlock" \in DonePcs /\ pc[p] \in PendingPcs
    BY <1>1 DEF Moves, DonePcs, PendingPcs
  <2>2. QED
    BY <1>1, <2>1, GetsDone DEF Answered
<1>14. QED
  BY <1>9, <1>10, <1>11, <1>12, <1>13, AbstractStore

LEMMA FilterIsQuery ==
  ASSUME Invs, NEW p \in Procs, QueryFilter(p)
  PROVE  ML!MLQuery(p)
<1>0. PICK f \in Files : f = req[p].file
  BY RequestFields DEF Invs, TypeOK
<1> USE <1>0, RequestFields DEF Invs, TypeOK, RWExclusion, WriteCS, ReadCS
<1>1. /\ pc[p] = "filter" /\ pc' = [pc EXCEPT ![p] = "runlock"]
      /\ rsp' = [rsp EXCEPT ![p] =
           Ok({i \in DOMAIN buf[p] : buf[p][i] + req[p].arg > clock})]
      /\ clock' = clock /\ req' = req /\ buf' = buf /\ disk' = disk
  BY DEF QueryFilter, Goto
<1>2. f \in Files
  OBVIOUS
<1>3. Writing(f) = {}
  BY <1>1 DEF Writing
<1>4. disk[f] # Torn /\ buf[p] = disk[f].data
  BY <1>1 DEF ScanInv
<1>5. Logs[f] = buf[p] /\ ~Poisons[f]
  BY <1>2, <1>3, <1>4 DEF Logs, Poisons, Log, Poisoned
<1>6. Unmoved
  BY <1>1, MoveLeavesLogs
<1>7. req[p].op = "query"
  BY <1>1 DEF CallInv, QueryPcs
<1>8. Answered(p, Ok({i \in DOMAIN Logs[f] : Logs[f][i] + req[p].arg > clock}))
  <2>1. Moves(p, "runlock") /\ "runlock" \in DonePcs /\ pc[p] \in PendingPcs
    BY <1>1 DEF Moves, DonePcs, PendingPcs
  <2>2. QED
    BY <1>1, <1>5, <2>1, GetsDone DEF Answered
<1>9. QED
  BY <1>5, <1>6, <1>7, <1>8, AbstractQuery

LEMMA IOErrorIsRejectOrRuin ==
  ASSUME Invs, NEW p \in Procs, IOError(p)
  PROVE  ML!MLReject(p) \/ ML!MLRuin(p)
<1>0. PICK f \in Files : f = req[p].file
  BY RequestFields DEF Invs, TypeOK
<1>1. CASE pc[p] # "write"
  BY <1>1, FailIsReject DEF IOError
<1>2. CASE pc[p] = "write"
  <2> USE <1>0, RequestFields DEF Invs, TypeOK, RWExclusion, WriteCS, ReadCS
  <2>1. req[p].op = "store"
    BY <1>2 DEF CallInv, StorePcs
  <2>2. /\ pc' = [pc EXCEPT ![p] = "unlock"] /\ rsp' = [rsp EXCEPT ![p] = Error]
        /\ clock' = clock /\ req' = req /\ buf' = buf /\ disk' = disk
    BY <2>1 DEF IOError, Fail
  <2>3. f \in Files /\ disk'[f] = Torn
    BY <1>2, <2>2 DEF FileInv
  <2>4. Writing(f)' = {}
    BY <1>2, <2>2 DEF Writing
  <2>5. \A g \in Files \ {f} : Untouched(g)
    BY <2>2 DEF Untouched, Writing
  <2>6. Ruined(f)
    BY <2>3, <2>4, <2>5, RuinOf
  <2>7. Answered(p, Error)
    <3>1. Moves(p, "unlock") /\ "unlock" \in DonePcs /\ pc[p] \in PendingPcs
      BY <1>2, <2>2 DEF Moves, DonePcs, PendingPcs
    <3>2. QED
      BY <2>2, <3>1, GetsDone DEF Answered
  <2>8. QED
    BY <2>1, <2>6, <2>7, AbstractRuin
<1>3. QED
  BY <1>1, <1>2

LEMMA CrashIsCrash ==
  ASSUME Invs, Crash
  PROVE  ML!MLCrash
<1> USE RequestFields DEF Invs, TypeOK, RWExclusion, WriteCS, ReadCS
<1>1. /\ clock' = clock /\ req' = req /\ disk' = disk
      /\ pc' = [p \in Procs |-> "idle"] /\ rsp' = [p \in Procs |-> Pending]
  BY DEF Crash
<1>2. Phases' = [p \in Procs |-> "idle"]
  BY <1>1, PhaseValues DEF Phases
<1>3. \A f \in Files : Writing(f)' = {}
  BY <1>1 DEF Writing
<1>4. CASE \A p \in Procs : pc[p] # "write"
  <2>1. \A f \in Files : Writing(f) = {}
    BY <1>4 DEF Writing
  <2>2. \A f \in Files : Untouched(f)
    BY <1>1, <1>3, <2>1 DEF Untouched
  <2>3. QED
    BY <1>1, <1>2, <2>2, SameLogs, AbstractCrash DEF Unmoved
<1>5. ASSUME NEW p \in Procs, pc[p] = "write" PROVE ML!MLCrash
  <2>1. req[p].file \in Files /\ disk'[req[p].file] = Torn
    BY <1>1, <1>5 DEF FileInv
  <2>2. \A g \in Files \ {req[p].file} : Writing(g) = {}
    BY <1>5 DEF Writing
  <2>3. \A g \in Files \ {req[p].file} : Untouched(g)
    BY <1>1, <1>3, <2>2 DEF Untouched
  <2>4. Ruined(req[p].file)
    BY <1>3, <2>1, <2>3, RuinOf
  <2>5. Phases[p] = "pending" /\ req[p].op = "store"
    BY <1>5, PhaseValues DEF Phases, CallInv, StorePcs
  <2>6. QED
    BY <1>1, <1>2, <2>4, <2>5, AbstractCrash
<1>6. QED
  BY <1>4, <1>5

(* Waiting for a lock and getting it.                                      *)
LEMMA LockIsStutter ==
  ASSUME Invs, NEW p \in Procs, NEW s \in PendingPcs, s # "write",
         pc[p] \in {"lock", "drain", "rlock"}, Moves(p, s), disk' = disk, req' = req,
         buf' = buf, rsp' = rsp, clock' = clock
  PROVE  UNCHANGED ML!mlVars
<1>1. Unmoved
  BY MoveLeavesLogs DEF Moves
<1>2. Phases' = Phases
  BY StaysPending DEF PendingPcs, Invs
<1>3. QED
  BY <1>1, <1>2, AbstractStutter

LEMMA CallIsCall ==
  ASSUME Invs, NEW p \in Procs, NEW r, NEW start \in {"lock", "rlock"}, Call(p, r, start)
  PROVE  ML!MLCall(p, r)
<1> USE DEF Invs, TypeOK
<1>1. /\ pc[p] = "idle" /\ Moves(p, start)
      /\ req' = [req EXCEPT ![p] = r]
      /\ clock' = clock /\ disk' = disk /\ buf' = buf /\ rsp' = rsp
  BY DEF Call, Goto, Moves
<1>2. \A f \in Files : Untouched(f)
  BY <1>1 DEF Moves, Untouched, Writing
<1>3. Unmoved
  BY <1>2, SameLogs DEF Unmoved
<1>4. PhaseOf(start) = "pending" /\ PhaseOf(pc[p]) = "idle"
  BY <1>1 DEF PhaseOf
<1>5. \A q \in Procs : PhaseOf(pc'[q]) = IF q = p THEN "pending" ELSE PhaseOf(pc[q])
  BY <1>1, <1>4 DEF Moves
<1>6. Phases[p] = "idle" /\ Phases' = [Phases EXCEPT ![p] = "pending"]
  BY <1>4, <1>5, MappedPhases
<1>7. QED
  BY <1>1, <1>3, <1>6, AbstractCall

(* Both returns: also those whom an Unlock lets in stay inside their calls. *)
LEMMA ReturnIsReturn ==
  ASSUME Invs, NEW p \in Procs, Unlock(p) \/ RUnlock(p)
  PROVE  ML!MLReturn(p)
<1> USE DEF Invs, TypeOK
<1>1. /\ pc[p] \in DonePcs /\ pc'[p] = "idle"
      /\ \A q \in Procs \ {p} : pc'[q] = pc[q] \/ (pc[q] = "rwait" /\ pc'[q] = "scan")
  BY DEF Unlock, RUnlock, Goto, DonePcs
<1>2. /\ clock' = clock /\ disk' = disk /\ req' = req
      /\ buf' = [buf EXCEPT ![p] = <<>>] /\ rsp' = [rsp EXCEPT ![p] = Pending]
  BY DEF Unlock, RUnlock, Return
<1>3. \A f \in Files : Untouched(f)
  BY <1>1, <1>2 DEF Untouched, Writing, DonePcs
<1>4. Unmoved
  BY <1>3, SameLogs DEF Unmoved
<1>5. PhaseOf(pc[p]) = "done" /\ PhaseOf(pc'[p]) = "idle"
  BY <1>1 DEF PhaseOf, DonePcs
<1>6. \A q \in Procs \ {p} : PhaseOf(pc'[q]) = PhaseOf(pc[q])
  BY <1>1 DEF PhaseOf
<1>7. Phases[p] = "done" /\ Phases' = [Phases EXCEPT ![p] = "idle"]
  BY <1>5, <1>6, MappedPhases
<1>8. QED
  BY <1>2, <1>4, <1>7, AbstractReturn

(* A step outside all calls.                                               *)
LEMMA OutsideCalls ==
  ASSUME disk' = disk, pc' = pc, req' = req, buf' = buf
  PROVE  Unmoved /\ Phases' = Phases
<1>1. \A f \in Files : Untouched(f)
  BY DEF Untouched, Writing
<1>2. Phases' = Phases
  BY MappedPhases
<1>3. QED
  BY <1>1, <1>2, SameLogs DEF Unmoved

-----------------------------------------------------------------------------
LEMMA InitImplements == Init => ML!MLInit
<1> SUFFICES ASSUME Init PROVE ML!MLInit
  OBVIOUS
<1>1. \A f \in Files : Writing(f) = {}
  BY DEF Init, Writing
<1>2. \A f \in Files : Log(f) = <<>> /\ Poisoned(f) = FALSE
  BY <1>1 DEF Init, Log, Poisoned, Absent, Torn
<1>3. \A p \in Procs : Phase(p) = "idle"
  BY PhaseValues DEF Init
<1>4. req \in [Procs -> Requests]
  BY DEF Init, Requests
<1>5. QED
  BY <1>2, <1>3, <1>4 DEF Init, ML!MLInit, ML!Pending, Pending

LEMMA StepImplements ==
  ASSUME Invs, [Next]_vars
  PROVE  [ML!MLNext]_(ML!mlVars)
<1> USE DEF ML!MLNext
<1>1. CASE Tick
  BY <1>1, OutsideCalls, AbstractTick DEF Tick
<1>2. CASE NewFileStorage
  BY <1>2, OutsideCalls, AbstractStutter DEF NewFileStorage
<1>3. CASE Crash
  BY <1>3, CrashIsCrash
<1>4. ASSUME NEW p \in Procs, CallStore(p) PROVE ML!MLNext
  BY <1>4, CallIsCall DEF CallStore, Requests
<1>5. ASSUME NEW p \in Procs, CallQuery(p) PROVE ML!MLNext
  BY <1>5, CallIsCall DEF CallQuery, Requests
<1>6. ASSUME NEW p \in Procs, Lock(p) PROVE UNCHANGED ML!mlVars
  <2>1. Moves(p, "drain") /\ "drain" \in PendingPcs
    BY <1>6 DEF Lock, Goto, Moves, PendingPcs
  <2>2. QED
    BY <1>6, <2>1, LockIsStutter DEF Lock, Goto
<1>7. ASSUME NEW p \in Procs, Drained(p) PROVE UNCHANGED ML!mlVars
  <2>1. Moves(p, "read") /\ "read" \in PendingPcs
    BY <1>7 DEF Drained, Goto, Moves, PendingPcs
  <2>2. QED
    BY <1>7, <2>1, LockIsStutter DEF Drained, Goto
<1>8. ASSUME NEW p \in Procs, RLock(p) PROVE UNCHANGED ML!mlVars
  <2>1. Moves(p, "scan") /\ "scan" \in PendingPcs
    BY <1>8 DEF RLock, Goto, Moves, PendingPcs
  <2>2. QED
    BY <1>8, <2>1, LockIsStutter DEF RLock, Goto
<1>9. ASSUME NEW p \in Procs, RBlock(p) PROVE UNCHANGED ML!mlVars
  <2>1. Moves(p, "rwait") /\ "rwait" \in PendingPcs
    BY <1>9 DEF RBlock, Goto, Moves, PendingPcs
  <2>2. QED
    BY <1>9, <2>1, LockIsStutter DEF RBlock, Goto
<1>10. ASSUME NEW p \in Procs, Unlock(p) \/ RUnlock(p) PROVE ML!MLNext
  BY <1>10, ReturnIsReturn
<1>11. ASSUME NEW p \in Procs, StoreRead(p) \/ QueryRead(p)
       PROVE  ML!MLNext \/ UNCHANGED ML!mlVars
  BY <1>11, ReadIsStutterOrReject DEF StoreRead, QueryRead
<1>12. ASSUME NEW p \in Procs, StoreOpen(p) PROVE ML!MLNext \/ UNCHANGED ML!mlVars
  BY <1>12, OpenIsStutterOrReject
<1>13. ASSUME NEW p \in Procs, StoreWrite(p) PROVE ML!MLNext
  BY <1>13, WriteIsStore
<1>14. ASSUME NEW p \in Procs, QueryFilter(p) PROVE ML!MLNext
  BY <1>14, FilterIsQuery
<1>15. ASSUME NEW p \in Procs, IOError(p) PROVE ML!MLNext
  BY <1>15, IOErrorIsRejectOrRuin
<1>16. CASE UNCHANGED vars
  BY <1>16, OutsideCalls, AbstractStutter
<1>17. QED
  BY <1>1, <1>2, <1>3, <1>4, <1>5, <1>6, <1>7, <1>8, <1>9, <1>10, <1>11,
     <1>12, <1>13, <1>14, <1>15, <1>16 DEF Next, Step

(* The code's storage implements the append-only logs that MetricLog        *)
(* promises, for any number of goroutines, devices and mishaps: with crash   *)
(* or without, what a Store does to one device leaves all others alone.      *)
THEOREM StorageImplementsLog == Spec => ImplementsMetricLog
<1>1. Invs /\ [Next]_vars => [ML!MLNext]_(ML!mlVars)
  BY StepImplements
<1>2. QED
  BY <1>1, InitImplements, TypeCorrect, CallsKeepTheirKind, MutualExclusion,
     FilesStayAsRead, NothingReadChanges, PTL DEF Spec, ImplementsMetricLog, ML!MLSpec, Invs
=============================================================================

-------------------------- MODULE FileStorageProofs --------------------------
(***************************************************************************)
(* Proofs about FileStorage for any number of goroutines, devices, stamps  *)
(* and mishaps.                                                            *)
(***************************************************************************)
EXTENDS FileStorage, TLAPS

USE DEF vars, lockVars, callVars

LEMMA RequestFields ==
  \A r \in Requests : r.op \in {"store", "query"} /\ r.file \in Files /\ r.arg \in Nat
BY StorageAssumption DEF Requests, StoreRequests, QueryRequests

LEMMA RecordTypes ==
  /\ Pending \in Response /\ Error \in Response
  /\ \A d \in SUBSET Nat : Ok(d) \in Response
  /\ Absent \in FileState /\ Torn \in FileState
  /\ \A s \in Seq(Nat) : Json(s) \in FileState
  /\ \A x \in FileState : x.data \in Seq(Nat)
  /\ <<>> \in Seq(Nat)
BY DEF Response, Pending, Error, Ok, FileState, Absent, Torn, Json

LEMMA ReadMetricsTypes ==
  ASSUME TypeOK, NEW p \in Procs, NEW next \in {"open", "filter"}, ReadMetrics(p, next)
  PROVE  /\ pc' \in [Procs -> {"idle"} \cup StorePcs \cup QueryPcs]
         /\ buf' \in [Procs -> Seq(Nat)]
         /\ rsp' \in [Procs -> Response]
<1> USE DEF TypeOK, StorePcs, QueryPcs
<1>1. disk[req[p].file].data \in Seq(Nat)
  BY RequestFields, RecordTypes
<1>2. QED
  BY <1>1, RecordTypes DEF ReadMetrics, Fail

(* Type correctness of every reachable state.                               *)
THEOREM TypeCorrect == Spec => []TypeOK
<1>1. Init => TypeOK
  <2> SUFFICES ASSUME Init PROVE TypeOK
    OBVIOUS
  <2>1. req \in [Procs -> Requests]
    BY DEF Init, Requests
  <2>2. buf \in [Procs -> Seq(Nat)] /\ rsp \in [Procs -> Response]
    BY RecordTypes DEF Init
  <2>3. QED
    BY <2>1, <2>2, RecordTypes DEF Init, TypeOK
<1>2. TypeOK /\ [Next]_vars => TypeOK'
  <2> SUFFICES ASSUME TypeOK, [Next]_vars PROVE TypeOK'
    OBVIOUS
  <2> USE DEF TypeOK, StorePcs, QueryPcs
  <2>1. CASE Tick
    BY <2>1, StorageAssumption DEF Tick
  <2>2. CASE NewFileStorage
    BY <2>2 DEF NewFileStorage
  <2>3. CASE Crash
    <3>1. buf' \in [Procs -> Seq(Nat)] /\ rsp' \in [Procs -> Response]
      BY <2>3, RecordTypes DEF Crash
    <3>2. pc' \in [Procs -> {"idle"} \cup StorePcs \cup QueryPcs]
      BY <2>3 DEF Crash
    <3>3. mishaps' \in Nat
      BY <2>3 DEF Crash
    <3>4. up' \in BOOLEAN
      BY <2>3, Zenon DEF Crash
    <3>5. QED
      BY <2>3, <3>1, <3>2, <3>3, <3>4 DEF Crash
  <2>4. ASSUME NEW p \in Procs, CallStore(p) PROVE TypeOK'
    BY <2>4 DEF CallStore, Call, Goto, Requests, StoreRequests
  <2>5. ASSUME NEW p \in Procs, CallQuery(p) PROVE TypeOK'
    BY <2>5 DEF CallQuery, Call, Goto, Requests
  <2>6. ASSUME NEW p \in Procs, Lock(p) PROVE TypeOK'
    BY <2>6 DEF Lock, Goto
  <2>7. ASSUME NEW p \in Procs, Drained(p) PROVE TypeOK'
    BY <2>7 DEF Drained, Goto
  <2>8. ASSUME NEW p \in Procs, Unlock(p) PROVE TypeOK'
    BY <2>8, RecordTypes DEF Unlock, Return
  <2>9. ASSUME NEW p \in Procs, RLock(p) PROVE TypeOK'
    BY <2>9 DEF RLock, Goto
  <2>10. ASSUME NEW p \in Procs, RBlock(p) PROVE TypeOK'
    BY <2>10 DEF RBlock, Goto
  <2>11. ASSUME NEW p \in Procs, RUnlock(p) PROVE TypeOK'
    BY <2>11, RecordTypes DEF RUnlock, Goto, Return
  <2>12. ASSUME NEW p \in Procs, StoreRead(p) PROVE TypeOK'
    BY <2>12, ReadMetricsTypes DEF StoreRead
  <2>13. ASSUME NEW p \in Procs, StoreOpen(p) PROVE TypeOK'
    BY <2>13, RequestFields, RecordTypes DEF StoreOpen, Fail
  <2>14. ASSUME NEW p \in Procs, StoreWrite(p) PROVE TypeOK'
    <3>1. req[p].file \in Files /\ req[p].arg \in Nat
      BY RequestFields
    <3>2. Append(buf[p], req[p].arg) \in Seq(Nat)
      BY <3>1
    <3>3. QED
      BY <2>14, <3>1, <3>2, RecordTypes DEF StoreWrite, Goto
  <2>15. ASSUME NEW p \in Procs, QueryRead(p) PROVE TypeOK'
    BY <2>15, ReadMetricsTypes DEF QueryRead
  <2>16. ASSUME NEW p \in Procs, QueryFilter(p) PROVE TypeOK'
    <3>1. DOMAIN buf[p] \subseteq Nat
      OBVIOUS
    <3>2. QED
      BY <2>16, <3>1, RecordTypes DEF QueryFilter, Goto
  <2>17. ASSUME NEW p \in Procs, IOError(p) PROVE TypeOK'
    BY <2>17, StorageAssumption, RecordTypes DEF IOError, Fail
  <2>18. CASE UNCHANGED vars
    BY <2>18
  <2>19. QED
    BY <2>1, <2>2, <2>3, <2>4, <2>5, <2>6, <2>7, <2>8, <2>9, <2>10, <2>11, <2>12,
       <2>13, <2>14, <2>15, <2>16, <2>17, <2>18 DEF Next, Step
<1>3. QED
  BY <1>1, <1>2, PTL DEF Spec

-----------------------------------------------------------------------------
(* The lock's promise is not inductive: it also takes what the goroutines   *)
(* outside the critical sections know, and that a failing call unlocks what *)
(* it has locked.                                                           *)
CallInv ==
  \A p \in Procs :
    /\ pc[p] \in StorePcs => req[p].op = "store"
    /\ pc[p] \in QueryPcs => req[p].op = "query"

LockInv ==
  \A p \in Procs :
    /\ pc[p] \in WriteCS \cup {"drain"} => writer = p
    /\ pc[p] \in ReadCS <=> p \in readers
    /\ pc[p] \in WriteCS => readers = {}

(* A call stays the call it was, whatever step its goroutine takes.         *)
THEOREM CallsKeepTheirKind == Spec => []CallInv
<1> USE DEF StorePcs, QueryPcs
<1>1. Init => CallInv
  BY DEF Init, CallInv
<1>2. TypeOK /\ CallInv /\ [Next]_vars => CallInv'
  <2> SUFFICES ASSUME TypeOK, CallInv, [Next]_vars PROVE CallInv'
    OBVIOUS
  <2> USE DEF CallInv, TypeOK
  <2>1. CASE Tick
    BY <2>1 DEF Tick
  <2>2. CASE NewFileStorage
    BY <2>2 DEF NewFileStorage
  <2>3. CASE Crash
    BY <2>3 DEF Crash
  <2>4. ASSUME NEW p \in Procs, CallStore(p) PROVE CallInv'
    BY <2>4 DEF CallStore, Call, Goto, StoreRequests
  <2>5. ASSUME NEW p \in Procs, CallQuery(p) PROVE CallInv'
    BY <2>5 DEF CallQuery, Call, Goto, QueryRequests
  <2>6. ASSUME NEW p \in Procs, Lock(p) PROVE CallInv'
    BY <2>6 DEF Lock, Goto
  <2>7. ASSUME NEW p \in Procs, Drained(p) PROVE CallInv'
    BY <2>7 DEF Drained, Goto
  <2>8. ASSUME NEW p \in Procs, Unlock(p) PROVE CallInv'
    BY <2>8 DEF Unlock
  <2>9. ASSUME NEW p \in Procs, RLock(p) PROVE CallInv'
    BY <2>9 DEF RLock, Goto
  <2>10. ASSUME NEW p \in Procs, RBlock(p) PROVE CallInv'
    BY <2>10 DEF RBlock, Goto
  <2>11. ASSUME NEW p \in Procs, RUnlock(p) PROVE CallInv'
    BY <2>11 DEF RUnlock, Goto
  <2>12. ASSUME NEW p \in Procs, StoreRead(p) PROVE CallInv'
    BY <2>12 DEF StoreRead, ReadMetrics, Fail
  <2>13. ASSUME NEW p \in Procs, StoreOpen(p) PROVE CallInv'
    BY <2>13 DEF StoreOpen, Fail
  <2>14. ASSUME NEW p \in Procs, StoreWrite(p) PROVE CallInv'
    BY <2>14 DEF StoreWrite, Goto
  <2>15. ASSUME NEW p \in Procs, QueryRead(p) PROVE CallInv'
    BY <2>15 DEF QueryRead, ReadMetrics, Fail
  <2>16. ASSUME NEW p \in Procs, QueryFilter(p) PROVE CallInv'
    BY <2>16 DEF QueryFilter, Goto
  <2>17. ASSUME NEW p \in Procs, IOError(p) PROVE CallInv'
    BY <2>17 DEF IOError, Fail
  <2>18. CASE UNCHANGED vars
    BY <2>18
  <2>19. QED
    BY <2>1, <2>2, <2>3, <2>4, <2>5, <2>6, <2>7, <2>8, <2>9, <2>10, <2>11, <2>12,
       <2>13, <2>14, <2>15, <2>16, <2>17, <2>18 DEF Next, Step
<1>3. QED
  BY <1>1, <1>2, TypeCorrect, PTL DEF Spec

LEMMA LockIsKept == Spec => []LockInv
<1> USE DEF WriteCS, ReadCS
<1>1. Init => LockInv
  BY DEF Init, LockInv
<1>2. TypeOK /\ CallInv /\ LockInv /\ [Next]_vars => LockInv'
  <2> SUFFICES ASSUME TypeOK, CallInv, LockInv, [Next]_vars PROVE LockInv'
    OBVIOUS
  <2> USE StorageAssumption DEF LockInv, TypeOK
  <2>1. CASE Tick
    BY <2>1 DEF Tick
  <2>2. CASE NewFileStorage
    BY <2>2 DEF NewFileStorage
  <2>3. CASE Crash
    BY <2>3 DEF Crash
  <2>4. ASSUME NEW p \in Procs, CallStore(p) PROVE LockInv'
    BY <2>4 DEF CallStore, Call, Goto
  <2>5. ASSUME NEW p \in Procs, CallQuery(p) PROVE LockInv'
    BY <2>5 DEF CallQuery, Call, Goto
  <2>6. ASSUME NEW p \in Procs, Lock(p) PROVE LockInv'
    BY <2>6 DEF Lock, Goto
  <2>7. ASSUME NEW p \in Procs, Drained(p) PROVE LockInv'
    BY <2>7 DEF Drained, Goto
  <2>8. ASSUME NEW p \in Procs, Unlock(p) PROVE LockInv'
    BY <2>8 DEF Unlock
  <2>9. ASSUME NEW p \in Procs, RLock(p) PROVE LockInv'
    BY <2>9 DEF RLock, Goto
  <2>10. ASSUME NEW p \in Procs, RBlock(p) PROVE LockInv'
    BY <2>10 DEF RBlock, Goto
  <2>11. ASSUME NEW p \in Procs, RUnlock(p) PROVE LockInv'
    BY <2>11 DEF RUnlock, Goto
  <2>12. ASSUME NEW p \in Procs, StoreRead(p) PROVE LockInv'
    BY <2>12 DEF StoreRead, ReadMetrics, Fail, CallInv, StorePcs
  <2>13. ASSUME NEW p \in Procs, StoreOpen(p) PROVE LockInv'
    BY <2>13 DEF StoreOpen, Fail, CallInv, StorePcs
  <2>14. ASSUME NEW p \in Procs, StoreWrite(p) PROVE LockInv'
    BY <2>14 DEF StoreWrite, Goto
  <2>15. ASSUME NEW p \in Procs, QueryRead(p) PROVE LockInv'
    BY <2>15 DEF QueryRead, ReadMetrics, Fail, CallInv, QueryPcs
  <2>16. ASSUME NEW p \in Procs, QueryFilter(p) PROVE LockInv'
    BY <2>16 DEF QueryFilter, Goto
  <2>17. ASSUME NEW p \in Procs, IOError(p) PROVE LockInv'
    BY <2>17 DEF IOError, Fail, CallInv, StorePcs, QueryPcs
  <2>18. CASE UNCHANGED vars
    BY <2>18
  <2>19. QED
    BY <2>1, <2>2, <2>3, <2>4, <2>5, <2>6, <2>7, <2>8, <2>9, <2>10, <2>11, <2>12,
       <2>13, <2>14, <2>15, <2>16, <2>17, <2>18 DEF Next, Step
<1>3. QED
  BY <1>1, <1>2, TypeCorrect, CallsKeepTheirKind, PTL DEF Spec

(* The read-modify-write of every Store excludes all other Stores and       *)
(* Queries, for any number of goroutines and files.                         *)
THEOREM MutualExclusion == Spec => []RWExclusion
<1>1. TypeOK /\ LockInv => RWExclusion
  BY DEF TypeOK, LockInv, RWExclusion, WriteCS, ReadCS
<1>2. QED
  BY <1>1, LockIsKept, TypeCorrect, PTL

-----------------------------------------------------------------------------
(* Deadlock.  A goroutine waits for the writers' mutex, for the readers to  *)
(* leave, or, blocked by a writer, for its Unlock.                          *)
Waiting(p) ==
  \/ pc[p] = "lock" /\ writer # Nobody
  \/ pc[p] = "drain" /\ readers # {}
  \/ pc[p] = "rwait"

NeverAllWait ==
  (\E p \in Procs : pc[p] # "idle") => \E p \in Procs : pc[p] # "idle" /\ ~Waiting(p)

(* The mutex is held by a goroutine that is about to release it, whichever  *)
(* way its call goes, and no reader is left blocked without a writer.       *)
HolderInv ==
  /\ writer # Nobody => pc[writer] \in WriteCS \cup {"drain"}
  /\ \A p \in Procs : pc[p] = "rwait" => writer # Nobody

LEMMA HolderIsKept == Spec => []HolderInv
<1> USE DEF WriteCS, ReadCS
<1>1. Init => HolderInv
  BY DEF Init, HolderInv
<1>2. TypeOK /\ CallInv /\ LockInv /\ HolderInv /\ [Next]_vars => HolderInv'
  <2> SUFFICES ASSUME TypeOK, CallInv, LockInv, HolderInv, [Next]_vars PROVE HolderInv'
    OBVIOUS
  <2> USE StorageAssumption DEF LockInv, HolderInv, TypeOK
  <2>1. CASE Tick
    BY <2>1 DEF Tick
  <2>2. CASE NewFileStorage
    BY <2>2 DEF NewFileStorage
  <2>3. CASE Crash
    BY <2>3 DEF Crash
  <2>4. ASSUME NEW p \in Procs, CallStore(p) PROVE HolderInv'
    BY <2>4 DEF CallStore, Call, Goto
  <2>5. ASSUME NEW p \in Procs, CallQuery(p) PROVE HolderInv'
    BY <2>5 DEF CallQuery, Call, Goto
  <2>6. ASSUME NEW p \in Procs, Lock(p) PROVE HolderInv'
    BY <2>6 DEF Lock, Goto
  <2>7. ASSUME NEW p \in Procs, Drained(p) PROVE HolderInv'
    BY <2>7 DEF Drained, Goto
  <2>8. ASSUME NEW p \in Procs, Unlock(p) PROVE HolderInv'
    BY <2>8 DEF Unlock
  <2>9. ASSUME NEW p \in Procs, RLock(p) PROVE HolderInv'
    BY <2>9 DEF RLock, Goto
  <2>10. ASSUME NEW p \in Procs, RBlock(p) PROVE HolderInv'
    BY <2>10 DEF RBlock, Goto
  <2>11. ASSUME NEW p \in Procs, RUnlock(p) PROVE HolderInv'
    BY <2>11 DEF RUnlock, Goto
  <2>12. ASSUME NEW p \in Procs, StoreRead(p) PROVE HolderInv'
    BY <2>12 DEF StoreRead, ReadMetrics, Fail, CallInv, StorePcs
  <2>13. ASSUME NEW p \in Procs, StoreOpen(p) PROVE HolderInv'
    BY <2>13 DEF StoreOpen, Fail, CallInv, StorePcs
  <2>14. ASSUME NEW p \in Procs, StoreWrite(p) PROVE HolderInv'
    BY <2>14 DEF StoreWrite, Goto
  <2>15. ASSUME NEW p \in Procs, QueryRead(p) PROVE HolderInv'
    BY <2>15 DEF QueryRead, ReadMetrics, Fail, CallInv, QueryPcs
  <2>16. ASSUME NEW p \in Procs, QueryFilter(p) PROVE HolderInv'
    BY <2>16 DEF QueryFilter, Goto
  <2>17. ASSUME NEW p \in Procs, IOError(p) PROVE HolderInv'
    BY <2>17 DEF IOError, Fail, CallInv, StorePcs, QueryPcs
  <2>18. CASE UNCHANGED vars
    BY <2>18
  <2>19. QED
    BY <2>1, <2>2, <2>3, <2>4, <2>5, <2>6, <2>7, <2>8, <2>9, <2>10, <2>11, <2>12,
       <2>13, <2>14, <2>15, <2>16, <2>17, <2>18 DEF Next, Step
<1>3. QED
  BY <1>1, <1>2, LockIsKept, TypeCorrect, CallsKeepTheirKind, PTL DEF Spec

(* No deadlock: as long as a call is under way, some call waits for nobody, *)
(* however many goroutines wait for the lock.                               *)
THEOREM SomebodyCanGoOn == Spec => []NeverAllWait
<1>1. TypeOK /\ LockInv /\ HolderInv => NeverAllWait
  <2> SUFFICES ASSUME TypeOK, LockInv, HolderInv, NEW p \in Procs, pc[p] # "idle", Waiting(p)
               PROVE  \E q \in Procs : pc[q] # "idle" /\ ~Waiting(q)
    BY DEF NeverAllWait
  <2>1. CASE \E q \in Procs : q \in readers
    BY <2>1 DEF LockInv, Waiting, ReadCS
  <2>2. CASE readers = {}
    <3>1. writer # Nobody
      BY <2>2 DEF HolderInv, Waiting
    <3>2. writer \in Procs /\ pc[writer] \in WriteCS \cup {"drain"}
      BY <3>1 DEF TypeOK, HolderInv
    <3>3. QED
      BY <2>2, <3>2 DEF Waiting, WriteCS
  <2>3. QED
    BY <2>1, <2>2 DEF TypeOK
<1>2. QED
  BY <1>1, LockIsKept, HolderIsKept, TypeCorrect, PTL

-----------------------------------------------------------------------------
(* What a Store knows of the file it rewrites: what it has read is still    *)
(* there until it truncates the file, and then the file is torn.            *)
FileInv ==
  \A p \in Procs :
    /\ pc[p] = "open" => /\ disk[req[p].file] # Torn
                         /\ buf[p] = disk[req[p].file].data
    /\ pc[p] = "write" => disk[req[p].file] = Torn

LEMMA JsonIsWhole == Absent # Torn /\ \A d \in Seq(Nat) : Json(d) # Torn /\ Json(d).data = d
BY DEF Absent, Torn, Json

(* Nobody rewrites a file between a Store's reading and its writing of it.  *)
THEOREM FilesStayAsRead == Spec => []FileInv
<1> USE DEF WriteCS, ReadCS
<1>1. Init => FileInv
  BY DEF Init, FileInv
<1>2. TypeOK /\ RWExclusion /\ FileInv /\ [Next]_vars => FileInv'
  <2> SUFFICES ASSUME TypeOK, RWExclusion, FileInv, [Next]_vars PROVE FileInv'
    OBVIOUS
  <2> USE RequestFields DEF FileInv, TypeOK, RWExclusion
  <2>1. CASE Tick
    BY <2>1 DEF Tick
  <2>2. CASE NewFileStorage
    BY <2>2 DEF NewFileStorage
  <2>3. CASE Crash
    BY <2>3 DEF Crash
  <2>4. ASSUME NEW p \in Procs, CallStore(p) PROVE FileInv'
    BY <2>4 DEF CallStore, Call, Goto
  <2>5. ASSUME NEW p \in Procs, CallQuery(p) PROVE FileInv'
    BY <2>5 DEF CallQuery, Call, Goto
  <2>6. ASSUME NEW p \in Procs, Lock(p) PROVE FileInv'
    BY <2>6 DEF Lock, Goto
  <2>7. ASSUME NEW p \in Procs, Drained(p) PROVE FileInv'
    BY <2>7 DEF Drained, Goto
  <2>8. ASSUME NEW p \in Procs, Unlock(p) PROVE FileInv'
    BY <2>8 DEF Unlock, Return
  <2>9. ASSUME NEW p \in Procs, RLock(p) PROVE FileInv'
    BY <2>9 DEF RLock, Goto
  <2>10. ASSUME NEW p \in Procs, RBlock(p) PROVE FileInv'
    BY <2>10 DEF RBlock, Goto
  <2>11. ASSUME NEW p \in Procs, RUnlock(p) PROVE FileInv'
    BY <2>11 DEF RUnlock, Goto, Return
  <2>12. ASSUME NEW p \in Procs, StoreRead(p) PROVE FileInv'
    BY <2>12 DEF StoreRead, ReadMetrics, Fail
  <2>13. ASSUME NEW p \in Procs, StoreOpen(p) PROVE FileInv'
    BY <2>13 DEF StoreOpen, Fail
  <2>14. ASSUME NEW p \in Procs, StoreWrite(p) PROVE FileInv'
    BY <2>14 DEF StoreWrite, Goto
  <2>15. ASSUME NEW p \in Procs, QueryRead(p) PROVE FileInv'
    BY <2>15 DEF QueryRead, ReadMetrics, Fail
  <2>16. ASSUME NEW p \in Procs, QueryFilter(p) PROVE FileInv'
    BY <2>16 DEF QueryFilter, Goto
  <2>17. ASSUME NEW p \in Procs, IOError(p) PROVE FileInv'
    BY <2>17 DEF IOError, Fail
  <2>18. CASE UNCHANGED vars
    BY <2>18
  <2>19. QED
    BY <2>1, <2>2, <2>3, <2>4, <2>5, <2>6, <2>7, <2>8, <2>9, <2>10, <2>11, <2>12,
       <2>13, <2>14, <2>15, <2>16, <2>17, <2>18 DEF Next, Step
<1>3. QED
  BY <1>1, <1>2, TypeCorrect, MutualExclusion, PTL DEF Spec

-----------------------------------------------------------------------------
(* Errors: a call has its result only when all it does is to unlock, and    *)
(* without a mishap a file is torn only while a Store writes it.            *)
ResultInv ==
  \A p \in Procs : pc[p] \notin {"unlock", "runlock"} => rsp[p] = Pending

TornInv ==
  mishaps = 0 =>
    \A f \in Files : disk[f] = Torn => \E p \in Procs : pc[p] = "write" /\ req[p].file = f

LEMMA PendingIsNoError == Pending.status # "error" /\ \A d : Ok(d).status # "error"
BY DEF Pending, Ok

LEMMA ReadMetricsResult ==
  ASSUME TypeOK, ResultInv, NEW p \in Procs, pc[p] \in {"read", "scan"},
         NEW next \in {"open", "filter"}, ReadMetrics(p, next)
  PROVE  ResultInv'
<1>1. CASE disk[req[p].file] = Torn
  BY <1>1 DEF ReadMetrics, Fail, ResultInv, TypeOK
<1>2. CASE disk[req[p].file] # Torn
  BY <1>2 DEF ReadMetrics, ResultInv, TypeOK
<1>3. QED
  BY <1>1, <1>2

(* Concurrency alone makes no call fail, however many calls run.            *)
THEOREM OnlyMishapsFail == Spec => []NoSpuriousError
<1> USE DEF WriteCS, ReadCS
<1> DEFINE Inv == ResultInv /\ TornInv /\ NoSpuriousError
<1>1. Init => Inv
  BY PendingIsNoError, JsonIsWhole DEF Init, ResultInv, TornInv, NoSpuriousError
<1>2. TypeOK /\ RWExclusion /\ FileInv /\ Inv /\ [Next]_vars => Inv'
  <2> SUFFICES ASSUME TypeOK, RWExclusion, FileInv, Inv, [Next]_vars PROVE Inv'
    OBVIOUS
  <2> USE RequestFields, PendingIsNoError, JsonIsWhole
      DEF FileInv, TypeOK, RWExclusion, ResultInv, TornInv, NoSpuriousError
  <2>1. CASE Tick
    BY <2>1 DEF Tick
  <2>2. CASE NewFileStorage
    BY <2>2 DEF NewFileStorage
  <2>3. CASE Crash
    BY <2>3 DEF Crash
  <2>4. ASSUME NEW p \in Procs, CallStore(p) PROVE Inv'
    BY <2>4 DEF CallStore, Call, Goto
  <2>5. ASSUME NEW p \in Procs, CallQuery(p) PROVE Inv'
    BY <2>5 DEF CallQuery, Call, Goto
  <2>6. ASSUME NEW p \in Procs, Lock(p) PROVE Inv'
    BY <2>6 DEF Lock, Goto
  <2>7. ASSUME NEW p \in Procs, Drained(p) PROVE Inv'
    BY <2>7 DEF Drained, Goto
  <2>8. ASSUME NEW p \in Procs, Unlock(p) PROVE Inv'
    BY <2>8 DEF Unlock, Return
  <2>9. ASSUME NEW p \in Procs, RLock(p) PROVE Inv'
    BY <2>9 DEF RLock, Goto
  <2>10. ASSUME NEW p \in Procs, RBlock(p) PROVE Inv'
    BY <2>10 DEF RBlock, Goto
  <2>11. ASSUME NEW p \in Procs, RUnlock(p) PROVE Inv'
    BY <2>11 DEF RUnlock, Goto, Return
  <2>12. ASSUME NEW p \in Procs, StoreRead(p) PROVE Inv'
    <3>1. disk[req[p].file] = Torn => mishaps > 0
      BY <2>12 DEF StoreRead
    <3>2. ResultInv'
      BY <2>12, ReadMetricsResult DEF StoreRead
    <3>3. TornInv'
      BY <2>12 DEF StoreRead, ReadMetrics, Fail
    <3>4. NoSpuriousError'
      BY <2>12, <3>1 DEF StoreRead, ReadMetrics, Fail
    <3>5. QED
      BY <3>2, <3>3, <3>4
  <2>13. ASSUME NEW p \in Procs, StoreOpen(p) PROVE Inv'
    <3>1. req[p].file \in Files /\ req' = req /\ mishaps' = mishaps
      BY <2>13 DEF StoreOpen
    <3>2. CASE DirOf[req[p].file] \in Prepared
      <4>1. rsp' = rsp /\ pc' = [pc EXCEPT ![p] = "write"] /\ disk' = [disk EXCEPT ![req[p].file] = Torn]
        BY <2>13, <3>2 DEF StoreOpen
      <4>2. ResultInv'
        BY <2>13, <4>1 DEF StoreOpen
      <4>3. QED
        BY <2>13, <3>1, <4>1, <4>2
    <3>3. CASE DirOf[req[p].file] \notin Prepared
      <4>1. disk' = disk /\ Fail(p)
        BY <2>13, <3>3 DEF StoreOpen
      <4>2. ResultInv'
        BY <4>1 DEF Fail
      <4>3. TornInv'
        BY <2>13, <3>1, <4>1 DEF StoreOpen, Fail
      <4>4. NoSpuriousError'
        BY <3>1, <3>3, <4>1 DEF Fail
      <4>5. QED
        BY <4>2, <4>3, <4>4
    <3>4. QED
      BY <3>2, <3>3
  <2>14. ASSUME NEW p \in Procs, StoreWrite(p) PROVE Inv'
    <3>1. ResultInv'
      BY <2>14 DEF StoreWrite, Goto
    <3>2. disk' = [disk EXCEPT ![req[p].file] = Json(Append(buf[p], req[p].arg))]
      BY <2>14 DEF StoreWrite
    <3>3. disk'[req[p].file] # Torn
      <4>1. Append(buf[p], req[p].arg) \in Seq(Nat)
        OBVIOUS
      <4>2. QED
        BY <3>2, <4>1
    <3>4. TornInv'
      BY <2>14, <3>2, <3>3 DEF StoreWrite, Goto
    <3>5. NoSpuriousError'
      BY <2>14 DEF StoreWrite, Goto
    <3>6. QED
      BY <3>1, <3>4, <3>5
  <2>15. ASSUME NEW p \in Procs, QueryRead(p) PROVE Inv'
    <3>1. disk[req[p].file] = Torn => mishaps > 0
      BY <2>15 DEF QueryRead
    <3>2. ResultInv'
      BY <2>15, ReadMetricsResult DEF QueryRead
    <3>3. TornInv'
      BY <2>15 DEF QueryRead, ReadMetrics, Fail
    <3>4. NoSpuriousError'
      BY <2>15, <3>1 DEF QueryRead, ReadMetrics, Fail
    <3>5. QED
      BY <3>2, <3>3, <3>4
  <2>16. ASSUME NEW p \in Procs, QueryFilter(p) PROVE Inv'
    BY <2>16 DEF QueryFilter, Goto
  <2>17. ASSUME NEW p \in Procs, IOError(p) PROVE Inv'
    BY <2>17 DEF IOError, Fail
  <2>18. CASE UNCHANGED vars
    BY <2>18
  <2>19. QED
    BY <2>1, <2>2, <2>3, <2>4, <2>5, <2>6, <2>7, <2>8, <2>9, <2>10, <2>11, <2>12,
       <2>13, <2>14, <2>15, <2>16, <2>17, <2>18 DEF Next, Step
<1>3. QED
  BY <1>1, <1>2, TypeCorrect, MutualExclusion, FilesStayAsRead, PTL DEF Spec

-----------------------------------------------------------------------------
(* What a step does to the logs: a goroutine outside the two statements of  *)
(* os.WriteFile touches neither a file nor the local variable of a Store    *)
(* that is inside.                                                          *)
LEMMA SameLog ==
  ASSUME NEW f \in Files, disk'[f] = disk[f], Writing(f)' = Writing(f),
         \A q \in Writing(f) : buf'[q] = buf[q]
  PROVE  Log(f)' = Log(f) /\ (Poisoned(f) <=> Poisoned(f)')
BY DEF Log, Poisoned

Untouched(f) ==
  /\ disk'[f] = disk[f]
  /\ Writing(f)' = Writing(f)
  /\ \A q \in Writing(f) : buf'[q] = buf[q]

(* A step ruins the log, leaves it alone, opens the file for writing what   *)
(* was in it, or appends a metric to it.                                    *)
Opened(f) ==
  /\ ~Poisoned(f) /\ Log(f)' = Log(f)

Appended(f) ==
  /\ ~Poisoned(f)
  /\ \E x \in Nat : Log(f)' = Append(Log(f), x)

LEMMA StepsOnLogs ==
  ASSUME TypeOK, RWExclusion, FileInv, [Next]_vars, NEW f \in Files
  PROVE  Untouched(f) \/ Opened(f) \/ Appended(f) \/ Poisoned(f)'
<1> USE RequestFields DEF FileInv, TypeOK, RWExclusion, WriteCS, ReadCS
<1>1. CASE Tick
  BY <1>1 DEF Tick, Untouched, Writing
<1>2. CASE NewFileStorage
  BY <1>2 DEF NewFileStorage, Untouched, Writing
<1>3. CASE Crash
  <2>1. Writing(f)' = {}
    BY <1>3 DEF Crash, Writing
  <2>2. disk' = disk
    BY <1>3 DEF Crash
  <2>3. CASE Writing(f) = {}
    BY <2>1, <2>2, <2>3 DEF Untouched
  <2>4. CASE Writing(f) # {}
    <3>1. disk[f] = Torn
      BY <2>4 DEF Writing
    <3>2. QED
      BY <2>1, <2>2, <3>1 DEF Poisoned
  <2>5. QED
    BY <2>3, <2>4
<1>4. ASSUME NEW p \in Procs, CallStore(p) PROVE Untouched(f) \/ Opened(f) \/ Appended(f) \/ Poisoned(f)'
  BY <1>4 DEF CallStore, Call, Goto, Untouched, Writing
<1>5. ASSUME NEW p \in Procs, CallQuery(p) PROVE Untouched(f) \/ Opened(f) \/ Appended(f) \/ Poisoned(f)'
  BY <1>5 DEF CallQuery, Call, Goto, Untouched, Writing
<1>6. ASSUME NEW p \in Procs, Lock(p) PROVE Untouched(f) \/ Opened(f) \/ Appended(f) \/ Poisoned(f)'
  BY <1>6 DEF Lock, Goto, Untouched, Writing
<1>7. ASSUME NEW p \in Procs, Drained(p) PROVE Untouched(f) \/ Opened(f) \/ Appended(f) \/ Poisoned(f)'
  BY <1>7 DEF Drained, Goto, Untouched, Writing
<1>8. ASSUME NEW p \in Procs, Unlock(p) PROVE Untouched(f) \/ Opened(f) \/ Appended(f) \/ Poisoned(f)'
  BY <1>8 DEF Unlock, Return, Untouched, Writing
<1>9. ASSUME NEW p \in Procs, RLock(p) PROVE Untouched(f) \/ Opened(f) \/ Appended(f) \/ Poisoned(f)'
  BY <1>9 DEF RLock, Goto, Untouched, Writing
<1>10. ASSUME NEW p \in Procs, RBlock(p) PROVE Untouched(f) \/ Opened(f) \/ Appended(f) \/ Poisoned(f)'
  BY <1>10 DEF RBlock, Goto, Untouched, Writing
<1>11. ASSUME NEW p \in Procs, RUnlock(p) PROVE Untouched(f) \/ Opened(f) \/ Appended(f) \/ Poisoned(f)'
  BY <1>11 DEF RUnlock, Goto, Return, Untouched, Writing
<1>12. ASSUME NEW p \in Procs, StoreRead(p) PROVE Untouched(f) \/ Opened(f) \/ Appended(f) \/ Poisoned(f)'
  BY <1>12 DEF StoreRead, ReadMetrics, Fail, Untouched, Writing
<1>13. ASSUME NEW p \in Procs, StoreOpen(p) PROVE Untouched(f) \/ Opened(f) \/ Appended(f) \/ Poisoned(f)'
  <2>1. Writing(f) = {} \/ req[p].file # f
    BY <1>13 DEF StoreOpen, Writing
  <2>2. CASE req[p].file = f /\ DirOf[f] \in Prepared
    <3>1. disk[f] # Torn /\ Log(f) = buf[p]
      BY <1>13, <2>1, <2>2 DEF StoreOpen, Log
    <3>2. Writing(f)' = {p}
      BY <1>13, <2>1, <2>2 DEF StoreOpen, Writing
    <3>3. Log(f)' = buf[p]
      BY <1>13, <3>2 DEF StoreOpen, Log
    <3>4. QED
      BY <3>1, <3>3 DEF Opened, Poisoned
  <2>3. CASE req[p].file # f \/ DirOf[f] \notin Prepared
    BY <1>13, <2>3 DEF StoreOpen, Fail, Untouched, Writing
  <2>4. QED
    BY <2>2, <2>3
<1>14. ASSUME NEW p \in Procs, StoreWrite(p) PROVE Untouched(f) \/ Opened(f) \/ Appended(f) \/ Poisoned(f)'
  <2>1. CASE req[p].file = f
    <3>1. Writing(f) = {p} /\ Writing(f)' = {}
      BY <1>14, <2>1 DEF StoreWrite, Goto, Writing
    <3>2. Append(buf[p], req[p].arg) \in Seq(Nat) /\ req[p].arg \in Nat
      OBVIOUS
    <3>3. disk'[f] = Json(Append(buf[p], req[p].arg))
      BY <1>14, <2>1 DEF StoreWrite
    <3>4. Log(f) = buf[p] /\ Log(f)' = Append(buf[p], req[p].arg)
      BY <3>1, <3>2, <3>3, JsonIsWhole DEF Log
    <3>5. QED
      BY <3>1, <3>2, <3>4 DEF Appended, Poisoned
  <2>2. CASE req[p].file # f
    BY <1>14, <2>2 DEF StoreWrite, Goto, Untouched, Writing
  <2>3. QED
    BY <2>1, <2>2
<1>15. ASSUME NEW p \in Procs, QueryRead(p) PROVE Untouched(f) \/ Opened(f) \/ Appended(f) \/ Poisoned(f)'
  BY <1>15 DEF QueryRead, ReadMetrics, Fail, Untouched, Writing
<1>16. ASSUME NEW p \in Procs, QueryFilter(p) PROVE Untouched(f) \/ Opened(f) \/ Appended(f) \/ Poisoned(f)'
  BY <1>16 DEF QueryFilter, Goto, Untouched, Writing
<1>17. ASSUME NEW p \in Procs, IOError(p) PROVE Untouched(f) \/ Opened(f) \/ Appended(f) \/ Poisoned(f)'
  <2>1. CASE pc[p] = "write" /\ req[p].file = f
    <3>1. Writing(f)' = {} /\ disk'[f] = Torn
      BY <1>17, <2>1 DEF IOError, Fail, Writing
    <3>2. QED
      BY <3>1 DEF Poisoned
  <2>2. CASE pc[p] # "write" \/ req[p].file # f
    BY <1>17, <2>2 DEF IOError, Fail, Untouched, Writing
  <2>3. QED
    BY <2>1, <2>2
<1>18. CASE UNCHANGED vars
  BY <1>18 DEF Untouched, Writing
<1>19. QED
  BY <1>1, <1>2, <1>3, <1>4, <1>5, <1>6, <1>7, <1>8, <1>9, <1>10, <1>11,
     <1>12, <1>13, <1>14, <1>15, <1>16, <1>17, <1>18 DEF Next, Step

(* A torn file stays torn: there is no way back without a repair by hand.   *)
THEOREM NoWayBack == Spec => PoisonIsPermanent
<1>1. ASSUME TypeOK, RWExclusion, FileInv, [Next]_vars, NEW f \in Files, Poisoned(f)
      PROVE  Poisoned(f)'
  BY <1>1, StepsOnLogs, SameLog DEF Untouched, Opened, Appended
<1>2. TypeOK /\ RWExclusion /\ FileInv /\ [Next]_vars
        => [\A f \in Files : Poisoned(f) => Poisoned(f)']_vars
  BY <1>1
<1>3. QED
  BY <1>2, TypeCorrect, MutualExclusion, FilesStayAsRead, PTL DEF Spec, PoisonIsPermanent

LEMMA PrefixOfItself == \A s \in Seq(Nat) : IsPrefix(s, s)
BY DEF IsPrefix

LEMMA PrefixOfLonger == \A s \in Seq(Nat), x \in Nat : IsPrefix(s, Append(s, x))
BY DEF IsPrefix

(* The log of every device only grows, unless it is ruined as a whole.      *)
THEOREM NothingIsLost == Spec => AppendOnly
<1>1. ASSUME TypeOK, RWExclusion, FileInv, [Next]_vars, NEW f \in Files, ~Poisoned(f)'
      PROVE  IsPrefix(Log(f), Log(f)')
  <2>1. Log(f) \in Seq(Nat)
    <3>1. CASE Writing(f) # {}
      BY <1>1, <3>1 DEF Log, Writing, TypeOK
    <3>2. CASE Writing(f) = {}
      BY <1>1, <3>2, RecordTypes DEF Log, TypeOK
    <3>3. QED
      BY <3>1, <3>2
  <2>2. Log(f)' = Log(f) \/ \E x \in Nat : Log(f)' = Append(Log(f), x)
    BY <1>1, StepsOnLogs, SameLog DEF Untouched, Opened, Appended
  <2>3. QED
    BY <2>1, <2>2, PrefixOfItself, PrefixOfLonger
<1>2. TypeOK /\ RWExclusion /\ FileInv /\ [Next]_vars
        => [\A f \in Files : Poisoned(f)' \/ IsPrefix(Log(f), Log(f)')]_vars
  BY <1>1
<1>3. QED
  BY <1>2, TypeCorrect, MutualExclusion, FilesStayAsRead, PTL DEF Spec, AppendOnly
=============================================================================

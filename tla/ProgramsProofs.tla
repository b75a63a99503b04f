--------------------------- MODULE ProgramsProofs ---------------------------
(***************************************************************************)
(* The safety of the two programs: of the service (Lifecycle) for any set  *)
(* of signals and any number of them, of the client (Cli) for any devices  *)
(* and configuration files, and of both on one host (Programs).            *)
(***************************************************************************)
EXTENDS Programs, SequenceTheorems, TLAPS

USE DEF vars

-----------------------------------------------------------------------------
(* The service.                                                            *)

Starting == {"flags", "config", "monitor", "engine", "server", "start"}
Relaying == {"wait", "stopEngine", "stopServer", "exit"}

LEMMA PartsInOrder ==
  /\ DOMAIN NextPart = {"flags", "config", "monitor", "engine", "server"}
  /\ \A part \in DOMAIN NextPart : NextPart[part] \in Starting \ {"flags"}
BY DEF NextPart, Starting

(* What is true of the parts at every statement of main, and that main is   *)
(* past its last statement only when the process has ended.                 *)
ProgressInv ==
  /\ exit = "no" => main # "end"
  /\ main \in Starting => engine = "none"
  /\ main \in Starting \cup {"spawn"} => server = "none"
  /\ main \in {"spawn", "notify", "wait", "stopEngine"} => engine = "running"
  /\ main \in {"stopServer", "exit"} => engine \in {"stopped", "broken"}
  /\ main = "exit" => stopping
  /\ main \in Relaying => notified = Signals

Inv ==
  /\ TypeOK
  /\ ProgressInv
  /\ ServesOnRunningEngine
  /\ SuccessMeansStopped
  /\ KilledOnlyAtStart

(* The parts are started and stopped in order, in whatever state a failure  *)
(* or a signal meets them.                                                  *)
THEOREM Safety == Spec => []Inv
<1> USE LifecycleAssumption, PartsInOrder DEF Starting, Relaying, TypeOK, ProgressInv,
        ServesOnRunningEngine, SuccessMeansStopped, KilledOnlyAtStart, Goto, Exit
<1>1. Init => Inv
  <2> SUFFICES ASSUME Init PROVE Inv
    OBVIOUS
  <2>1. main \in DOMAIN NextPart /\ sent \in 0..MaxSignals
    BY DEF Init
  <2>2. TypeOK
    <3>1. stopping \in BOOLEAN /\ notified \subseteq Signals
      BY Zenon DEF Init
    <3>2. QED
      BY <2>1, <3>1 DEF Init
  <2>3. ProgressInv
    BY DEF Init
  <2>4. ServesOnRunningEngine /\ SuccessMeansStopped /\ KilledOnlyAtStart
    BY DEF Init
  <2>5. QED
    BY <2>2, <2>3, <2>4 DEF Inv
<1>2. Inv /\ [Next]_vars => Inv'
  <2> SUFFICES ASSUME Inv, [Next]_vars PROVE Inv'
    OBVIOUS
  <2> USE DEF Inv
  <2>1. CASE ShowVersion
    BY <2>1 DEF ShowVersion
  <2>2. CASE Construct
    BY <2>2 DEF Construct
  <2>3. CASE ConstructFails
    BY <2>3 DEF ConstructFails
  <2>4. CASE StartEngine
    BY <2>4 DEF StartEngine
  <2>5. CASE StartEngineFails
    BY <2>5 DEF StartEngineFails
  <2>6. CASE SpawnServer
    BY <2>6 DEF SpawnServer
  <2>7. CASE Notify
    BY <2>7 DEF Notify
  <2>8. CASE ReceiveSignal
    BY <2>8 DEF ReceiveSignal
  <2>9. CASE StopEngine
    BY <2>9 DEF StopEngine
  <2>10. CASE StopServer
    BY <2>10 DEF StopServer
  <2>11. CASE ExitZero
    BY <2>11 DEF ExitZero
  <2>12. CASE Serve
    BY <2>12 DEF Serve
  <2>13. CASE ServerReturns
    BY <2>13 DEF ServerReturns
  <2>14. CASE ServerFatal
    BY <2>14 DEF ServerFatal
  <2>15. CASE SignalArrives
    BY <2>15 DEF SignalArrives
  <2>16. CASE UNCHANGED vars
    BY <2>16
  <2>17. QED
    BY <2>1, <2>2, <2>3, <2>4, <2>5, <2>6, <2>7, <2>8, <2>9, <2>10, <2>11, <2>12,
       <2>13, <2>14, <2>15, <2>16 DEF Next, MainStep
<1>3. QED
  BY <1>1, <1>2, PTL DEF Spec

(* Until the shutdown begins, the API is only served on a running engine.   *)
THEOREM ServesWhileRunning == Spec => []ServesOnRunningEngine
<1>1. Inv => ServesOnRunningEngine
  BY DEF Inv
<1>2. QED
  BY <1>1, Safety, PTL

(* Success is never reported while a part of a started service was not told *)
(* to stop.                                                                 *)
THEOREM SuccessIsHonest == Spec => []SuccessMeansStopped
<1>1. Inv => SuccessMeansStopped
  BY DEF Inv
<1>2. QED
  BY <1>1, Safety, PTL

(* No signal kills the process once it waits for signals.                   *)
THEOREM KilledOnlyEarly == Spec => []KilledOnlyAtStart
<1>1. Inv => KilledOnlyAtStart
  BY DEF Inv
<1>2. QED
  BY <1>1, Safety, PTL

-----------------------------------------------------------------------------
(* The client.  First the bookkeeping of a loop over the sequence t, of     *)
(* which u is still to come: what it passed is in r or in s, by positions.  *)
Accounted(t, u, r, s) ==
  LET n == Len(r) + Len(s)
  IN  /\ n + Len(u) = Len(t)
      /\ \A i \in DOMAIN u : u[i] = t[n + i]
      /\ \E P \in SUBSET (1..n) : PartOf(r, P, t) /\ PartOf(s, (1..n) \ P, t)

LEMMA AccountIsSymmetric ==
  ASSUME NEW S, NEW t, NEW u, NEW r \in Seq(S), NEW s \in Seq(S), Accounted(t, u, r, s)
  PROVE  Accounted(t, u, s, r)
<1> DEFINE n == Len(r) + Len(s)
<1>1. Len(s) + Len(r) = n
  BY LenProperties
<1>2. PICK P \in SUBSET (1..n) : PartOf(r, P, t) /\ PartOf(s, (1..n) \ P, t)
  BY DEF Accounted
<1>3. (1..n) \ ((1..n) \ P) = P
  OBVIOUS
<1>4. \E Q \in SUBSET (1..n) : PartOf(s, Q, t) /\ PartOf(r, (1..n) \ Q, t)
  BY <1>2, <1>3
<1>5. QED
  BY <1>1, <1>4 DEF Accounted

(* A part of a sequence grows by an element that is behind all of it.       *)
LEMMA PartGrows ==
  ASSUME NEW S, NEW t, NEW n \in Nat, NEW P \in SUBSET (1..n), NEW r \in Seq(S),
         NEW e \in S, e = t[n + 1], PartOf(r, P, t)
  PROVE  PartOf(Append(r, e), P \cup {n + 1}, t)
<1> DEFINE q == Append(r, e)  m == Len(r) + 1
<1>1. /\ Len(r) \in Nat /\ DOMAIN r = 1..Len(r) /\ DOMAIN q = 1..m
      /\ \A i \in DOMAIN r : q[i] = r[i]
      /\ q[m] = e
  BY AppendProperties, LenProperties
<1>2. PICK f \in [DOMAIN r -> P] :
        /\ Range(f) = P
        /\ \A i \in DOMAIN r : r[i] = t[f[i]]
        /\ \A i, j \in DOMAIN r : i < j => f[i] < f[j]
  BY DEF PartOf
<1> HIDE DEF q
<1> DEFINE g == [i \in DOMAIN q |-> IF i = m THEN n + 1 ELSE f[i]]
<1>3. /\ DOMAIN q = DOMAIN r \cup {m} /\ m \notin DOMAIN r
      /\ \A i \in DOMAIN r : i < m
      /\ \A i \in DOMAIN r : f[i] \in P /\ f[i] \in Nat /\ f[i] < n + 1
  <2>1. \A i \in DOMAIN r : i \in 1..Len(r) /\ f[i] \in P
    BY <1>1
  <2>2. \A k \in P : k \in Nat /\ k < n + 1
    OBVIOUS
  <2>3. 1..m = (1..Len(r)) \cup {m} /\ m \notin 1..Len(r) /\ \A i \in 1..Len(r) : i < m
    BY <1>1
  <2>4. QED
    BY <1>1, <2>1, <2>2, <2>3
<1>4. g[m] = n + 1 /\ \A i \in DOMAIN r : g[i] = f[i]
  BY <1>3
<1>5. g \in [DOMAIN q -> P \cup {n + 1}]
  BY <1>3
<1>6. Range(g) = P \cup {n + 1}
  <2>1. Range(g) = {g[i] : i \in DOMAIN r} \cup {g[m]}
    BY <1>3 DEF Range
  <2>2. {g[i] : i \in DOMAIN r} = {f[i] : i \in DOMAIN r}
    BY <1>4
  <2>3. {f[i] : i \in DOMAIN r} = P
    BY <1>2 DEF Range
  <2>4. QED
    BY <1>4, <2>1, <2>2, <2>3
<1>7. \A i \in DOMAIN q : q[i] = t[g[i]]
  BY <1>1, <1>2, <1>3, <1>4
<1> HIDE DEF g, m
<1>8. ASSUME NEW i \in DOMAIN q, NEW j \in DOMAIN q, i < j PROVE g[i] < g[j]
  <2>1. i \in DOMAIN r
    BY <1>1, <1>3, <1>8 DEF m
  <2>2. CASE j \in DOMAIN r
    BY <1>2, <1>4, <1>8, <2>1, <2>2
  <2>3. CASE j = m
    BY <1>3, <1>4, <2>1, <2>3
  <2>4. QED
    BY <1>3, <2>2, <2>3
<1>9. QED
  BY <1>5, <1>6, <1>7, <1>8 DEF PartOf, q

LEMMA AccountStep ==
  ASSUME NEW S, NEW t \in Seq(S), NEW u \in Seq(S), NEW r \in Seq(S), NEW s \in Seq(S),
         u # <<>>, Accounted(t, u, r, s)
  PROVE  /\ Tail(u) \in Seq(S) /\ Append(r, Head(u)) \in Seq(S)
         /\ Accounted(t, Tail(u), Append(r, Head(u)), s)
<1> DEFINE n == Len(r) + Len(s)  e == Head(u)
<1>1. /\ n \in Nat /\ Len(u) \in Nat \ {0} /\ Len(t) = n + Len(u)
      /\ DOMAIN u = 1..Len(u)
  BY EmptySeq, LenProperties DEF Accounted
<1>2. /\ e \in S /\ e = u[1]
      /\ Tail(u) \in Seq(S) /\ Len(Tail(u)) = Len(u) - 1
      /\ \A i \in 1..Len(Tail(u)) : Tail(u)[i] = u[i + 1]
  BY HeadTailProperties
<1>3. Append(r, e) \in Seq(S) /\ Len(Append(r, e)) + Len(s) = n + 1
  <2>1. Append(r, e) \in Seq(S) /\ Len(Append(r, e)) = Len(r) + 1
    BY <1>2, AppendProperties
  <2>2. Len(r) \in Nat /\ Len(s) \in Nat
    BY LenProperties
  <2>3. QED
    BY <2>1, <2>2
<1>4. e = t[n + 1]
  BY <1>1, <1>2 DEF Accounted
<1>5. PICK P \in SUBSET (1..n) : PartOf(r, P, t) /\ PartOf(s, (1..n) \ P, t)
  BY DEF Accounted
<1> HIDE DEF e, n
<1>6. PartOf(Append(r, e), P \cup {n + 1}, t)
  BY <1>1, <1>2, <1>4, <1>5, PartGrows
<1>7. /\ P \cup {n + 1} \in SUBSET (1..(n + 1))
      /\ (1..(n + 1)) \ (P \cup {n + 1}) = (1..n) \ P
  BY <1>1, <1>5
<1>8. \E Q \in SUBSET (1..(n + 1)) :
        PartOf(Append(r, e), Q, t) /\ PartOf(s, (1..(n + 1)) \ Q, t)
  BY <1>5, <1>6, <1>7
<1>9. ASSUME NEW i \in DOMAIN Tail(u) PROVE Tail(u)[i] = t[n + 1 + i]
  <2>1. i \in 1..(Len(u) - 1) /\ i + 1 \in DOMAIN u /\ n + (i + 1) = n + 1 + i
    BY <1>1, <1>2, LenProperties
  <2>2. u[i + 1] = t[n + (i + 1)]
    BY <2>1 DEF Accounted, n
  <2>3. QED
    BY <1>2, <2>1, <2>2
<1>10. n + 1 + Len(Tail(u)) = Len(t)
  BY <1>1, <1>2
<1>11. Accounted(t, Tail(u), Append(r, e), s)
  BY <1>3, <1>8, <1>9, <1>10 DEF Accounted
<1>12. QED
  BY <1>2, <1>3, <1>11 DEF e

(* What the client knows at each of its statements.  The devices are chosen *)
(* once, and before that, or for a command without a loop, there are none.  *)
LoopType ==
  /\ targets \in Seq(Devices) /\ todo \in Seq(Devices)
  /\ results \in Seq(Devices) /\ skipped \in Seq(Devices)

StepInv ==
  /\ step \in {"config", "detector", "command", "targets", "fetch"} =>
       targets = <<>> /\ todo = <<>> /\ results = <<>> /\ skipped = <<>>
  /\ step \in {"targets", "loop"} => cmd \in PerDevice
  /\ step = "fetch" => cmd \in Commands \ PerDevice
  /\ step = "output" => cmd \in Commands
  /\ step = "output" /\ cmd = "generate-sample" => sample = "whole"
  /\ step = "output" /\ cmd = "validate" => cfg.detection /\ cfg.prediction
  /\ step = "end" <=> ended # "no"

CliInv ==
  CliTypeOK /\ LoopType /\ StepInv /\ DevicesAccountedFor /\ OutputMatchesExit

LEMMA DevicesAccounted ==
  DevicesAccountedFor <=>
    Accounted(targets, todo, results, skipped) /\ (step = "output" => todo = <<>>)
BY DEF DevicesAccountedFor, Accounted

LEMMA NothingToAccount ==
  ASSUME NEW S, NEW t \in Seq(S)
  PROVE  Accounted(t, t, <<>>, <<>>)
<1>1. Len(<<>>) = 0 /\ DOMAIN <<>> = {} /\ Len(t) \in Nat /\ DOMAIN t = 1..Len(t)
  OBVIOUS
<1>2. PartOf(<<>>, {}, t)
  <2> DEFINE f == [i \in {} |-> i]
  <2>1. f \in [DOMAIN <<>> -> {}] /\ Range(f) = {}
    BY <1>1 DEF Range
  <2>2. QED
    BY <1>1, <2>1 DEF PartOf
<1>3. 1..(0 + 0) = {}
  OBVIOUS
<1>4. \A i \in DOMAIN t : 0 + 0 + i = i
  BY <1>1
<1>5. \E P \in SUBSET (1..(0 + 0)) : PartOf(<<>>, P, t) /\ PartOf(<<>>, (1..(0 + 0)) \ P, t)
  BY <1>2, <1>3
<1>6. QED
  BY <1>1, <1>4, <1>5 DEF Accounted

LEMMA CliInitInv == CliInit => CliInv
<1> SUFFICES ASSUME CliInit PROVE CliInv
  OBVIOUS
<1>1. CliTypeOK /\ StepInv /\ OutputMatchesExit
  BY Zenon DEF CliInit, CliTypeOK, StepInv, OutputMatchesExit
<1>2. <<>> \in Seq(Devices)
  OBVIOUS
<1>3. LoopType
  BY <1>2 DEF CliInit, LoopType
<1>4. DevicesAccountedFor
  BY <1>2, DevicesAccounted, NothingToAccount DEF CliInit
<1>5. QED
  BY <1>1, <1>3, <1>4 DEF CliInv

(* A step that is not of the loop leaves the account alone.                 *)
LEMMA LoopUntouched ==
  ASSUME CliInv, UNCHANGED <<targets, todo, results, skipped>>,
         step' = "output" => todo = <<>>
  PROVE  LoopType' /\ DevicesAccountedFor'
<1>1. LoopType'
  BY DEF CliInv, LoopType
<1>2. (step' = "output" => todo' = <<>>) /\ Accounted(targets', todo', results', skipped')
  BY DevicesAccounted DEF CliInv
<1>3. QED
  BY <1>1, <1>2 DEF DevicesAccountedFor, Accounted

LEMMA CliInvStep == CliInv /\ [CliNext]_cliVars => CliInv'
<1> SUFFICES ASSUME CliInv, [CliNext]_cliVars PROVE CliInv'
  OBVIOUS
<1> USE DEF CliInv
<1>1. CASE ReadConfig
  <2>1. LoopType' /\ DevicesAccountedFor'
    BY <1>1, LoopUntouched DEF ReadConfig, Proceed, End, Loop
  <2>2. CliTypeOK' /\ StepInv' /\ OutputMatchesExit'
    BY <1>1 DEF ReadConfig, Proceed, End, Loop, CliTypeOK, StepInv, OutputMatchesExit
  <2>3. QED
    BY <2>1, <2>2
<1>2. CASE InitComponents
  <2>1. LoopType' /\ DevicesAccountedFor'
    BY <1>2, LoopUntouched DEF InitComponents, Proceed, Loop
  <2>2. CliTypeOK' /\ StepInv' /\ OutputMatchesExit'
    BY <1>2 DEF InitComponents, Proceed, Loop, CliTypeOK, StepInv, OutputMatchesExit
  <2>3. QED
    BY <2>1, <2>2
<1>3. CASE Dispatch
  <2>1. LoopType' /\ DevicesAccountedFor'
    BY <1>3, LoopUntouched DEF Dispatch, Proceed, End, Loop
  <2>2. CliTypeOK' /\ StepInv' /\ OutputMatchesExit'
    BY <1>3 DEF Dispatch, Proceed, End, Loop, Parts, CliTypeOK, StepInv, OutputMatchesExit
  <2>3. QED
    BY <2>1, <2>2
<1>4. CASE NotInitialized
  <2>1. LoopType' /\ DevicesAccountedFor'
    BY <1>4, LoopUntouched DEF NotInitialized, End, Loop
  <2>2. CliTypeOK' /\ StepInv' /\ OutputMatchesExit'
    BY <1>4 DEF NotInitialized, End, Loop, Parts, CliTypeOK, StepInv, OutputMatchesExit
  <2>3. QED
    BY <2>1, <2>2
<1>5. CASE ChooseTargets
  <2>1. todo' = targets' /\ results' = <<>> /\ skipped' = <<>> /\ step' = "loop"
    BY <1>5 DEF ChooseTargets, Proceed, StepInv
  <2>2. targets' \in Seq(Devices)
    <3>1. Disks \in Seq(Devices) /\ <<DefaultDisk>> \in Seq(Devices)
      BY CliAssumption
    <3>2. cfg.devices \in Seq(Devices)
      <4>1. cfg \in ConfigFiles => cfg.devices \in Seq(Devices)
        BY CliAssumption
      <4>2. NoConfig.devices \in Seq(Devices)
        BY DEF NoConfig
      <4>3. QED
        BY <4>1, <4>2 DEF CliTypeOK
    <3>3. GetDefaultDevices \in Seq(Devices)
      BY <3>1, <3>2 DEF GetDefaultDevices
    <3>4. <<>> \in Seq(Devices) /\ \A d \in Devices : <<d>> \in Seq(Devices)
      OBVIOUS
    <3>5. QED
      BY <1>5, <3>1, <3>3, <3>4 DEF ChooseTargets
  <2>3. LoopType'
    BY <2>1, <2>2 DEF LoopType
  <2>4. Accounted(targets', todo', results', skipped')
    BY <2>1, <2>2, NothingToAccount
  <2>5. DevicesAccountedFor'
    BY <2>1, <2>4 DEF DevicesAccountedFor, Accounted
  <2>6. CliTypeOK' /\ StepInv' /\ OutputMatchesExit'
    BY <1>5 DEF ChooseTargets, Proceed, Parts, CliTypeOK, StepInv, OutputMatchesExit
  <2>7. QED
    BY <2>3, <2>5, <2>6
<1>6. CASE NilDetector
  <2>1. LoopType' /\ DevicesAccountedFor'
    BY <1>6, LoopUntouched DEF NilDetector, End, Loop
  <2>2. CliTypeOK' /\ StepInv' /\ OutputMatchesExit'
    BY <1>6 DEF NilDetector, End, Loop, Parts, CliTypeOK, StepInv, OutputMatchesExit
  <2>3. QED
    BY <2>1, <2>2
<1>7. CASE Expire
  <2>1. LoopType' /\ DevicesAccountedFor'
    BY <1>7, LoopUntouched DEF Expire
  <2>2. CliTypeOK' /\ StepInv' /\ OutputMatchesExit'
    BY <1>7 DEF Expire, Parts, CliTypeOK, StepInv, OutputMatchesExit, Data
  <2>3. QED
    BY <2>1, <2>2
<1>8. CASE DeviceAnswers
  <2>1. /\ todo # <<>> /\ step' = "loop" /\ targets' = targets /\ skipped' = skipped
        /\ todo' = Tail(todo) /\ results' = Append(results, Head(todo))
    BY <1>8 DEF DeviceAnswers
  <2>2. /\ Tail(todo) \in Seq(Devices) /\ Append(results, Head(todo)) \in Seq(Devices)
        /\ Accounted(targets, Tail(todo), Append(results, Head(todo)), skipped)
    BY <2>1, DevicesAccounted, AccountStep DEF LoopType
  <2>3. LoopType'
    BY <2>1, <2>2 DEF LoopType
  <2>4. DevicesAccountedFor'
    BY <2>1, <2>2 DEF DevicesAccountedFor, Accounted
  <2>5. CliTypeOK' /\ StepInv' /\ OutputMatchesExit'
    BY <1>8 DEF DeviceAnswers, Parts, CliTypeOK, StepInv, OutputMatchesExit
  <2>6. QED
    BY <2>3, <2>4, <2>5
<1>9. CASE DeviceFails
  <2>1. /\ todo # <<>> /\ step' = "loop" /\ targets' = targets /\ results' = results
        /\ todo' = Tail(todo) /\ skipped' = Append(skipped, Head(todo))
    BY <1>9 DEF DeviceFails
  <2>2. Accounted(targets, todo, skipped, results)
    BY DevicesAccounted, AccountIsSymmetric DEF LoopType
  <2>3. /\ Tail(todo) \in Seq(Devices) /\ Append(skipped, Head(todo)) \in Seq(Devices)
        /\ Accounted(targets, Tail(todo), Append(skipped, Head(todo)), results)
    BY <2>1, <2>2, AccountStep DEF LoopType
  <2>4. LoopType'
    BY <2>1, <2>3 DEF LoopType
  <2>5. Accounted(targets', todo', results', skipped')
    BY <2>1, <2>3, <2>4, AccountIsSymmetric DEF LoopType
  <2>6. DevicesAccountedFor'
    BY <2>1, <2>5 DEF DevicesAccountedFor, Accounted
  <2>7. CliTypeOK' /\ StepInv' /\ OutputMatchesExit'
    BY <1>9 DEF DeviceFails, Parts, CliTypeOK, StepInv, OutputMatchesExit
  <2>8. QED
    BY <2>4, <2>6, <2>7
<1>10. CASE LoopEnds
  <2>1. LoopType' /\ DevicesAccountedFor'
    BY <1>10, LoopUntouched DEF LoopEnds, Loop
  <2>2. CliTypeOK' /\ StepInv' /\ OutputMatchesExit'
    BY <1>10 DEF LoopEnds, Proceed, Loop, Parts, CliTypeOK, StepInv, OutputMatchesExit, PerDevice, Commands
  <2>3. QED
    BY <2>1, <2>2
<1>11. CASE Fetched
  <2>1. LoopType' /\ DevicesAccountedFor'
    BY <1>11, LoopUntouched DEF Fetched, Proceed, StepInv
  <2>2. CliTypeOK' /\ StepInv' /\ OutputMatchesExit'
    BY <1>11 DEF Fetched, Proceed, Parts, CliTypeOK, StepInv, OutputMatchesExit
  <2>3. QED
    BY <2>1, <2>2
<1>12. CASE FetchFails
  <2>1. LoopType' /\ DevicesAccountedFor'
    BY <1>12, LoopUntouched DEF FetchFails, End
  <2>2. CliTypeOK' /\ StepInv' /\ OutputMatchesExit'
    BY <1>12 DEF FetchFails, End, Parts, CliTypeOK, StepInv, OutputMatchesExit
  <2>3. QED
    BY <2>1, <2>2
<1>13. CASE OutputResults
  <2>1. LoopType' /\ DevicesAccountedFor'
    BY <1>13, LoopUntouched DEF OutputResults, End, Loop
  <2>2. CliTypeOK' /\ StepInv'
    BY <1>13 DEF OutputResults, End, Loop, Parts, CliTypeOK, StepInv
  <2>3. OutputMatchesExit'
    <3>1. cmd \in PerDevice => Len(results) + Len(skipped) = Len(targets)
      <4>1. todo = <<>> /\ Len(results) + Len(skipped) + Len(todo) = Len(targets)
        BY <1>13 DEF OutputResults, DevicesAccountedFor
      <4>2. Len(results) \in Nat /\ Len(skipped) \in Nat /\ Len(todo) = 0
        BY <4>1, LenProperties DEF LoopType
      <4>3. QED
        BY <4>1, <4>2
    <3>2. cmd \in PerDevice => Data = results /\ cmd # "predictions"
      BY DEF Data, PerDevice
    <3>3. QED
      BY <1>13, <3>1, <3>2 DEF OutputResults, End, Loop, Parts, StepInv, OutputMatchesExit, Data
  <2>4. QED
    BY <2>1, <2>2, <2>3
<1>14. CASE OutputFails
  <2>1. LoopType' /\ DevicesAccountedFor'
    BY <1>14, LoopUntouched DEF OutputFails, End, Loop
  <2>2. CliTypeOK' /\ StepInv' /\ OutputMatchesExit'
    BY <1>14 DEF OutputFails, End, Loop, Parts, CliTypeOK, StepInv, OutputMatchesExit
  <2>3. QED
    BY <2>1, <2>2
<1>15. CASE UNCHANGED cliVars
  <2>1. LoopType' /\ DevicesAccountedFor'
    BY <1>15, LoopUntouched, DevicesAccounted DEF cliVars
  <2>2. CliTypeOK' /\ StepInv' /\ OutputMatchesExit'
    BY <1>15 DEF cliVars, CliTypeOK, StepInv, OutputMatchesExit, Data
  <2>3. QED
    BY <2>1, <2>2
<1>16. QED
  BY <1>1, <1>2, <1>3, <1>4, <1>5, <1>6, <1>7, <1>8, <1>9, <1>10, <1>11, <1>12, <1>13,
     <1>14, <1>15 DEF CliNext, CliStep, GiveUp

(* The invariant of a client: its loop accounts for every target, whatever   *)
(* order devices, deadline and failing parts come in.                       *)
THEOREM CliSafety == CliSpec => []CliInv
BY CliInitInv, CliInvStep, PTL DEF CliSpec

(* However devices fail, hang or answer, each of them has a result or a     *)
(* line in the log, as often as it is listed and in order.                  *)
THEOREM NoDeviceForgotten == CliSpec => []DevicesAccountedFor
<1>1. CliInv => DevicesAccountedFor
  BY DEF CliInv
<1>2. QED
  BY <1>1, CliSafety, PTL

(* A client that fails has printed nothing, and one that succeeds has       *)
(* printed all it collected.                                                *)
THEOREM ExitTellsOfOutput == CliSpec => []OutputMatchesExit
<1>1. CliInv => OutputMatchesExit
  BY DEF CliInv
<1>2. QED
  BY <1>1, CliSafety, PTL

-----------------------------------------------------------------------------
(* Both programs on one host share no variable, so that a run of the host   *)
(* is one of each program, and what each guarantees alone can be used here. *)
LEMMA EachRunsAsAlone == ProgramsSpec => FairSpec /\ CliSpec
<1>1. ProgramsInit => Init /\ CliInit
  BY DEF ProgramsInit
<1>2. [ProgramsNext]_<<vars, cliVars>> => [Next]_vars /\ [CliNext]_cliVars
  BY DEF ProgramsNext
<1>3. QED
  BY <1>1, <1>2, PTL DEF ProgramsSpec, FairSpec, Spec, CliSpec

(* Every variable of both programs keeps its type, side by side.            *)
THEOREM BothTyped == ProgramsSpec => []ProgramsTypeOK
<1>1. Inv /\ CliInv => ProgramsTypeOK
  BY DEF Inv, CliInv, ProgramsTypeOK
<1>2. QED
  BY <1>1, EachRunsAsAlone, Safety, CliSafety, PTL DEF FairSpec
=============================================================================

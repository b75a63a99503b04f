------------------------- MODULE SharedLoggerProofs -------------------------
(***************************************************************************)
(* Proofs about SharedLogger for any number of handlers, experiments and   *)
(* devices: status codes and results tell the truth, and the logger that   *)
(* Init has set stays.                                                     *)
(***************************************************************************)
EXTENDS SharedLogger, TLAPS

USE DEF vars, loggerVars, apiVars, chaosVars

-----------------------------------------------------------------------------
(* The logger.  Once the configured logger is there and no Get is under     *)
(* way, no step of anybody replaces it.                                     *)
Settled == logger = "configured" /\ getting = {}

LEMMA LogStep ==
  ASSUME Settled, NEW g, GetFindsNil(g) \/ GetFinds(g) \/ GetFallsBack(g)
  PROVE  Settled'
BY DEF Settled, GetFindsNil, GetFinds, GetFallsBack

LEMMA SettledStep == Settled /\ [Next]_vars => Settled'
<1> SUFFICES ASSUME Settled, [Next]_vars PROVE Settled'
  OBVIOUS
<1>1. CASE Plug
  BY <1>1 DEF Plug, Settled
<1>2. ASSUME NEW h \in Handlers, NEW r \in Requests, Arrive(h, r) PROVE Settled'
  BY <1>2 DEF Arrive, Settled
<1>3. ASSUME NEW h \in Handlers, Handling(h) PROVE Settled'
  <2>1. CASE Log(h)
    BY <2>1, LogStep DEF Log
  <2>2. CASE ~Log(h)
    BY <1>3, <2>2 DEF Handling, Handle, Reject, Ask, Answer, Reply, Settled
  <2>3. QED
    BY <2>1, <2>2
<1>4. ASSUME NEW x \in Experiments, NEW c \in Configs, CallExperiment(x, c) PROVE Settled'
  BY <1>4 DEF CallExperiment, Settled
<1>5. ASSUME NEW x \in Experiments, Cancel(x) PROVE Settled'
  BY <1>5 DEF Cancel, Settled
<1>6. ASSUME NEW x \in Experiments, Running(x) PROVE Settled'
  <2>1. CASE LogStart(x)
    BY <2>1, LogStep DEF LogStart
  <2>2. CASE ~LogStart(x)
    BY <1>6, <2>2 DEF Running, Run, CheckContext, CancelledBefore, RefuseConfig, Inject,
                      Validate, TimerFires, Complete, Interrupt, Settled
  <2>3. QED
    BY <2>1, <2>2
<1>7. CASE Configure
  BY <1>7 DEF Configure, Settled
<1>8. CASE UNCHANGED vars
  BY <1>8 DEF Settled
<1>9. QED
  BY <1>1, <1>2, <1>3, <1>4, <1>5, <1>6, <1>7, <1>8 DEF Next

(* The logger that Init has set stays, unless a Get overlaps Init.          *)
THEOREM InitIsLasting == Spec => ConfiguredLoggerStays
<1>1. [][Next]_vars => [](Settled => []Settled)
  BY SettledStep, PTL
<1>2. Settled => logger = "configured"
  BY DEF Settled
<1>3. Settled <=> logger = "configured" /\ getting = {}
  BY DEF Settled
<1>4. QED
  BY <1>1, <1>2, <1>3, PTL DEF Spec, ConfiguredLoggerStays

-----------------------------------------------------------------------------
(* Experiments.                                                            *)
LEMMA CancelledIsAnError == Cancelled # Nil /\ New(Nil) = Nil
BY DEF Cancelled, Leaf, Nil, New, Wrap, IsCustom

(* What an experiment knows at each of its statements: nothing is injected  *)
(* before the select, and at the select the result claims success already.  *)
FaultInv ==
  \A x \in Experiments :
    /\ stage[x] \in {"log", "check", "switch"} => fault[x] = "none" /\ ~outcome[x].success
    /\ stage[x] = "select" => outcome[x].success

ChaosInv == ChaosTypeOK /\ FaultInv /\ ResultTellsOfTheFault

LEMMA InitChaos == Init => ChaosInv
<1> SUFFICES ASSUME ChaosInit PROVE ChaosInv
  BY DEF Init
<1>1. NoConfig \in Configs
  BY DEF NoConfig, Configs
<1>2. Pending \in [success : BOOLEAN, error : {Nil, Cancelled}, err : {Nil, New(Cancelled)}]
  BY DEF Pending, Result
<1>3. QED
  BY <1>1, <1>2 DEF ChaosInit, ChaosInv, ChaosTypeOK, FaultInv, ResultTellsOfTheFault,
                    NoConfig, Pending, Result

Outcomes == [success : BOOLEAN, error : {Nil, Cancelled}, err : {Nil, New(Cancelled)}]

LEMMA OutcomeTypes ==
  /\ \A s \in BOOLEAN, e \in {Nil, Cancelled}, f \in {Nil, New(Cancelled)} :
       /\ Result(s, e, f) \in Outcomes
       /\ Result(s, e, f).success = s /\ Result(s, e, f).error = e
  /\ Pending \in Outcomes /\ ~Pending.success
BY DEF Outcomes, Result, Pending

(* A return is right when its result is.                                    *)
LEMMA FinishStep ==
  ASSUME ChaosInv, NEW x \in Experiments, NEW from, NEW r \in Outcomes, Finish(x, from, r),
         config' = config, cancelled' = cancelled, fault' = fault,
         r.success => fault[x] = "full" \/ config[x].op = "Validate",
         fault[x] # "none" /\ ~r.success => r.error # Nil /\ cancelled[x]
  PROVE  ChaosInv'
<1> USE DEF ChaosInv, ChaosTypeOK
<1>1. /\ stage' = [stage EXCEPT ![x] = "idle"] /\ outcome' = [outcome EXCEPT ![x] = r]
      /\ outcome \in [Experiments -> Outcomes]
  BY DEF Finish, Stage, Outcomes
<1>2. ChaosTypeOK'
  <2>1. outcome' \in [Experiments -> Outcomes]
    BY <1>1
  <2>2. QED
    BY <1>1, <2>1 DEF Outcomes
<1>3. FaultInv'
  BY <1>1 DEF FaultInv
<1>4. ResultTellsOfTheFault'
  BY <1>1 DEF ResultTellsOfTheFault
<1>5. QED
  BY <1>2, <1>3, <1>4

LEMMA ChaosStep == ChaosInv /\ [Next]_vars => ChaosInv'
<1> SUFFICES ASSUME ChaosInv, [Next]_vars PROVE ChaosInv'
  OBVIOUS
<1> USE OutcomeTypes, CancelledIsAnError
    DEF ChaosInv, ChaosTypeOK, FaultInv, ResultTellsOfTheFault
<1>1. ASSUME UNCHANGED chaosVars PROVE ChaosInv'
  BY <1>1
<1>2. ASSUME NEW x \in Experiments, NEW c \in Configs, CallExperiment(x, c) PROVE ChaosInv'
  <2>1. outcome \in [Experiments -> Outcomes] /\ outcome' = [outcome EXCEPT ![x] = Pending]
    BY <1>2 DEF CallExperiment, Outcomes
  <2>2. outcome' \in [Experiments -> Outcomes]
    BY <2>1
  <2>3. ChaosTypeOK'
    BY <1>2, <2>2 DEF CallExperiment, Outcomes
  <2>4. FaultInv' /\ ResultTellsOfTheFault'
    BY <1>2, <2>1 DEF CallExperiment
  <2>5. QED
    BY <2>3, <2>4
<1>3. ASSUME NEW x \in Experiments, Cancel(x) PROVE ChaosInv'
  BY <1>3 DEF Cancel
<1>4. ASSUME NEW x \in Experiments, LogStart(x) PROVE ChaosInv'
  BY <1>4 DEF LogStart, Stage
<1>5. ASSUME NEW x \in Experiments, CheckContext(x) PROVE ChaosInv'
  BY <1>5 DEF CheckContext, Stage
<1>6. ASSUME NEW x \in Experiments, CancelledBefore(x) PROVE ChaosInv'
  <2>1. fault[x] = "none"
    BY <1>6 DEF CancelledBefore, Finish, Stage
  <2>2. QED
    BY <1>6, <2>1, FinishStep DEF CancelledBefore
<1>7. ASSUME NEW x \in Experiments, RefuseConfig(x) PROVE ChaosInv'
  <2>1. fault[x] = "none"
    BY <1>7 DEF RefuseConfig, Finish, Stage
  <2>2. QED
    BY <1>7, <2>1, FinishStep DEF RefuseConfig
<1>8. ASSUME NEW x \in Experiments, Inject(x) PROVE ChaosInv'
  BY <1>8 DEF Inject, Stage
<1>9. ASSUME NEW x \in Experiments, Validate(x) PROVE ChaosInv'
  <2>1. Result(TRUE, Nil, Nil) \in Outcomes /\ Result(TRUE, Nil, Nil).success
    OBVIOUS
  <2>2. Finish(x, "switch", Result(TRUE, Nil, Nil)) /\ config[x].op = "Validate"
    BY <1>9 DEF Validate
  <2>3. QED
    BY <1>9, <2>1, <2>2, FinishStep DEF Validate
<1>10. ASSUME NEW x \in Experiments, TimerFires(x) PROVE ChaosInv'
  BY <1>10 DEF TimerFires
<1>11. ASSUME NEW x \in Experiments, Complete(x) PROVE ChaosInv'
  <2>1. outcome[x] \in Outcomes /\ outcome[x].success
    BY <1>11 DEF Complete, Finish, Stage, Outcomes
  <2>2. QED
    BY <1>11, <2>1, FinishStep DEF Complete
<1>12. ASSUME NEW x \in Experiments, Interrupt(x) PROVE ChaosInv'
  <2> DEFINE r == Result(FALSE, Cancelled, Nil)
  <2>1. r \in Outcomes /\ ~r.success /\ r.error # Nil
    OBVIOUS
  <2>2. Finish(x, "select", r) /\ cancelled[x]
    BY <1>12 DEF Interrupt
  <2>3. config' = config /\ cancelled' = cancelled /\ fault' = fault
    BY <1>12 DEF Interrupt
  <2> HIDE DEF r
  <2>4. QED
    BY <2>1, <2>2, <2>3, FinishStep
<1>13. QED
  BY <1>1, <1>2, <1>3, <1>4, <1>5, <1>6, <1>7, <1>8, <1>9, <1>10, <1>11, <1>12
     DEF Next, Running, Run, Handling

(* The result of an experiment tells what became of its fault, however its  *)
(* timer and its cancellation race.                                         *)
THEOREM ResultsAreHonest == Spec => []ResultTellsOfTheFault
<1>1. ChaosInv => ResultTellsOfTheFault
  BY DEF ChaosInv
<1>2. QED
  BY <1>1, InitChaos, ChaosStep, PTL DEF Spec

-----------------------------------------------------------------------------
(* Handlers: which codes the answers of the detector and the predictor get. *)
Found   == {Measured("finite"), Measured("nan")} \cup
             {Error(e) : e \in UNION {OnItsWay(f) : f \in Failures}}
Missing == {Error(e) : e \in OnItsWay(NotFound)}

(* What Wrap keeps and what a wrapper of another package hides.             *)
LEMMA OnTheWay ==
  /\ \A f \in Failures : \A e \in OnItsWay(f) : e # Nil /\ ~Is(e, NotFoundCode)
  /\ \A e \in OnItsWay(NotFound) : e # Nil /\ (IsCustom(e) => Is(e, NotFoundCode))
BY DEF Failures, OnItsWay, NotFound, NotFoundCode, Coded, Foreign, Wrap, Is, IsCustom,
              Leaf, Plain, Nil

LEMMA CodesOfAnswers ==
  /\ \A r \in Found, json \in BOOLEAN :
       /\ Code(r, json) \in {200, 500}
       /\ Code(r, json) = 200 /\ json => r.data = "finite"
  /\ \A r \in Missing, json \in BOOLEAN :
       /\ Code(r, json) \in {404, 500}
       /\ Code(r, json) = 500 => ~IsCustom(r.err)
<1>1. \A r \in Found : \/ r.err = Nil /\ r.data \in {"finite", "nan"}
                       \/ r.err # Nil /\ ~Is(r.err, NotFoundCode)
  BY OnTheWay DEF Found, Measured, Error
<1>2. ~Is(Nil, NotFoundCode)
  BY DEF Is, IsCustom
<1>3. \A r \in Missing : r.err # Nil /\ (IsCustom(r.err) => Is(r.err, NotFoundCode))
  BY OnTheWay DEF Missing, Error
<1>4. QED
  BY <1>1, <1>2, <1>3 DEF Code

(* What the history of a request says: the device was there at some moment, *)
(* it was missing at some moment, it was never there.                       *)
WasThere(m)   == TRUE \in m
WasMissing(m) == FALSE \in m
NeverThere(m) == m = {FALSE}

LEMMA Histories ==
  /\ \A m : WasThere(m) => ~NeverThere(m)
  /\ \A m, n : WasThere(m) => WasThere(m \cup n)
  /\ \A m, n : WasMissing(m) => WasMissing(m \cup n)
BY Zenon DEF WasThere, WasMissing, NeverThere

(* What is added to it when a request or a device comes, or one goes.       *)
LEMMA Presence ==
  ASSUME NEW m, NEW d, NEW K, (d \in K) \in m
  PROVE  /\ d \in K => WasThere(m)
         /\ d \notin K => WasMissing(m)
<1>1. ASSUME d \in K PROVE TRUE \in m
  BY <1>1, Zenon
<1>2. ASSUME d \notin K PROVE FALSE \in m
  <2> DEFINE b == d \in K
  <2>1. b \in m /\ b = FALSE
    BY <1>2
  <2> HIDE DEF b
  <2>2. QED
    BY <2>1, Zenon
<1>3. QED
  BY <1>1, <1>2, Zenon DEF WasThere, WasMissing

(* A handler's history tells of the present, and what has been answered was *)
(* true at some moment of the request.                                      *)
MetInv ==
  \A h \in Handlers :
    at[h] # "idle" =>
      /\ request[h].dev \in known => WasThere(met[h])
      /\ request[h].dev \notin known => WasMissing(met[h])

ResultInv ==
  \A h \in Handlers :
    at[h] \in {"log", "answer"} =>
      \/ WasThere(met[h]) /\ result[h] \in Found
      \/ WasMissing(met[h]) /\ result[h] \in Missing

ResultType == result \in [Handlers -> Found \cup Missing \cup {NoResult}]

APIInv == APITypeOK /\ ResultType /\ MetInv /\ ResultInv

LEMMA MetType ==
  ASSUME NEW d, NEW K
  PROVE  {d \in K} \in SUBSET BOOLEAN
BY Zenon

LEMMA InitAPI == Init => APIInv
<1> SUFFICES ASSUME APIInit PROVE APIInv
  BY DEF Init
<1>1. NoRequest \in Requests
  BY DEF NoRequest, Requests
<1>2. APITypeOK
  BY <1>1 DEF APIInit, APITypeOK
<1>3. QED
  BY <1>2 DEF APIInit, APIInv, ResultType, MetInv, ResultInv

(* A handler that returns leaves nothing behind that the others use.        *)
LEMMA ReplyStep ==
  ASSUME APIInv, NEW h \in Handlers, NEW code \in {200, 400, 404, 405, 500}, Reply(h, code)
  PROVE  APIInv'
<1> USE DEF APIInv, APITypeOK, ResultType, Reply
<1>1. APITypeOK' /\ ResultType'
  OBVIOUS
<1>2. MetInv'
  BY DEF MetInv
<1>3. ResultInv'
  BY DEF ResultInv
<1>4. QED
  BY <1>1, <1>2, <1>3

LEMMA CodeTypes ==
  ASSUME APIInv, NEW h \in Handlers, at[h] = "answer"
  PROVE  Code(result[h], request[h].json) \in {200, 404, 500}
<1>1. result[h] \in Found \cup Missing /\ request[h].json \in BOOLEAN
  BY DEF APIInv, APITypeOK, ResultInv, Requests
<1>2. QED
  BY <1>1, CodesOfAnswers

LEMMA APIStep == APIInv /\ [Next]_vars => APIInv'
<1> SUFFICES ASSUME APIInv, [Next]_vars PROVE APIInv'
  OBVIOUS
<1> USE DEF APIInv
<1>1. ASSUME UNCHANGED apiVars PROVE APIInv'
  BY <1>1 DEF APITypeOK, ResultType, MetInv, ResultInv
<1>2. CASE Plug
  <2>1. /\ known' \in SUBSET Devices
        /\ UNCHANGED <<at, request, result, status>>
    BY <1>2 DEF Plug
  <2>2. ASSUME NEW h \in Handlers, at[h] # "idle"
        PROVE  met'[h] = met[h] \cup {request[h].dev \in known'}
    BY <1>2, <2>2, Zenon DEF Plug
  <2>3. met' \in [Handlers -> SUBSET BOOLEAN]
    <3>1. ASSUME NEW h \in Handlers
          PROVE  met[h] \cup {request[h].dev \in known'} \in SUBSET BOOLEAN
      <4> DEFINE n == {request[h].dev \in known'}
      <4>1. met[h] \in SUBSET BOOLEAN /\ n \in SUBSET BOOLEAN
        <5>1. met[h] \in SUBSET BOOLEAN
          BY DEF APITypeOK
        <5>2. n \in SUBSET BOOLEAN
          BY MetType
        <5>3. QED
          BY <5>1, <5>2
      <4> HIDE DEF n
      <4>2. met[h] \cup n \in SUBSET BOOLEAN
        BY <4>1
      <4>3. QED
        BY <4>2 DEF n
    <3>2. \A h \in Handlers :
            (IF at[h] = "idle" THEN {} ELSE met[h] \cup {request[h].dev \in known'})
              \in SUBSET BOOLEAN
      BY <3>1, Zenon
    <3>3. QED
      BY <1>2, <3>2, Zenon DEF Plug
  <2>4. APITypeOK' /\ ResultType'
    BY <2>1, <2>3 DEF APITypeOK, ResultType
  <2>5. MetInv'
    <3>1. ASSUME NEW h \in Handlers, at[h] # "idle"
          PROVE  (request[h].dev \in known') \in met'[h]
      BY <2>2, <3>1, Zenon
    <3>2. QED
      BY <2>1, <3>1, Presence DEF MetInv
  <2>6. ResultInv'
    <3>1. ASSUME NEW h \in Handlers, at[h] # "idle"
          PROVE  /\ WasThere(met[h]) => WasThere(met'[h])
                 /\ WasMissing(met[h]) => WasMissing(met'[h])
      <4> DEFINE n == {request[h].dev \in known'}
      <4>1. met'[h] = met[h] \cup n
        BY <2>2, <3>1
      <4> HIDE DEF n
      <4>2. QED
        BY <4>1, Histories
    <3>2. QED
      BY <2>1, <3>1 DEF ResultInv
  <2>7. QED
    BY <2>4, <2>5, <2>6
<1>3. ASSUME NEW h \in Handlers, NEW r \in Requests, Arrive(h, r) PROVE APIInv'
  <2>1. /\ at' = [at EXCEPT ![h] = "args"] /\ request' = [request EXCEPT ![h] = r]
        /\ status' = [status EXCEPT ![h] = NoStatus]
        /\ UNCHANGED <<known, result>>
    BY <1>3 DEF Arrive
  <2>2. met' = [met EXCEPT ![h] = {r.dev \in known}]
    BY <1>3 DEF Arrive
  <2>3. met' \in [Handlers -> SUBSET BOOLEAN]
    BY <2>2, MetType DEF APITypeOK
  <2>4. APITypeOK' /\ ResultType'
    BY <2>1, <2>3 DEF APITypeOK, ResultType
  <2> DEFINE b == r.dev \in known
  <2>5. b \in met'[h] /\ \A g \in Handlers \ {h} : met'[g] = met[g]
    <3>1. met' = [met EXCEPT ![h] = {b}] /\ met \in [Handlers -> SUBSET BOOLEAN]
      BY <2>2 DEF APITypeOK
    <3> HIDE DEF b
    <3>2. QED
      BY <3>1
  <2>6. /\ r.dev \in known => WasThere(met'[h])
        /\ r.dev \notin known => WasMissing(met'[h])
    BY <2>5, Presence, Zenon
  <2> HIDE DEF b
  <2>7. MetInv'
    <3>1. ASSUME NEW g \in Handlers, at'[g] # "idle"
          PROVE  /\ request'[g].dev \in known' => WasThere(met'[g])
                 /\ request'[g].dev \notin known' => WasMissing(met'[g])
      <4>1. CASE g = h
        BY <2>1, <2>6, <4>1 DEF APITypeOK
      <4>2. CASE g # h
        BY <2>1, <2>5, <3>1, <4>2 DEF APITypeOK, MetInv
      <4>3. QED
        BY <4>1, <4>2
    <3>2. QED
      BY <3>1 DEF MetInv
  <2>8. ResultInv'
    BY <2>1, <2>5 DEF APITypeOK, ResultInv
  <2>9. QED
    BY <2>4, <2>7, <2>8
<1>4. ASSUME NEW h \in Handlers, Reject(h) PROVE APIInv'
  BY <1>4, ReplyStep DEF Reject
<1>5. ASSUME NEW h \in Handlers, Ask(h) PROVE APIInv'
  <2>1. PICK r \in Found \cup Missing :
          /\ result' = [result EXCEPT ![h] = r]
          /\ request[h].dev \in known => r \in Found
          /\ request[h].dev \notin known => r \in Missing
    BY <1>5 DEF Ask, Found, Missing
  <2>2. /\ at[h] = "args" /\ at' = [at EXCEPT ![h] = "log"]
        /\ UNCHANGED <<known, request, status, met>>
    BY <1>5 DEF Ask
  <2>3. \/ WasThere(met[h]) /\ r \in Found
        \/ WasMissing(met[h]) /\ r \in Missing
    <3>1. \/ request[h].dev \in known /\ WasThere(met[h])
          \/ request[h].dev \notin known /\ WasMissing(met[h])
      BY <2>2 DEF MetInv
    <3>2. QED
      BY <2>1, <3>1
  <2>4. APITypeOK' /\ ResultType'
    BY <2>1, <2>2 DEF APITypeOK, ResultType
  <2>5. MetInv'
    BY <2>2 DEF APITypeOK, MetInv
  <2>6. ASSUME NEW g \in Handlers, at'[g] \in {"log", "answer"}
        PROVE  \/ WasThere(met'[g]) /\ result'[g] \in Found
               \/ WasMissing(met'[g]) /\ result'[g] \in Missing
    <3>1. CASE g = h
      BY <2>1, <2>2, <2>3, <3>1 DEF ResultType
    <3>2. CASE g # h
      BY <2>1, <2>2, <2>6, <3>2 DEF APITypeOK, ResultType, ResultInv
    <3>3. QED
      BY <3>1, <3>2
  <2>7. QED
    BY <2>4, <2>5, <2>6 DEF ResultInv
<1>6. ASSUME NEW h \in Handlers, Log(h) PROVE APIInv'
  <2>1. UNCHANGED <<known, request, result, status, met>>
    BY <1>6 DEF Log
  <2>2. \/ at' = at
        \/ at[h] = "log" /\ at' = [at EXCEPT ![h] = "answer"]
    BY <1>6 DEF Log
  <2>3. APITypeOK' /\ ResultType'
    BY <2>1, <2>2 DEF APITypeOK, ResultType
  <2>4. MetInv'
    BY <2>1, <2>2 DEF APITypeOK, MetInv
  <2>5. ResultInv'
    BY <2>1, <2>2 DEF APITypeOK, ResultInv
  <2>6. QED
    BY <2>3, <2>4, <2>5
<1>7. ASSUME NEW h \in Handlers, Answer(h) PROVE APIInv'
  BY <1>7, CodeTypes, ReplyStep DEF Answer
<1>8. QED
  BY <1>1, <1>2, <1>3, <1>4, <1>5, <1>6, <1>7 DEF Next, Handling, Handle, Running,
     Run, Cancel, Configure

LEMMA TrueCodes ==
  ASSUME APIInv, [Next]_vars, NEW h \in Handlers, at[h] # "idle", at'[h] = "idle"
  PROVE  /\ status'[h] = 404 => WasMissing(met[h])
         /\ status'[h] = 200 =>
              WasThere(met[h]) /\ (request[h].json => result[h].data = "finite")
         /\ status'[h] = 500 /\ NeverThere(met[h]) => ~IsCustom(result[h].err)
<1> USE DEF APIInv, APITypeOK
<1>1. Reject(h) \/ Answer(h)
  BY DEF Next, Handling, Handle, Running, Plug, Arrive, Reject, Ask, Log, Answer, Reply,
         CallExperiment, Cancel, Configure
<1>2. CASE Reject(h)
  BY <1>2 DEF Reject, Reply
<1>3. CASE Answer(h)
  <2> DEFINE code == Code(result[h], request[h].json)
  <2>1. /\ status'[h] = code /\ request[h].json \in BOOLEAN /\ at[h] = "answer"
    BY <1>3 DEF Answer, Reply, Requests
  <2>2. CASE WasThere(met[h]) /\ result[h] \in Found
    <3>1. /\ code \in {200, 500}
          /\ code = 200 /\ request[h].json => result[h].data = "finite"
      BY <2>1, <2>2, CodesOfAnswers
    <3> HIDE DEF code
    <3>2. QED
      BY <2>1, <2>2, <3>1, Histories
  <2>3. CASE WasMissing(met[h]) /\ result[h] \in Missing
    <3>1. code \in {404, 500} /\ (code = 500 => ~IsCustom(result[h].err))
      BY <2>1, <2>3, CodesOfAnswers
    <3> HIDE DEF code
    <3>2. QED
      BY <2>1, <2>3, <3>1
  <2>4. QED
    BY <2>1, <2>2, <2>3 DEF ResultInv
<1>4. QED
  BY <1>1, <1>2, <1>3

(* The status codes tell the truth of the devices, which come and go.       *)
THEOREM CodesAreHonest == Spec => CodesAreTrue
<1>1. APIInv /\ [Next]_vars =>
        [\A h \in Handlers :
           at[h] # "idle" /\ at'[h] = "idle" =>
             /\ status'[h] = 404 => FALSE \in met[h]
             /\ status'[h] = 200 =>
                  TRUE \in met[h] /\ (request[h].json => result[h].data = "finite")
             /\ status'[h] = 500 /\ met[h] = {FALSE} => ~IsCustom(result[h].err)]_apiVars
  BY TrueCodes, Zenon DEF WasThere, WasMissing, NeverThere
<1>2. QED
  BY <1>1, InitAPI, APIStep, PTL DEF Spec, CodesAreTrue

-----------------------------------------------------------------------------
(* Types.  Only handlers and experiments call Get.                          *)
LoggerInv == LoggerTypeOK /\ getting \subseteq Handlers \cup Experiments

LEMMA LoggerStep == LoggerInv /\ [Next]_vars => LoggerInv'
<1> SUFFICES ASSUME LoggerInv, [Next]_vars PROVE LoggerInv'
  OBVIOUS
<1> USE DEF LoggerInv, LoggerTypeOK
<1>1. ASSUME NEW g \in Handlers \cup Experiments, GetFindsNil(g) \/ GetFinds(g) \/ GetFallsBack(g)
      PROVE  LoggerInv'
  BY <1>1 DEF GetFindsNil, GetFinds, GetFallsBack
<1>2. CASE Configure
  BY <1>2 DEF Configure
<1>3. ASSUME UNCHANGED loggerVars PROVE LoggerInv'
  BY <1>3
<1>4. ASSUME NEW h \in Handlers, Handling(h) PROVE LoggerInv'
  BY <1>1, <1>3, <1>4 DEF Handling, Handle, Reject, Ask, Log, Answer, Reply
<1>5. ASSUME NEW x \in Experiments, Running(x) PROVE LoggerInv'
  BY <1>1, <1>3, <1>5 DEF Running, Run, LogStart, CheckContext, CancelledBefore, RefuseConfig,
                          Inject, Validate, TimerFires, Complete, Interrupt
<1>6. QED
  BY <1>2, <1>3, <1>4, <1>5 DEF Next, Plug, Arrive, CallExperiment, Cancel

(* Type correctness of every reachable state.                               *)
THEOREM TypeCorrect == Spec => []TypeOK
<1>1. Init => LoggerInv
  BY DEF Init, LoggerInit, LoggerInv, LoggerTypeOK
<1>2. LoggerInv /\ APIInv /\ ChaosInv => TypeOK
  BY DEF LoggerInv, APIInv, ChaosInv, TypeOK
<1>3. QED
  BY <1>1, <1>2, LoggerStep, InitAPI, APIStep, InitChaos, ChaosStep, PTL DEF Spec
=============================================================================

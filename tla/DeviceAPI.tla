------------------------------ MODULE DeviceAPI ------------------------------
(***************************************************************************)
(* The handlers of RAID controllers and disks, api/v1/raid.go and          *)
(* api/v1/disk.go: each request is a goroutine that checks its arguments,  *)
(* asks the detector or the predictor, logs, and answers.  What it asks is *)
(* not in the repository: it knows the devices that are plugged in, and    *)
(* its errors may have been wrapped on their way.                          *)
(***************************************************************************)
EXTENDS Naturals, Errors, Logger

CONSTANTS
  Handlers,   \* goroutines of the HTTP server
  Devices,    \* the controllers and disks
  NoDevice    \* the empty controller_id or device_id

ASSUME APIAssumption == NoDevice \notin Devices

VARIABLES
  known,    \* the devices that are there now
  at,       \* at[h]: the next statement of h's handler
  request,  \* request[h]: the last request that h served
  result,   \* result[h]: what the detector or the predictor has answered
  status,   \* status[h]: the code that the client of the last request got
  met       \* history: whether the device was there, at some moments of the request

apiVars == <<known, at, request, result, status, met>>

(* Of the four routes, two answer in JSON and two in text.                  *)
Requests == [get : BOOLEAN, dev : Devices \cup {NoDevice}, json : BOOLEAN]

NoRequest == [get |-> FALSE, dev |-> NoDevice, json |-> FALSE]
NoStatus == 0

(* Measurements, one of which may be a NaN or infinite, or an error.        *)
Measured(data) == [data |-> data, err |-> Nil]
Error(err) == [data |-> "none", err |-> err]
NoResult == Measured("none")

(* An unknown device, and other failures: one has a not-found cause of its  *)
(* own, as a file that is missing.                                          *)
NotFound == Coded(NotFoundCode, Nil)
Failures == {Leaf, Coded("ERR_QUEUE_OVERFLOW", Leaf), Coded("ERR_STORAGE_FAILURE", NotFound)}

(* An error may pass several callers before it reaches the handler.         *)
OnItsWay(err) == {err, Wrap(err), Foreign(err)}

APIInit ==
  /\ known \in SUBSET Devices
  /\ at = [h \in Handlers |-> "idle"]
  /\ request = [h \in Handlers |-> NoRequest]
  /\ result = [h \in Handlers |-> NoResult]
  /\ status = [h \in Handlers |-> NoStatus]
  /\ met = [h \in Handlers |-> {}]

(* Devices come and go.                                                     *)
Plug ==
  /\ known' \in SUBSET Devices
  /\ met' = [h \in Handlers |->
              IF at[h] = "idle" THEN {} ELSE met[h] \cup {request[h].dev \in known'}]
  /\ UNCHANGED <<loggerVars, at, request, result, status>>

Arrive(h, r) ==
  /\ at[h] = "idle"
  /\ at' = [at EXCEPT ![h] = "args"]
  /\ request' = [request EXCEPT ![h] = r]
  /\ status' = [status EXCEPT ![h] = NoStatus]
  /\ met' = [met EXCEPT ![h] = {r.dev \in known}]
  /\ UNCHANGED <<loggerVars, known, result>>

(* The handler returns, and its local variables and history go.             *)
Reply(h, code) ==
  /\ at' = [at EXCEPT ![h] = "idle"]
  /\ status' = [status EXCEPT ![h] = code]
  /\ result' = [result EXCEPT ![h] = NoResult]
  /\ met' = [met EXCEPT ![h] = {}]
  /\ UNCHANGED <<loggerVars, known, request>>

Valid(r) == r.get /\ r.dev # NoDevice

Reject(h) ==
  /\ at[h] = "args"
  /\ ~Valid(request[h])
  /\ Reply(h, IF request[h].get THEN 400 ELSE 405)

(* CheckRAIDHealth, GetRAIDMetrics or PredictDiskFailure.                   *)
Ask(h) ==
  /\ at[h] = "args"
  /\ Valid(request[h])
  /\ at' = [at EXCEPT ![h] = "log"]
  /\ \E r \in IF request[h].dev \in known
              THEN {Measured("finite"), Measured("nan")}
                     \cup {Error(e) : e \in UNION {OnItsWay(f) : f \in Failures}}
              ELSE {Error(e) : e \in OnItsWay(NotFound)} :
       result' = [result EXCEPT ![h] = r]
  /\ UNCHANGED <<loggerVars, known, request, status, met>>

(* The error, or what is served, is logged before the handler returns.      *)
Log(h) ==
  /\ at[h] = "log"
  /\ \/ GetFindsNil(h) /\ UNCHANGED at
     \/ (GetFinds(h) \/ GetFallsBack(h)) /\ at' = [at EXCEPT ![h] = "answer"]
  /\ UNCHANGED <<known, request, result, status, met>>

(* json.Encode writes nothing of a value that it cannot encode, and the     *)
(* code is still to be chosen.                                              *)
Code(r, json) ==
  IF Is(r.err, NotFoundCode) THEN 404
  ELSE IF r.err # Nil \/ (json /\ r.data = "nan") THEN 500 ELSE 200

Answer(h) ==
  /\ at[h] = "answer"
  /\ Reply(h, Code(result[h], request[h].json))

(* What a handler does by itself.                                           *)
Handle(h) == Reject(h) \/ Ask(h) \/ Log(h) \/ Answer(h)

-----------------------------------------------------------------------------
APITypeOK ==
  /\ known \subseteq Devices
  /\ at \in [Handlers -> {"idle", "args", "log", "answer"}]
  /\ request \in [Handlers -> Requests]
  /\ status \in [Handlers -> {NoStatus, 200, 400, 404, 405, 500}]
  /\ met \in [Handlers -> SUBSET BOOLEAN]

(* The codes tell the truth of a device although errors are wrapped and     *)
(* devices come and go: 404 is answered only of a device that was missing   *)
(* at some moment of the request, also if a failure has a not-found cause   *)
(* of its own; 200 only of one that was there, and in JSON with a whole     *)
(* body; and 500 of one that was missing all the time only when a wrapper   *)
(* of another package hides the code.                                       *)
CodesAreTrue ==
  [][\A h \in Handlers :
       at[h] # "idle" /\ at'[h] = "idle" =>
         /\ status'[h] = 404 => FALSE \in met[h]
         /\ status'[h] = 200 =>
              TRUE \in met[h] /\ (request[h].json => result[h].data = "finite")
         /\ status'[h] = 500 /\ met[h] = {FALSE} => ~IsCustom(result[h].err)]_apiVars
=============================================================================

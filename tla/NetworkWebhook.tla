--------------------------- MODULE NetworkWebhook ---------------------------
(***************************************************************************)
(* NetworkAPI.handleHealth of api/v1/network.go: every GET is a goroutine  *)
(* that checks the network, writes its response and then posts the result  *)
(* to a webhook, one goroutine at a time under n.mu.  The post may fail,   *)
(* may be lost, may be answered, or may time out in the client and still   *)
(* arrive later.  net/http flushes the response, which is small, when the  *)
(* handler returns: the client waits for the webhook.                      *)
(***************************************************************************)
EXTENDS Naturals, FiniteSets, Sequences

CONSTANTS
  Requests,   \* the HTTP requests, each with its handler goroutine
  Nobody,     \* the value of "mu" when it is free
  Gets,       \* the requests whose method is GET
  Healths,    \* what the detector's CheckHealth may answer, errors included
  MaxClock    \* bound: last second of the wall clock

ASSUME WebhookAssumption ==
  /\ Nobody \notin Requests
  /\ Gets \subseteq Requests
  /\ MaxClock \in Nat

VARIABLES
  webhook,   \* webhookURL is configured
  now,       \* the wall clock, in seconds as RFC3339 prints it
  health,    \* what CheckHealth would answer now
  pc,        \* pc[r]: the next statement of r's handler
  resp,      \* resp[r]: the local variable "response"
  mu,        \* the handler that holds n.mu
  wire,      \* posts sent and not yet received or lost
  received,  \* what the webhook's server has received, in order
  reply,     \* reply[r]: what the client gets
  late       \* history: requests whose post timed out

vars == <<webhook, now, health, pc, resp, mu, wire, received, reply, late>>

NoResponse    == [ts |-> 0, health |-> "none"]
NoReply       == "none"
NotAllowed    == "405"
EmptyBody     == "empty"

Goto(r, from, to) ==
  /\ pc[r] = from
  /\ pc' = [pc EXCEPT ![r] = to]

(* The handler returns, and net/http sends what it has written.             *)
Return(r, from, answer) ==
  /\ Goto(r, from, "done")
  /\ reply' = [reply EXCEPT ![r] = answer]

Init ==
  /\ webhook \in BOOLEAN
  /\ now = 0
  /\ health \in Healths
  /\ pc = [r \in Requests |-> "new"]
  /\ resp = [r \in Requests |-> NoResponse]
  /\ mu = Nobody
  /\ wire = {}
  /\ received = <<>>
  /\ reply = [r \in Requests |-> NoReply]
  /\ late = {}

Tick ==
  /\ now < MaxClock
  /\ now' = now + 1
  /\ UNCHANGED <<webhook, health, pc, resp, mu, wire, received, reply, late>>

Drift ==
  /\ health' \in Healths
  /\ UNCHANGED <<webhook, now, pc, resp, mu, wire, received, reply, late>>

MethodNotAllowed(r) ==
  /\ r \notin Gets
  /\ Return(r, "new", NotAllowed)
  /\ UNCHANGED <<webhook, now, health, resp, mu, wire, received, late>>

Check(r) ==
  /\ r \in Gets
  /\ Goto(r, "new", "stamp")
  /\ resp' = [resp EXCEPT ![r].health = health]
  /\ UNCHANGED <<webhook, now, health, mu, wire, received, reply, late>>

(* The time stamp is taken after the check has answered.                    *)
Stamp(r) ==
  /\ Goto(r, "stamp", "encode")
  /\ resp' = [resp EXCEPT ![r].ts = now]
  /\ UNCHANGED <<webhook, now, health, mu, wire, received, reply, late>>

Encode(r) ==
  /\ \/ webhook /\ Goto(r, "encode", "lock") /\ UNCHANGED reply
     \/ ~webhook /\ Return(r, "encode", resp[r].health)
  /\ UNCHANGED <<webhook, now, health, resp, mu, wire, received, late>>

(* json cannot encode a NaN or an infinite measurement.                     *)
EncodeFails(r) ==
  /\ Return(r, "encode", EmptyBody)
  /\ UNCHANGED <<webhook, now, health, resp, mu, wire, received, late>>

(* Mutant of Lock: no mutex.                                                *)
LockNothing(r) ==
  /\ Goto(r, "lock", "post")
  /\ UNCHANGED <<webhook, now, health, resp, mu, wire, received, reply, late>>

Lock(r) ==
  /\ mu = Nobody
  /\ Goto(r, "lock", "post")
  /\ mu' = r
  /\ UNCHANGED <<webhook, now, health, resp, wire, received, reply, late>>

(* Mutant of Post: the payload reports the present health.                  *)
PostPresentHealth(r) ==
  /\ Goto(r, "post", "await")
  /\ wire' = wire \cup {[req |-> r, ts |-> now, health |-> health]}
  /\ UNCHANGED <<webhook, now, health, resp, mu, received, reply, late>>

(* The payload is stamped, marshalled and sent.                             *)
Post(r) ==
  /\ Goto(r, "post", "await")
  /\ wire' = wire \cup {[req |-> r, ts |-> now, health |-> resp[r].health]}
  /\ UNCHANGED <<webhook, now, health, resp, mu, received, reply, late>>

(* Mutant of PostFails: an early return that forgets to unlock.             *)
PostGivesUp(r) ==
  /\ Goto(r, "post", "failed")
  /\ UNCHANGED <<webhook, now, health, resp, mu, wire, received, reply, late>>

(* Marshalling, NewRequest or connecting fails: nothing is sent.            *)
PostFails(r) ==
  /\ Goto(r, "post", "unlock")
  /\ UNCHANGED <<webhook, now, health, resp, mu, wire, received, reply, late>>

Receive(m) ==
  /\ wire' = wire \ {m}
  /\ received' = Append(received, m)
  /\ UNCHANGED <<webhook, now, health, pc, resp, mu, reply, late>>

Lose(m) ==
  /\ wire' = wire \ {m}
  /\ UNCHANGED <<webhook, now, health, pc, resp, mu, received, reply, late>>

(* The server's answer arrives; its status code is only logged.             *)
Answered(r) ==
  /\ \E i \in DOMAIN received : received[i].req = r
  /\ Goto(r, "await", "unlock")
  /\ UNCHANGED <<webhook, now, health, resp, mu, wire, received, reply, late>>

(* Mutants of Timeout: the post is sent again; the client has no timeout.   *)
TimeoutRetries(r) ==
  /\ r \notin late
  /\ Goto(r, "await", "post")
  /\ late' = late \cup {r}
  /\ UNCHANGED <<webhook, now, health, resp, mu, wire, received, reply>>

TimeoutNever(r) == r \notin Requests /\ UNCHANGED vars

(* Ten seconds without an answer, or a broken connection.                   *)
Timeout(r) ==
  /\ Goto(r, "await", "unlock")
  /\ late' = late \cup {r}
  /\ UNCHANGED <<webhook, now, health, resp, mu, wire, received, reply>>

Unlock(r) ==
  /\ mu' = Nobody
  /\ Return(r, "unlock", resp[r].health)
  /\ UNCHANGED <<webhook, now, health, resp, wire, received, late>>

(* What the handler does by itself; the others wait for somebody.           *)
Step(r) ==
  \/ MethodNotAllowed(r) \/ Check(r) \/ Stamp(r) \/ Encode(r)
  \/ Post(r) \/ Timeout(r) \/ Unlock(r)

Next ==
  \/ Tick
  \/ Drift
  \/ \E r \in Requests :
       \/ Step(r)
       \/ EncodeFails(r)
       \/ Lock(r)
       \/ PostFails(r)
       \/ Answered(r)
  \/ \E m \in wire : Receive(m) \/ Lose(m)

(* Handlers run, a client timeout expires, and a mutex that is free again   *)
(* and again is taken; nothing is assumed of the webhook's server.          *)
Fairness == \A r \in Requests : WF_vars(Step(r)) /\ SF_vars(Lock(r))

Spec == Init /\ [][Next]_vars /\ Fairness

-----------------------------------------------------------------------------
(* Properties.                                                             *)

(* Type correctness.                                                       *)
Payload == [req : Requests, ts : Nat, health : Healths]

TypeOK ==
  /\ webhook \in BOOLEAN
  /\ now \in Nat
  /\ health \in Healths
  /\ pc \in [Requests -> {"new", "stamp", "encode", "lock", "post", "await", "unlock", "done"}]
  /\ resp \in [Requests -> [ts : Nat, health : Healths \cup {"none"}]]
  /\ mu \in Requests \cup {Nobody}
  /\ wire \subseteq Payload
  /\ received \in Seq(Payload)
  /\ reply \in [Requests -> Healths \cup {NoReply, NotAllowed, EmptyBody}]
  /\ late \subseteq Requests

(* As long as no post has timed out, the webhook's server receives the      *)
(* notifications in the order of their time stamps: the next one is sent    *)
(* only when the one before has been received.                              *)
InOrderUnlessLate ==
  late = {} =>
    /\ Cardinality(wire) <= 1
    /\ \A i, j \in DOMAIN received : i < j => received[i].ts <= received[j].ts

(* No check is notified twice, however late its post arrives.               *)
NotifiedAtMostOnce ==
  \A i, j \in DOMAIN received : i # j => received[i].req # received[j].req

(* The webhook is told only of checks whose client is told the same: never  *)
(* of a request that was rejected or whose response could not be encoded.   *)
SameForClientAndWebhook ==
  \A i \in DOMAIN received :
    LET r == received[i].req
    IN  reply[r] \in {NoReply, received[i].health} /\ resp[r].health = received[i].health

(* Every client gets an answer, whether the webhook's server answers or not,*)
(* although all handlers queue for one mutex to post.                       *)
EveryClientAnswered == \A r \in Requests : <>(reply[r] # NoReply)
=============================================================================

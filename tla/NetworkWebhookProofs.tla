------------------------ MODULE NetworkWebhookProofs ------------------------
(***************************************************************************)
(* Proofs about NetworkWebhook for any number of requests and any answers  *)
(* of the detector.                                                        *)
(***************************************************************************)
EXTENDS NetworkWebhook, FiniteSetTheorems, TLAPS

USE WebhookAssumption DEF vars

-----------------------------------------------------------------------------
(* Types.  What is posted and answered is the detector's verdict, since     *)
(* nothing of it is used before Check.                                      *)
CheckedInv ==
  \A r \in Requests : pc[r] \notin {"new", "done"} => resp[r].health \in Healths

TypeInv == TypeOK /\ CheckedInv

LEMMA TypeStep == TypeInv /\ [Next]_vars => TypeInv'
<1> SUFFICES ASSUME TypeInv, [Next]_vars PROVE TypeInv'
  OBVIOUS
<1> USE DEF TypeInv, TypeOK, CheckedInv
<1>1. CASE Tick
  BY <1>1 DEF Tick
<1>2. CASE Drift
  BY <1>2 DEF Drift
<1>3. ASSUME NEW r \in Requests, MethodNotAllowed(r) PROVE TypeInv'
  BY <1>3 DEF MethodNotAllowed, Return, Goto
<1>4. ASSUME NEW r \in Requests, Check(r) PROVE TypeInv'
  BY <1>4 DEF Check, Goto
<1>5. ASSUME NEW r \in Requests, Stamp(r) PROVE TypeInv'
  BY <1>5 DEF Stamp, Goto
<1>6. ASSUME NEW r \in Requests, Encode(r) PROVE TypeInv'
  <2>1. CASE webhook
    BY <1>6, <2>1 DEF Encode, Goto
  <2>2. CASE ~webhook
    BY <1>6, <2>2 DEF Encode, Return, Goto
  <2>3. QED
    BY <2>1, <2>2
<1>7. ASSUME NEW r \in Requests, EncodeFails(r) PROVE TypeInv'
  BY <1>7 DEF EncodeFails, Return, Goto
<1>8. ASSUME NEW r \in Requests, Lock(r) PROVE TypeInv'
  BY <1>8 DEF Lock, Goto
<1>9. ASSUME NEW r \in Requests, Post(r) PROVE TypeInv'
  <2>1. [req |-> r, ts |-> now, health |-> resp[r].health] \in Payload
    BY <1>9 DEF Post, Goto, Payload
  <2>2. QED
    BY <1>9, <2>1 DEF Post, Goto
<1>10. ASSUME NEW r \in Requests, PostFails(r) PROVE TypeInv'
  BY <1>10 DEF PostFails, Goto
<1>11. ASSUME NEW m \in wire, Receive(m) PROVE TypeInv'
  BY <1>11 DEF Receive
<1>12. ASSUME NEW m \in wire, Lose(m) PROVE TypeInv'
  BY <1>12 DEF Lose
<1>13. ASSUME NEW r \in Requests, Answered(r) PROVE TypeInv'
  BY <1>13 DEF Answered, Goto
<1>14. ASSUME NEW r \in Requests, Timeout(r) PROVE TypeInv'
  BY <1>14 DEF Timeout, Goto
<1>15. ASSUME NEW r \in Requests, Unlock(r) PROVE TypeInv'
  BY <1>15 DEF Unlock, Return, Goto
<1>16. CASE UNCHANGED vars
  BY <1>16
<1>17. QED
  BY <1>1, <1>2, <1>3, <1>4, <1>5, <1>6, <1>7, <1>8, <1>9, <1>10, <1>11, <1>12,
     <1>13, <1>14, <1>15, <1>16 DEF Next, Step

LEMMA InitTypes == Init => TypeInv
BY DEF Init, TypeInv, TypeOK, CheckedInv, Payload, NoResponse, NoReply

(* Type correctness of every reachable state.                               *)
THEOREM TypeCorrect == Spec => []TypeOK
BY InitTypes, TypeStep, PTL DEF Spec, TypeInv

-----------------------------------------------------------------------------
(* What the posts say of their handlers.  A post that is under way or has   *)
(* arrived is the only one of its request, and the handler is past it; as   *)
(* it was answered by nobody before, the client is told the same.           *)
Sent(m) ==
  /\ pc[m.req] \in {"await", "unlock", "done"}
  /\ resp[m.req].health = m.health
  /\ m.ts <= now
  /\ reply[m.req] \in {NoReply, m.health}

ReplyInv == \A r \in Requests : pc[r] # "done" => reply[r] = NoReply

SentInv ==
  /\ \A m \in wire : Sent(m)
  /\ \A i \in DOMAIN received : Sent(received[i])

OnceInv ==
  /\ \A m, n \in wire : m.req = n.req => m = n
  /\ \A m \in wire, i \in DOMAIN received : received[i].req # m.req
  /\ NotifiedAtMostOnce

(* Who has the mutex, and, as long as nobody is late, what that means: the  *)
(* post under way is that of the holder, who still waits for it.            *)
MutexInv ==
  \A r \in Requests : pc[r] \in {"post", "await", "unlock"} => mu = r

OrderInv ==
  late = {} =>
    /\ \A m \in wire : pc[m.req] = "await"
    /\ \A m \in wire, i \in DOMAIN received : received[i].ts <= m.ts
    /\ \A i, j \in DOMAIN received : i < j => received[i].ts <= received[j].ts

Inv == ReplyInv /\ SentInv /\ OnceInv /\ MutexInv /\ OrderInv

LEMMA AppendedTo ==
  ASSUME NEW S, NEW s \in Seq(S), NEW m \in S
  PROVE  /\ Append(s, m) \in Seq(S)
         /\ DOMAIN Append(s, m) = DOMAIN s \cup {Len(s) + 1}
         /\ Len(s) + 1 \notin DOMAIN s
         /\ \A i \in DOMAIN s : Append(s, m)[i] = s[i] /\ i < Len(s) + 1
         /\ Append(s, m)[Len(s) + 1] = m
OBVIOUS

LEMMA ReceivedPayloads ==
  TypeInv => \A i \in DOMAIN received : received[i] \in Payload
BY DEF TypeInv, TypeOK

LEMMA InitInv == Init => Inv
<1> SUFFICES ASSUME Init PROVE Inv
  OBVIOUS
<1>1. wire = {} /\ DOMAIN received = {}
  BY DEF Init
<1>2. QED
  BY <1>1 DEF Init, Inv, ReplyInv, SentInv, OnceInv, NotifiedAtMostOnce, MutexInv, OrderInv

(* A step of handler r that leaves wire, received and the clock alone and   *)
(* does not end its response.                                               *)
LEMMA HandlerStep ==
  ASSUME TypeInv, Inv, NEW r \in Requests, NEW s,
         pc' = [pc EXCEPT ![r] = s], s \in {"stamp", "encode", "lock", "post", "unlock", "done"},
         wire' = wire, received' = received, now' = now,
         \A q \in Requests \ {r} : resp'[q] = resp[q] /\ reply'[q] = reply[q],
         pc[r] \in {"await", "unlock"} => s \in {"unlock", "done"} /\ resp'[r] = resp[r],
         pc[r] # "done",
         s = "done" => \/ pc[r] \in {"new", "encode"}
                       \/ pc[r] = "unlock" /\ reply'[r] = resp[r].health,
         s # "done" => reply'[r] = reply[r]
  PROVE  ReplyInv' /\ SentInv' /\ OnceInv'
<1> USE DEF TypeInv, TypeOK, Inv, Payload
<1>1. ReplyInv'
  BY DEF ReplyInv
<1>2. ASSUME NEW m \in Payload, Sent(m) PROVE Sent(m)'
  <2>1. CASE m.req = r
    BY <1>2, <2>1 DEF Sent, ReplyInv
  <2>2. CASE m.req # r
    BY <1>2, <2>2 DEF Sent
  <2>3. QED
    BY <2>1, <2>2
<1>3. SentInv'
  <2>1. ASSUME NEW m \in wire' PROVE Sent(m)'
    <3>1. m \in Payload /\ Sent(m)
      BY DEF SentInv
    <3>2. QED
      BY <3>1, <1>2
  <2>2. \A i \in DOMAIN received : received[i] \in Payload /\ Sent(received[i])
    BY ReceivedPayloads DEF SentInv
  <2>3. ASSUME NEW i \in DOMAIN received' PROVE Sent(received[i])'
    <3>1. PICK m \in Payload : m = received[i] /\ m = received'[i] /\ Sent(m)
      BY <2>2
    <3>2. Sent(m)'
      BY <1>2, <3>1
    <3>3. QED
      BY <3>1, <3>2 DEF Sent
  <2>4. QED
    BY <2>1, <2>3 DEF SentInv
<1>4. OnceInv'
  BY DEF OnceInv, NotifiedAtMostOnce
<1>5. QED
  BY <1>1, <1>3, <1>4

LEMMA InvStep == TypeInv /\ Inv /\ [Next]_vars => Inv'
<1> SUFFICES ASSUME TypeInv, Inv, [Next]_vars PROVE Inv'
  OBVIOUS
<1> USE DEF TypeInv, TypeOK, Inv
<1>1. CASE Tick
  <2>1. ReplyInv' /\ OnceInv' /\ MutexInv' /\ OrderInv'
    BY <1>1 DEF Tick, ReplyInv, OnceInv, NotifiedAtMostOnce, MutexInv, OrderInv
  <2>2. \A m \in Payload : m.ts <= now => m.ts <= now'
    BY <1>1 DEF Tick, Payload
  <2>3. \A i \in DOMAIN received : received[i] \in Payload
    BY ReceivedPayloads
  <2>4. SentInv'
    BY <1>1, <2>2, <2>3 DEF Tick, SentInv, Sent
  <2>5. QED
    BY <2>1, <2>4
<1>2. CASE Drift
  BY <1>2 DEF Drift, ReplyInv, SentInv, Sent, OnceInv, NotifiedAtMostOnce, MutexInv, OrderInv
<1>3. ASSUME NEW r \in Requests, MethodNotAllowed(r) PROVE Inv'
  <2>1. ReplyInv' /\ SentInv' /\ OnceInv'
    BY <1>3, HandlerStep DEF MethodNotAllowed, Return, Goto
  <2>2. MutexInv' /\ OrderInv'
    BY <1>3 DEF MethodNotAllowed, Return, Goto, MutexInv, OrderInv, Payload
  <2>3. QED
    BY <2>1, <2>2
<1>4. ASSUME NEW r \in Requests, Check(r) PROVE Inv'
  <2>1. ReplyInv' /\ SentInv' /\ OnceInv'
    BY <1>4, HandlerStep DEF Check, Goto
  <2>2. MutexInv' /\ OrderInv'
    BY <1>4 DEF Check, Goto, MutexInv, OrderInv, Payload
  <2>3. QED
    BY <2>1, <2>2
<1>5. ASSUME NEW r \in Requests, Stamp(r) PROVE Inv'
  <2>1. ReplyInv' /\ SentInv' /\ OnceInv'
    BY <1>5, HandlerStep DEF Stamp, Goto
  <2>2. MutexInv' /\ OrderInv'
    BY <1>5 DEF Stamp, Goto, MutexInv, OrderInv, Payload
  <2>3. QED
    BY <2>1, <2>2
<1>6. ASSUME NEW r \in Requests, Encode(r) PROVE Inv'
  <2>1. ReplyInv' /\ SentInv' /\ OnceInv'
    <3>1. CASE webhook
      BY <1>6, <3>1, HandlerStep DEF Encode, Goto
    <3>2. CASE ~webhook
      BY <1>6, <3>2, HandlerStep DEF Encode, Return, Goto
    <3>3. QED
      BY <3>1, <3>2
  <2>2. MutexInv' /\ OrderInv'
    BY <1>6 DEF Encode, Return, Goto, MutexInv, OrderInv, Payload
  <2>3. QED
    BY <2>1, <2>2
<1>7. ASSUME NEW r \in Requests, EncodeFails(r) PROVE Inv'
  <2>1. ReplyInv' /\ SentInv' /\ OnceInv'
    BY <1>7, HandlerStep DEF EncodeFails, Return, Goto
  <2>2. MutexInv' /\ OrderInv'
    BY <1>7 DEF EncodeFails, Return, Goto, MutexInv, OrderInv, Payload
  <2>3. QED
    BY <2>1, <2>2
<1>8. ASSUME NEW r \in Requests, Lock(r) PROVE Inv'
  <2>1. ReplyInv' /\ SentInv' /\ OnceInv'
    BY <1>8, HandlerStep DEF Lock, Goto
  <2>2. MutexInv' /\ OrderInv'
    BY <1>8 DEF Lock, Goto, MutexInv, OrderInv, Payload
  <2>3. QED
    BY <2>1, <2>2
<1>9. ASSUME NEW r \in Requests, Post(r) PROVE Inv'
  <2> DEFINE new == [req |-> r, ts |-> now, health |-> resp[r].health]
  <2>1. /\ pc[r] = "post" /\ pc' = [pc EXCEPT ![r] = "await"]
        /\ wire' = wire \cup {new} /\ received' = received /\ now' = now
        /\ resp' = resp /\ reply' = reply /\ mu' = mu /\ late' = late
    BY <1>9 DEF Post, Goto
  <2>2. ReplyInv'
    BY <2>1 DEF ReplyInv
  <2>3. \A m \in Payload : Sent(m) => Sent(m)' /\ m.req # r
    BY <2>1 DEF Sent, Payload
  <2>4. Sent(new)'
    BY <2>1 DEF Sent, ReplyInv
  <2>5. SentInv'
    BY <2>1, <2>3, <2>4 DEF SentInv
  <2>6. OnceInv'
    BY <2>1, <2>3 DEF OnceInv, NotifiedAtMostOnce, SentInv
  <2>7. MutexInv'
    BY <2>1 DEF MutexInv
  <2>8. OrderInv'
    BY <2>1, <2>3 DEF OrderInv, SentInv, Sent, Payload
  <2>9. QED
    BY <2>2, <2>5, <2>6, <2>7, <2>8
<1>10. ASSUME NEW r \in Requests, PostFails(r) PROVE Inv'
  <2>1. ReplyInv' /\ SentInv' /\ OnceInv'
    BY <1>10, HandlerStep DEF PostFails, Goto
  <2>2. MutexInv' /\ OrderInv'
    BY <1>10 DEF PostFails, Goto, MutexInv, OrderInv, Payload
  <2>3. QED
    BY <2>1, <2>2
<1>11. ASSUME NEW m \in wire, Receive(m) PROVE Inv'
  <2>1. /\ wire' = wire \ {m} /\ received' = Append(received, m)
        /\ pc' = pc /\ now' = now /\ resp' = resp /\ reply' = reply /\ mu' = mu /\ late' = late
    BY <1>11 DEF Receive
  <2> DEFINE last == Len(received) + 1
  <2>2. /\ DOMAIN received' = DOMAIN received \cup {last} /\ last \notin DOMAIN received
        /\ \A i \in DOMAIN received : received'[i] = received[i] /\ i < last
        /\ received'[last] = m
    BY <2>1, AppendedTo
  <2>3. ReplyInv' /\ MutexInv'
    BY <2>1 DEF ReplyInv, MutexInv
  <2>4. SentInv'
    BY <2>1, <2>2 DEF SentInv, Sent
  <2>5. OnceInv'
    <3>1. \A n \in wire', i \in DOMAIN received' : received'[i].req # n.req
      BY <2>1, <2>2 DEF OnceInv
    <3>2. NotifiedAtMostOnce'
      BY <2>1, <2>2 DEF OnceInv, NotifiedAtMostOnce
    <3>3. QED
      BY <2>1, <3>1, <3>2 DEF OnceInv
  <2>6. OrderInv'
    <3> SUFFICES ASSUME late = {} PROVE OrderInv'
      BY <2>1 DEF OrderInv
    <3>1. \A n \in wire : n = m
      BY DEF OrderInv, MutexInv, OnceInv, Payload
    <3>2. wire' = {}
      BY <2>1, <3>1
    <3>3. \A i, j \in DOMAIN received' : i < j => received'[i].ts <= received'[j].ts
      <4>1. \A i \in DOMAIN received : ~ last < i
        BY <2>2
      <4>2. QED
        BY <2>2, <4>1 DEF OrderInv
    <3>4. QED
      BY <3>2, <3>3 DEF OrderInv
  <2>7. QED
    BY <2>3, <2>4, <2>5, <2>6
<1>12. ASSUME NEW m \in wire, Lose(m) PROVE Inv'
  BY <1>12 DEF Lose, ReplyInv, SentInv, Sent, OnceInv, NotifiedAtMostOnce, MutexInv, OrderInv
<1>13. ASSUME NEW r \in Requests, Answered(r) PROVE Inv'
  <2>1. ReplyInv' /\ SentInv' /\ OnceInv'
    BY <1>13, HandlerStep DEF Answered, Goto
  <2>2. \A m \in wire : m.req # r
    BY <1>13 DEF Answered, OnceInv
  <2>3. MutexInv' /\ OrderInv'
    BY <1>13, <2>2 DEF Answered, Goto, MutexInv, OrderInv, Payload
  <2>4. QED
    BY <2>1, <2>3
<1>14. ASSUME NEW r \in Requests, Timeout(r) PROVE Inv'
  <2>1. ReplyInv' /\ SentInv' /\ OnceInv'
    BY <1>14, HandlerStep DEF Timeout, Goto
  <2>2. MutexInv' /\ OrderInv'
    BY <1>14 DEF Timeout, Goto, MutexInv, OrderInv
  <2>3. QED
    BY <2>1, <2>2
<1>15. ASSUME NEW r \in Requests, Unlock(r) PROVE Inv'
  <2>1. ReplyInv' /\ SentInv' /\ OnceInv'
    BY <1>15, HandlerStep DEF Unlock, Return, Goto
  <2>2. MutexInv' /\ OrderInv'
    BY <1>15 DEF Unlock, Return, Goto, MutexInv, OrderInv, Payload
  <2>3. QED
    BY <2>1, <2>2
<1>16. CASE UNCHANGED vars
  BY <1>16 DEF ReplyInv, SentInv, Sent, OnceInv, NotifiedAtMostOnce, MutexInv, OrderInv
<1>17. QED
  BY <1>1, <1>2, <1>3, <1>4, <1>5, <1>6, <1>7, <1>8, <1>9, <1>10, <1>11, <1>12,
     <1>13, <1>14, <1>15, <1>16 DEF Next, Step

LEMMA Safety == Spec => [](TypeInv /\ Inv)
BY InitTypes, TypeStep, InitInv, InvStep, PTL DEF Spec

-----------------------------------------------------------------------------
(* A check is notified at most once, however late its post arrives.         *)
THEOREM NeverTwice == Spec => []NotifiedAtMostOnce
<1>1. Inv => NotifiedAtMostOnce
  BY DEF Inv, OnceInv
<1>2. QED
  BY <1>1, Safety, PTL

(* Client and webhook are told the same of a check.                         *)
THEOREM SameStory == Spec => []SameForClientAndWebhook
<1>1. TypeInv /\ Inv => SameForClientAndWebhook
  BY DEF Inv, SentInv, Sent, SameForClientAndWebhook
<1>2. QED
  BY <1>1, Safety, PTL

(* Notifications arrive in order while no post has timed out.               *)
THEOREM OrderedUnlessLate == Spec => []InOrderUnlessLate
<1>1. TypeInv /\ Inv => InOrderUnlessLate
  <2> SUFFICES ASSUME TypeInv, Inv, late = {} PROVE InOrderUnlessLate
    BY DEF InOrderUnlessLate
  <2>1. \A m, n \in wire : m = n
    BY DEF Inv, OrderInv, MutexInv, OnceInv, TypeInv, TypeOK, Payload
  <2>2. wire = {} \/ \E m : wire = {m}
    BY <2>1
  <2>3. Cardinality(wire) <= 1
    <3>1. CASE wire = {}
      BY <3>1, FS_EmptySet
    <3>2. CASE \E m : wire = {m}
      BY <3>2, FS_Singleton
    <3>3. QED
      BY <2>2, <3>1, <3>2
  <2>4. QED
    BY <2>3 DEF Inv, OrderInv, InOrderUnlessLate
<1>2. QED
  BY <1>1, Safety, PTL
-----------------------------------------------------------------------------
(* Deadlock.  A handler waits when it is at Lock() and n.mu is held.        *)
Waiting(r) == pc[r] = "lock" /\ mu # Nobody

NeverAllWait ==
  (\E r \in Requests : pc[r] # "done") => \E r \in Requests : pc[r] # "done" /\ ~Waiting(r)

(* The mutex is never left locked: its holder is on its way to Unlock.      *)
HeldInv == mu # Nobody => pc[mu] \in {"post", "await", "unlock"}

LEMMA HolderIsKept == Spec => []HeldInv
<1>1. Init => HeldInv
  BY DEF Init, HeldInv
<1>2. TypeInv /\ Inv /\ HeldInv /\ [Next]_vars => HeldInv'
  <2> SUFFICES ASSUME TypeInv, Inv, HeldInv, [Next]_vars PROVE HeldInv'
    OBVIOUS
  <2> USE DEF TypeInv, TypeOK, HeldInv
  <2>1. ASSUME NEW r \in Requests, Lock(r) PROVE HeldInv'
    BY <2>1 DEF Lock, Goto
  <2>2. ASSUME NEW r \in Requests, Unlock(r) PROVE HeldInv'
    BY <2>2 DEF Unlock
  <2>3. ASSUME NEW r \in Requests, mu' = mu, NEW s, pc' = [pc EXCEPT ![r] = s],
               pc[r] \in {"post", "await", "unlock"} => s \in {"post", "await", "unlock"}
        PROVE  HeldInv'
    BY <2>3
  <2>4. ASSUME NEW r \in Requests,
               \/ MethodNotAllowed(r) \/ Check(r) \/ Stamp(r) \/ Encode(r) \/ EncodeFails(r)
        PROVE  HeldInv'
    BY <2>3, <2>4 DEF MethodNotAllowed, Check, Stamp, Encode, EncodeFails, Return, Goto
  <2>5. ASSUME NEW r \in Requests, Post(r) \/ PostFails(r) \/ Answered(r) \/ Timeout(r)
        PROVE  HeldInv'
    BY <2>3, <2>5 DEF Post, PostFails, Answered, Timeout, Goto
  <2>6. CASE Tick \/ Drift \/ (\E m \in wire : Receive(m) \/ Lose(m)) \/ UNCHANGED vars
    BY <2>6 DEF Tick, Drift, Receive, Lose
  <2>7. QED
    BY <2>1, <2>2, <2>4, <2>5, <2>6 DEF Next, Step
<1>3. QED
  BY <1>1, <1>2, Safety, PTL DEF Spec

(* However many handlers queue for the webhook's mutex, one that is not     *)
(* finished waits for no other.                                             *)
THEOREM SomebodyCanGoOn == Spec => []NeverAllWait
<1>1. TypeInv /\ HeldInv => NeverAllWait
  BY DEF TypeInv, TypeOK, HeldInv, NeverAllWait, Waiting
<1>2. QED
  BY <1>1, Safety, HolderIsKept, PTL
=============================================================================

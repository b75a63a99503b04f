-------------------------- MODULE RemediationProofs --------------------------
(***************************************************************************)
(* Proofs about Remediation for any number of callers and controllers, all *)
(* thresholds and all readings.                                            *)
(***************************************************************************)
EXTENDS Remediation, TLAPS

USE DEF vars

LEMMA HealthIsAStatus == Health \in Statuses /\ Health' \in Statuses
BY DEF Health, Statuses, RAIDCheckSubHealth, Override, Queued, Slow, Retrying, Verdict, Fine

LEMMA ErrorValues ==
  /\ New(Nil) = Nil
  /\ Wrap(QueueOverflow) = QueueOverflow
  /\ Is(QueueOverflow, "ERR_QUEUE_OVERFLOW")
BY DEF New, Wrap, Nil, QueueOverflow, Coded, Leaf, Plain, IsCustom, Is

LEMMA AnswerTypes ==
  /\ Unanswered \in Answers
  /\ Answer("", FALSE, New(Nil)) \in Answers
  /\ Answer("", FALSE, Wrap(QueueOverflow)) \in Answers
  /\ Answer("isolation skipped", FALSE, Nil) \in Answers
  /\ Answer("no action", TRUE, Nil) \in Answers
  /\ Answer("recovery failed", FALSE, Nil) \in Answers
  /\ Answer("isolated", TRUE, Nil) \in Answers
  /\ Answer("recovered", TRUE, Nil) \in Answers
BY ErrorValues DEF Answers, Answer, Unanswered

LEMMA ReturnTypes ==
  ASSUME TypeOK, NEW p \in Callers, NEW a \in Answers, Return(p, a)
  PROVE  /\ pc' \in [Callers -> {"idle", "called", "act"}]
         /\ seen' \in [Callers -> {"unknown"} \cup Statuses]
         /\ since' \in [Callers -> SUBSET Statuses]
         /\ res' \in [Callers -> Answers]
BY DEF TypeOK, Return

(* Type correctness of every reachable state.                               *)
THEOREM TypeCorrect == Spec => []TypeOK
<1>1. Init => TypeOK
  <2> SUFFICES ASSUME Init PROVE TypeOK
    OBVIOUS
  <2>1. auto \in BOOLEAN /\ errors \in Nat
    BY DEF Init
  <2>2. QED
    BY <2>1, AnswerTypes DEF Init, TypeOK
<1>2. TypeOK /\ [Next]_vars => TypeOK'
  <2> SUFFICES ASSUME TypeOK, [Next]_vars PROVE TypeOK'
    OBVIOUS
  <2>1. CASE Drift
    BY <2>1, HealthIsAStatus DEF Drift, TypeOK
  <2>2. ASSUME NEW p \in Callers, NEW r \in Request, Call(p, r) PROVE TypeOK'
    BY <2>2, AnswerTypes, HealthIsAStatus DEF Call, TypeOK
  <2>3. ASSUME NEW p \in Callers, Refuse(p) PROVE TypeOK'
    <3>1. \E a \in Answers : Return(p, a)
      BY <2>3, AnswerTypes DEF Refuse
    <3>2. QED
      BY <2>3, <3>1, ReturnTypes DEF Refuse, TypeOK
  <2>4. ASSUME NEW p \in Callers, CheckSubHealth(p) PROVE TypeOK'
    <3>1. CASE Needed(p)
      BY <2>4, <3>1, HealthIsAStatus DEF CheckSubHealth, TypeOK
    <3>2. CASE ~Needed(p)
      <4>1. \E a \in Answers : Return(p, a)
        BY <2>4, <3>2, AnswerTypes DEF CheckSubHealth
      <4>2. QED
        BY <2>4, <4>1, ReturnTypes DEF CheckSubHealth, TypeOK
    <3>3. QED
      BY <3>1, <3>2
  <2>5. ASSUME NEW p \in Callers, CheckFails(p) PROVE TypeOK'
    <3>1. \E a \in Answers : Return(p, a)
      BY <2>5, AnswerTypes DEF CheckFails
    <3>2. errors' \in Nat
      <4>1. errors \in Nat
        BY DEF TypeOK
      <4>2. errors' = errors + 1
        BY <2>5 DEF CheckFails
      <4>3. QED
        BY <4>1, <4>2
    <3>3. auto' \in BOOLEAN
      BY <2>5, Zenon DEF CheckFails, TypeOK
    <3>4. QED
      BY <2>5, <3>1, <3>2, <3>3, ReturnTypes DEF CheckFails, TypeOK
  <2>6. ASSUME NEW p \in Callers, Act(p) PROVE TypeOK'
    <3>1. \E a \in Answers : Return(p, a)
      BY <2>6, AnswerTypes DEF Act
    <3>2. isolated' \subseteq Controllers
      BY <2>6 DEF Act, TypeOK, Request
    <3>3. QED
      BY <2>6, <3>1, <3>2, ReturnTypes DEF Act, TypeOK
  <2>7. CASE UNCHANGED vars
    BY <2>7 DEF TypeOK
  <2>8. QED
    BY <2>1, <2>2, <2>3, <2>4, <2>5, <2>6, <2>7 DEF Next
<1>3. QED
  BY <1>1, <1>2, PTL DEF Spec

-----------------------------------------------------------------------------
(* A call that is about to act has met, since it began, the health that     *)
(* justifies its action, though the health may have changed again.          *)
DiagnosisInv ==
  \A p \in Callers :
    /\ pc[p] # "idle" => Health \in since[p]
    /\ pc[p] = "act" /\ req[p].op = "isolate" => auto /\ \E h \in since[p] : h # "Healthy"
    /\ pc[p] = "act" /\ req[p].op = "recover" => "Healthy" \in since[p]

LEMMA Diagnosed == Spec => []DiagnosisInv
<1>1. Init => DiagnosisInv
  BY DEF Init, DiagnosisInv
<1>2. TypeOK /\ DiagnosisInv /\ [Next]_vars => DiagnosisInv'
  <2> SUFFICES ASSUME TypeOK, DiagnosisInv, [Next]_vars PROVE DiagnosisInv'
    OBVIOUS
  <2> USE DEF TypeOK, DiagnosisInv
  <2>1. CASE Drift
    BY <2>1 DEF Drift
  <2>2. ASSUME NEW p \in Callers, NEW r \in Request, Call(p, r) PROVE DiagnosisInv'
    BY <2>2 DEF Call, Health
  <2>3. ASSUME NEW p \in Callers, Refuse(p) PROVE DiagnosisInv'
    BY <2>3 DEF Refuse, Return, Health
  <2>4. ASSUME NEW p \in Callers, CheckSubHealth(p) PROVE DiagnosisInv'
    <3>1. Health' = Health
      BY <2>4 DEF CheckSubHealth, Health
    <3>2. CASE Needed(p)
      BY <2>4, <3>1, <3>2 DEF CheckSubHealth, Needed, Skipped, Request
    <3>3. CASE ~Needed(p)
      BY <2>4, <3>1, <3>3 DEF CheckSubHealth, Return
    <3>4. QED
      BY <3>2, <3>3
  <2>5. ASSUME NEW p \in Callers, CheckFails(p) PROVE DiagnosisInv'
    BY <2>5 DEF CheckFails, Return, Health
  <2>6. ASSUME NEW p \in Callers, Act(p) PROVE DiagnosisInv'
    BY <2>6 DEF Act, Return, Health
  <2>7. CASE UNCHANGED vars
    BY <2>7 DEF Health
  <2>8. QED
    BY <2>1, <2>2, <2>3, <2>4, <2>5, <2>6, <2>7 DEF Next
<1>3. QED
  BY <1>1, <1>2, TypeCorrect, PTL DEF Spec

(* No call acts on a diagnosis that is older than itself, however many      *)
(* callers there are and however the metrics change.                        *)
THEOREM NoStaleDiagnosis == Spec => EffectsAreJustified
<1> DEFINE Justified(d) ==
      \E p \in Callers :
        /\ pc[p] = "act" /\ pc'[p] = "idle" /\ req[p].dev = d
        /\ IF d \in isolated' THEN auto /\ since[p] # {"Healthy"}
           ELSE "Healthy" \in since[p]
<1>1. ASSUME TypeOK, DiagnosisInv, [Next]_vars, NEW d \in Controllers,
             (d \in isolated) # (d \in isolated')
      PROVE  Justified(d)
  <2>1. isolated' # isolated
    BY <1>1
  <2>2. PICK p \in Callers : Act(p)
    BY <1>1, <2>1 DEF Next, Drift, Call, Refuse, CheckSubHealth, CheckFails
  <2>3. pc[p] = "act" /\ pc'[p] = "idle"
    BY <1>1, <2>2 DEF Act, Return, TypeOK
  <2>4. CASE req[p].op = "isolate"
    <3>1. isolated' = isolated \cup {req[p].dev}
      BY <2>2, <2>4 DEF Act
    <3>2. req[p].dev = d /\ d \in isolated'
      BY <1>1, <3>1
    <3>3. auto /\ since[p] # {"Healthy"}
      BY <1>1, <2>3, <2>4 DEF DiagnosisInv
    <3>4. QED
      BY <2>3, <3>2, <3>3
  <2>5. CASE req[p].op = "recover"
    <3>1. isolated' = isolated \ {req[p].dev}
      BY <2>2, <2>5 DEF Act
    <3>2. req[p].dev = d /\ d \notin isolated'
      BY <1>1, <3>1
    <3>3. "Healthy" \in since[p]
      BY <1>1, <2>3, <2>5 DEF DiagnosisInv
    <3>4. QED
      BY <2>3, <3>2, <3>3
  <2>6. QED
    BY <2>2, <2>4, <2>5 DEF Act
<1>2. TypeOK /\ DiagnosisInv /\ [Next]_vars
        => [\A d \in Controllers : (d \in isolated) # (d \in isolated') => Justified(d)]_vars
  BY <1>1
<1>3. QED
  BY <1>2, TypeCorrect, Diagnosed, PTL DEF Spec, EffectsAreJustified

-----------------------------------------------------------------------------
(* What a call that has returned may have answered.                         *)
ErrorInv == \A p \in Callers : res[p].err \in {Nil, QueueOverflow} /\
                               (res[p].err # Nil => res[p] = Answer("", FALSE, QueueOverflow))

LEMMA ErrorsAreTheDetectors == Spec => []ErrorInv
<1> DEFINE Good == {Unanswered, Answer("", FALSE, New(Nil)), Answer("", FALSE, Wrap(QueueOverflow)),
                    Answer("isolation skipped", FALSE, Nil), Answer("no action", TRUE, Nil),
                    Answer("recovery failed", FALSE, Nil), Answer("isolated", TRUE, Nil),
                    Answer("recovered", TRUE, Nil)}
<1>1. \A a \in Good : a.err \in {Nil, QueueOverflow}
                       /\ (a.err # Nil => a = Answer("", FALSE, QueueOverflow))
  <2>1. \A action, success : Answer(action, success, Nil).err = Nil
    BY DEF Answer
  <2>2. Answer("", FALSE, QueueOverflow).err = QueueOverflow
    BY DEF Answer
  <2>3. Good = {Unanswered, Answer("", FALSE, Nil), Answer("", FALSE, QueueOverflow),
                Answer("isolation skipped", FALSE, Nil), Answer("no action", TRUE, Nil),
                Answer("recovery failed", FALSE, Nil), Answer("isolated", TRUE, Nil),
                Answer("recovered", TRUE, Nil)}
    BY ErrorValues, Zenon
  <2>4. QED
    BY <2>1, <2>2, <2>3 DEF Unanswered
<1> HIDE DEF Good
<1>2. Init => ErrorInv
  <2>1. Unanswered \in Good
    BY DEF Good
  <2>2. QED
    BY <1>1, <2>1 DEF Init, ErrorInv
<1>3. TypeOK /\ ErrorInv /\ [Next]_vars => ErrorInv'
  <2> SUFFICES ASSUME TypeOK, ErrorInv, [Next]_vars PROVE ErrorInv'
    OBVIOUS
  <2> USE DEF TypeOK, ErrorInv
  <2>1. ASSUME NEW p \in Callers, NEW a \in Good, res' = [res EXCEPT ![p] = a]
        PROVE  ErrorInv'
    BY <1>1, <2>1
  <2>2. ASSUME NEW p \in Callers, NEW r \in Request, Call(p, r) PROVE ErrorInv'
    BY <2>1, <2>2 DEF Call, Good
  <2>3. ASSUME NEW p \in Callers, Refuse(p) PROVE ErrorInv'
    BY <2>1, <2>3 DEF Refuse, Return, Good
  <2>4. ASSUME NEW p \in Callers, CheckSubHealth(p) PROVE ErrorInv'
    BY <2>1, <2>4 DEF CheckSubHealth, Return, Good
  <2>5. ASSUME NEW p \in Callers, CheckFails(p) PROVE ErrorInv'
    BY <2>1, <2>5 DEF CheckFails, Return, Good
  <2>6. ASSUME NEW p \in Callers, Act(p) PROVE ErrorInv'
    BY <2>1, <2>6 DEF Act, Return, Good
  <2>7. CASE Drift \/ UNCHANGED vars
    BY <2>7 DEF Drift
  <2>8. QED
    BY <2>2, <2>3, <2>4, <2>5, <2>6, <2>7 DEF Next
<1>4. QED
  BY <1>2, <1>3, TypeCorrect, PTL DEF Spec

(* Whoever is told of an error can tell what failed.                        *)
THEOREM ErrorsTellWhatFailed == Spec => []ErrorsKeepTheirCode
<1>1. ErrorInv => ErrorsKeepTheirCode
  <2> SUFFICES ASSUME ErrorInv, NEW p \in Callers, res[p].err # Nil
               PROVE  /\ Is(res[p].err, "ERR_QUEUE_OVERFLOW")
                      /\ ~res[p].success /\ res[p].action = ""
    BY DEF ErrorsKeepTheirCode
  <2>1. res[p] = Answer("", FALSE, QueueOverflow)
    BY DEF ErrorInv
  <2>2. res[p].err = QueueOverflow /\ ~res[p].success /\ res[p].action = ""
    <3> DEFINE a == Answer("", FALSE, QueueOverflow)
    <3>1. a.err = QueueOverflow /\ a.action = ""
      BY DEF Answer
    <3>2. ~a.success
      BY DEF Answer
    <3>3. QED
      BY <2>1, <3>1, <3>2, Zenon
  <2>3. Is(res[p].err, "ERR_QUEUE_OVERFLOW")
    BY ONLY <2>2, ErrorValues
  <2>4. QED
    BY <2>2, <2>3
<1>2. QED
  BY <1>1, ErrorsAreTheDetectors, PTL
=============================================================================

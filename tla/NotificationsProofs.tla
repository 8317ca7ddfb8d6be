------------------------- MODULE NotificationsProofs -------------------------
(* Theorems about the worker and RabbitMQ, alone and under the bookings, for  *)
(* every number of messages, attempts and faults.                             *)
EXTENDS CustomerMail, FiniteSetTheorems, TLAPS

(***************************************************************************)
(* Counting live runs.                                                     *)
(***************************************************************************)
LEMMA CountOfSubset ==
    ASSUME NEW S \in SUBSET (0..MaxFaults), NEW T \in SUBSET S
    PROVE  /\ Cardinality(S) \in Nat /\ Cardinality(T) \in Nat
           /\ Cardinality(T) <= Cardinality(S)
<1>1. IsFiniteSet(0..MaxFaults)
  BY FS_Interval, NotificationsAssumption
<1>2. IsFiniteSet(S) /\ IsFiniteSet(T)
  BY <1>1, FS_Subset
<1>3. QED
  BY <1>2, FS_CardinalityType, FS_Subset

\* One run more, one run less.
LEMMA CountWithout ==
    ASSUME NEW S \in SUBSET (0..MaxFaults), NEW k \in S
    PROVE  Cardinality(S \ {k}) = Cardinality(S) - 1
<1>1. IsFiniteSet(0..MaxFaults)
  BY FS_Interval, NotificationsAssumption
<1>2. IsFiniteSet(S)
  BY <1>1, FS_Subset
<1>3. QED
  BY <1>2, FS_RemoveElement

\* A run that is not live yet joins those that are.
LEMMA CountWith ==
    ASSUME NEW S \in SUBSET (0..MaxFaults), NEW k
    PROVE  Cardinality(S \cup {k}) <= Cardinality(S) + 1
<1>1. IsFiniteSet(0..MaxFaults)
  BY FS_Interval, NotificationsAssumption
<1>2. IsFiniteSet(S)
  BY <1>1, FS_Subset
<1>3. Cardinality(S) \in Nat
  BY <1>2, FS_CardinalityType
<1>4. QED
  BY <1>2, <1>3, FS_AddElement

(***************************************************************************)
(* What the invariant says of numbers, for the arithmetic below.           *)
(***************************************************************************)
LEMMA WorkerNumbers ==
    ASSUME WorkerInv
    PROVE  /\ MaxAttempts \in Nat \ {0} /\ MaxFaults \in Nat /\ faults \in Nat
           /\ \A m \in Messages :
                  /\ emails[m] \in Nat
                  /\ redelivered[m] \in 0..MaxFaults
                  /\ Live(m) \in SUBSET (0..MaxFaults)
                  /\ Cardinality(Live(m)) \in Nat
                  /\ CurrentRun(m) \in Runs
           /\ \A x \in Runs : attempts[x] \in 0..MaxAttempts
<1>1. TypeOK
  BY DEF WorkerInv
<1>2. \A m \in Messages : Live(m) \in SUBSET (0..MaxFaults)
  BY DEF Live
<1>3. \A m \in Messages : Cardinality(Live(m)) \in Nat
  BY <1>2, CountOfSubset
<1>4. QED
  BY <1>1, <1>2, <1>3, NotificationsAssumption DEF TypeOK, CurrentRun, Runs

\* What other parts of the process do: faults, if anything.
FaultsGoOn == faults' \in 0..MaxFaults /\ faults' >= faults

\* What leaves the messages and the handlers alone keeps the invariant.
LEMMA QuietInvariant ==
    ASSUME WorkerInv, FaultsGoOn,
           UNCHANGED <<added, broker, redelivered, stage, attempts, emails>>
    PROVE  WorkerInv'
<1>1. TypeOK'
  BY DEF WorkerInv, TypeOK, FaultsGoOn
<1>2. ASSUME NEW m \in Messages PROVE DeliveryShape(m)' /\ Budget(m)'
  <2>1. DeliveryShape(m) /\ Budget(m) /\ Live(m)' = Live(m)
    BY DEF WorkerInv, Live
  <2>2. faults' \in Nat
    BY NotificationsAssumption DEF FaultsGoOn
  <2>3. DeliveryShape(m)'
    BY <2>1, <2>2, WorkerNumbers DEF DeliveryShape, CurrentRun, FaultsGoOn
  <2>4. Budget(m)'
    BY <2>1, <2>2, WorkerNumbers DEF Budget, FaultsGoOn
  <2>5. QED
    BY <2>3, <2>4
<1>3. (\A x \in Runs : RunShape(x)') /\ ForgottenWithReason'
  BY DEF WorkerInv, RunShape, ForgottenWithReason, CurrentRun
<1>4. QED
  BY <1>1, <1>2, <1>3 DEF WorkerInv

\* The part of Budget for a message that a worker has yet to get.
Waiting(m) == IF broker[m] \in {"unpublished", "ready"} THEN 1 ELSE 0

(***************************************************************************)
(* A run of a handler goes on to stage s, with a attempts and e e-mails to *)
(* its customer, and may settle its delivery when it is done.              *)
(***************************************************************************)
RunMove(n, k, s, a, e) ==
    /\ stage' = [stage EXCEPT ![<<n, k>>] = s]
    /\ attempts' = [attempts EXCEPT ![<<n, k>>] = a]
    /\ emails' = [emails EXCEPT ![n] = e]
    /\ UNCHANGED <<added, redelivered>>
    /\ broker' \in [Messages -> {"unpublished", "ready", "unacked", "dead"} \cup Settled]
    /\ \A m \in Messages \ {n} : broker'[m] = broker[m]
    /\ \/ broker'[n] = broker[n]
       \/ /\ k = redelivered[n] /\ broker[n] = "unacked" /\ s = "done"
          /\ \/ broker'[n] = "acked" /\ e > 0
             \/ broker'[n] \in {"dead", "dropped"} /\ a = MaxAttempts

\* Whatever a run of a handler does keeps the invariant.
LEMMA RunInvariant ==
    ASSUME WorkerInv, FaultsGoOn,
           NEW n \in Messages, NEW k \in 0..MaxFaults,
           NEW s \in {"done"} \cup Running, NEW a \in 0..MaxAttempts, NEW e \in Nat,
           RunMove(n, k, s, a, e),
           stage[<<n, k>>] \in Running,
           s = "sent" => e > 0,
           s = "failed" => a = MaxAttempts,
           s = "sleeping" => a < MaxAttempts,
           s \in {"trying", "sleeping"} => stage[<<n, k>>] \in {"trying", "sleeping"},
           \/ e = emails[n]
           \/ e = emails[n] + 1 /\ faults' >= faults + 1
           \/ /\ e = emails[n] + 1
              /\ s \notin {"trying", "sleeping"}
              /\ stage[<<n, k>>] \in {"trying", "sleeping"}
    PROVE  WorkerInv'
<1> USE DEF RunMove
<1>1. /\ TypeOK /\ ForgottenWithReason
      /\ \A m \in Messages : DeliveryShape(m) /\ Budget(m)
      /\ \A x \in Runs : RunShape(x)
  BY DEF WorkerInv
<1>2. <<n, k>> \in Runs
  BY DEF Runs
<1>3. /\ stage'[<<n, k>>] = s /\ attempts'[<<n, k>>] = a
      /\ \A x \in Runs : x # <<n, k>> => stage'[x] = stage[x] /\ attempts'[x] = attempts[x]
      /\ emails'[n] = e /\ \A m \in Messages : m # n => emails'[m] = emails[m]
  BY <1>1, <1>2 DEF TypeOK
<1>4. /\ \A m \in Messages : \A i \in 0..MaxFaults :
             <<m, i>> \in Runs /\ (m # n \/ i # k => <<m, i>> # <<n, k>>)
      /\ e >= emails[n] /\ e \in Nat /\ emails[n] \in Nat
      /\ faults \in Nat /\ faults' \in Nat
  BY <1>1, WorkerNumbers, NotificationsAssumption DEF Runs, FaultsGoOn
<1>5. TypeOK'
  <2>1. stage' \in [Runs -> {"none", "done"} \cup Running]
    BY <1>1, <1>2 DEF TypeOK
  <2>2. attempts' \in [Runs -> 0..MaxAttempts] /\ emails' \in [Messages -> Nat]
    BY <1>1, <1>2 DEF TypeOK
  <2>3. QED
    BY <1>1, <2>1, <2>2 DEF TypeOK, FaultsGoOn
<1>6. ASSUME NEW m \in Messages PROVE DeliveryShape(m)'
  <2>1. DeliveryShape(m) /\ redelivered'[m] = redelivered[m] /\ redelivered[m] \in 0..MaxFaults
    BY <1>1, WorkerNumbers
  <2>2. redelivered[m] <= faults'
    BY <1>4, <2>1 DEF DeliveryShape, FaultsGoOn
  <2>3. \A i \in 0..MaxFaults : i > redelivered[m] => stage'[<<m, i>>] = "none"
    BY <1>3, <1>4, <2>1 DEF DeliveryShape, Running
  <2>4. broker'[m] \in {"unpublished", "ready"} => stage'[<<m, redelivered[m]>>] = "none"
    BY <1>3, <1>4, <2>1 DEF DeliveryShape, CurrentRun, Running
  <2>5. broker'[m] \in {"dead", "dropped", "logged"} => stage'[<<m, redelivered[m]>>] = "done"
    BY <1>3, <1>4, <2>1 DEF DeliveryShape, CurrentRun, Running
  <2>6. QED
    BY <2>1, <2>2, <2>3, <2>4, <2>5 DEF DeliveryShape, CurrentRun
<1>7. ASSUME NEW m \in Messages PROVE Budget(m)'
  <2>1. /\ Budget(m) /\ Live(m) \in SUBSET (0..MaxFaults)
        /\ Cardinality(Live(m)) \in Nat /\ emails[m] \in Nat
        /\ broker'[m] \in {"unpublished", "ready"} => broker'[m] = broker[m]
    BY <1>1, WorkerNumbers
  <2>2. CASE m # n
    <3>1. Live(m)' = Live(m) /\ emails'[m] = emails[m]
      BY <1>3, <1>4, <2>2 DEF Live
    <3>2. QED
      BY <1>4, <2>1, <3>1 DEF Budget, FaultsGoOn
  <2>3. CASE m = n
    <3>1. Live(n)' \subseteq Live(n) /\ Live(n)' \in SUBSET (0..MaxFaults)
      BY <1>3, <1>4 DEF Live
    <3>2. Cardinality(Live(n)') <= Cardinality(Live(n)) /\ Cardinality(Live(n)') \in Nat
      BY <2>1, <2>3, <3>1, CountOfSubset
    <3>3. CASE \/ e = emails[n]
               \/ e = emails[n] + 1 /\ faults' >= faults + 1
      BY <1>3, <1>4, <2>1, <2>3, <3>2, <3>3 DEF Budget, FaultsGoOn
    <3>4. CASE /\ e = emails[n] + 1
               /\ s \notin {"trying", "sleeping"}
               /\ stage[<<n, k>>] \in {"trying", "sleeping"}
      <4>1. Live(n)' = Live(n) \ {k} /\ k \in Live(n)
        BY <1>3, <1>4, <3>4 DEF Live
      <4>2. Cardinality(Live(n)') = Cardinality(Live(n)) - 1
        BY <2>1, <2>3, <4>1, CountWithout
      <4>3. Waiting(n)' <= Waiting(n) /\ Waiting(n) \in {0, 1} /\ Waiting(n)' \in {0, 1}
        BY <2>1, <2>3 DEF Waiting
      <4>4. emails[n] + Cardinality(Live(n)) + Waiting(n) <= 1 + faults
        BY <2>1, <2>3 DEF Budget, Waiting
      <4>5. emails'[n] + Cardinality(Live(n)') + Waiting(n)' <= 1 + faults'
        <5> HIDE DEF Live, Waiting, RunMove
        <5>1. /\ Cardinality(Live(n)) \in Nat /\ emails[n] \in Nat
              /\ emails'[n] = emails[n] + 1 /\ faults' >= faults
          BY <1>3, <1>4, <2>1, <2>3, <3>4 DEF FaultsGoOn
        <5>2. QED
          BY <1>4, <4>2, <4>3, <4>4, <5>1
      <4>6. QED
        BY <2>3, <4>5 DEF Budget, Waiting
    <3>5. QED
      BY <3>3, <3>4
  <2>4. QED
    BY <2>2, <2>3
<1>8. ASSUME NEW x \in Runs PROVE RunShape(x)'
  <2>1. CASE x = <<n, k>>
    BY <1>3, <2>1 DEF RunShape
  <2>2. CASE x # <<n, k>>
    <3>1. x[1] \in Messages /\ emails[x[1]] \in Nat /\ emails'[x[1]] >= emails[x[1]]
      BY <1>3, <1>4, WorkerNumbers DEF Runs
    <3>2. emails'[x[1]] \in Nat
      BY <1>5, <3>1 DEF TypeOK
    <3>3. QED
      BY <1>1, <1>3, <2>2, <3>1, <3>2 DEF RunShape
  <2>3. QED
    BY <2>1, <2>2
<1>9. ForgottenWithReason'
  <2> SUFFICES ASSUME NEW m \in Messages
               PROVE  /\ broker'[m] = "acked" => emails'[m] > 0
                      /\ broker'[m] \in {"dead", "dropped", "logged"} =>
                             attempts'[<<m, redelivered[m]>>] = MaxAttempts
    BY DEF ForgottenWithReason, CurrentRun
  <2>1. /\ broker[m] = "acked" => emails[m] > 0
        /\ broker[m] \in {"dead", "dropped", "logged"} =>
               /\ attempts[<<m, redelivered[m]>>] = MaxAttempts
               /\ stage[<<m, redelivered[m]>>] = "done"
        /\ redelivered[m] \in 0..MaxFaults /\ emails[m] \in Nat
    BY <1>1, WorkerNumbers DEF ForgottenWithReason, CurrentRun, DeliveryShape
  <2>2. CASE m # n
    BY <1>3, <1>4, <2>1, <2>2
  <2>3. CASE m = n
    BY <1>3, <1>4, <2>1, <2>3 DEF Running
  <2>4. QED
    BY <2>2, <2>3
<1>10. QED
  BY <1>5, <1>6, <1>7, <1>8, <1>9 DEF WorkerInv

(***************************************************************************)
(* What RabbitMQ does with messages that no run of a handler is changed    *)
(* by: it takes a published one, logs a dead one, loses some.              *)
(***************************************************************************)
BrokerMove ==
    /\ UNCHANGED <<added, redelivered, stage, attempts, emails>>
    /\ broker' \in [Messages -> {"unpublished", "ready", "unacked", "dead"} \cup Settled]
    /\ \A m \in Messages :
           \/ broker'[m] = broker[m]
           \/ broker[m] = "unpublished" /\ broker'[m] = "ready"
           \/ broker[m] = "dead" /\ broker'[m] = "logged"
           \/ broker'[m] = "lost"

\* These moves of RabbitMQ keep the invariant.
LEMMA BrokerInvariant ==
    ASSUME WorkerInv, FaultsGoOn, BrokerMove
    PROVE  WorkerInv'
<1> USE DEF BrokerMove
<1>1. TypeOK'
  BY DEF WorkerInv, TypeOK, FaultsGoOn
<1>2. faults \in Nat /\ faults' \in Nat
  BY WorkerNumbers, NotificationsAssumption DEF FaultsGoOn
<1>3. ASSUME NEW m \in Messages PROVE DeliveryShape(m)' /\ Budget(m)'
  <2>1. /\ DeliveryShape(m) /\ Budget(m) /\ Live(m)' = Live(m)
        /\ Cardinality(Live(m)) \in Nat /\ emails[m] \in Nat
        /\ redelivered[m] \in 0..MaxFaults
    BY WorkerNumbers DEF WorkerInv, Live
  <2>2. DeliveryShape(m)'
    BY <1>2, <2>1 DEF DeliveryShape, CurrentRun, FaultsGoOn
  <2>3. Waiting(m)' <= Waiting(m) /\ Waiting(m) \in {0, 1} /\ Waiting(m)' \in {0, 1}
    BY DEF Waiting
  <2>4. emails[m] + Cardinality(Live(m)) + Waiting(m) <= 1 + faults
    BY <2>1 DEF Budget, Waiting
  <2>5. emails[m] + Cardinality(Live(m)) + Waiting(m)' <= 1 + faults'
    BY <1>2, <2>1, <2>3, <2>4 DEF FaultsGoOn
  <2>6. Budget(m)'
    BY <2>1, <2>5 DEF Budget, Waiting
  <2>7. QED
    BY <2>2, <2>6
<1>4. (\A x \in Runs : RunShape(x)') /\ ForgottenWithReason'
  BY DEF WorkerInv, RunShape, ForgottenWithReason, CurrentRun
<1>5. QED
  BY <1>1, <1>3, <1>4 DEF WorkerInv

\* A message reaches its subscriber.
LEMMA DeliverInvariant ==
    ASSUME WorkerInv, NEW m \in Messages, Deliver(m), UNCHANGED added
    PROVE  WorkerInv'
<1> DEFINE r == redelivered[m]
<1> USE DEF Deliver
<1>1. /\ TypeOK /\ ForgottenWithReason
      /\ \A n \in Messages : DeliveryShape(n) /\ Budget(n)
      /\ \A x \in Runs : RunShape(x)
      /\ r \in 0..MaxFaults /\ CurrentRun(m) = <<m, r>> /\ <<m, r>> \in Runs
  BY WorkerNumbers DEF WorkerInv, CurrentRun
<1>2. /\ stage'[<<m, r>>] = "trying" /\ attempts'[<<m, r>>] = 1
      /\ \A x \in Runs : x # <<m, r>> => stage'[x] = stage[x] /\ attempts'[x] = attempts[x]
      /\ broker'[m] = "unacked" /\ broker[m] = "ready"
      /\ \A n \in Messages : n # m => broker'[n] = broker[n]
  BY <1>1 DEF TypeOK
<1>3. TypeOK'
  BY <1>1, NotificationsAssumption DEF TypeOK, Running
<1>4. \A n \in Messages : \A i \in 0..MaxFaults :
          <<n, i>> \in Runs /\ (n # m \/ i # r => <<n, i>> # <<m, r>>)
  BY DEF Runs
<1>5. ASSUME NEW n \in Messages PROVE DeliveryShape(n)'
  <2>1. DeliveryShape(n) /\ redelivered[n] \in 0..MaxFaults
    BY <1>1, WorkerNumbers
  <2>2. CASE n = m
    BY <1>2, <1>4, <2>1, <2>2 DEF DeliveryShape, CurrentRun
  <2>3. CASE n # m
    BY <1>2, <1>4, <2>1, <2>3 DEF DeliveryShape, CurrentRun
  <2>4. QED
    BY <2>2, <2>3
<1>6. ASSUME NEW n \in Messages PROVE Budget(n)'
  <2>1. /\ Budget(n) /\ Live(n) \in SUBSET (0..MaxFaults)
        /\ Cardinality(Live(n)) \in Nat /\ emails[n] \in Nat /\ faults \in Nat
    BY <1>1, WorkerNumbers
  <2>2. CASE n = m
    <3>1. Live(m)' = Live(m) \cup {r}
      BY <1>1, <1>2, <1>4 DEF Live
    <3>2. Cardinality(Live(m)') <= Cardinality(Live(m)) + 1 /\ Cardinality(Live(m)') \in Nat
      <4>1. Live(m)' \in SUBSET (0..MaxFaults)
        BY <1>1, <2>1, <2>2, <3>1
      <4>2. Cardinality(Live(m)') \in Nat
        BY <4>1, CountOfSubset
      <4>3. QED
        BY <2>1, <2>2, <3>1, <4>2, CountWith
    <3>3. emails[m] + Cardinality(Live(m)) + 1 <= 1 + faults
      BY <1>2, <2>1, <2>2 DEF Budget
    <3>4. emails[m] + Cardinality(Live(m)') <= 1 + faults
      BY <2>1, <2>2, <3>2, <3>3
    <3>5. QED
      BY <1>2, <2>1, <2>2, <3>2, <3>4 DEF Budget
  <2>3. CASE n # m
    <3>1. Live(n)' = Live(n)
      BY <1>2, <1>4, <2>3 DEF Live
    <3>2. QED
      BY <1>2, <2>1, <2>3, <3>1 DEF Budget
  <2>4. QED
    BY <2>2, <2>3
<1>7. ASSUME NEW x \in Runs PROVE RunShape(x)'
  BY <1>1, <1>2 DEF RunShape
<1>8. ForgottenWithReason'
  BY <1>1, <1>2, <1>4, WorkerNumbers DEF ForgottenWithReason, CurrentRun
<1>9. QED
  BY <1>3, <1>5, <1>6, <1>7, <1>8 DEF WorkerInv

(***************************************************************************)
(* A connection is lost or the process dies: what was not acknowledged is  *)
(* delivered again, and runs of handlers may end.                          *)
(***************************************************************************)
RunsEnd ==
    /\ stage' \in [Runs -> {"none", "done"} \cup Running]
    /\ \A x \in Runs : \/ stage'[x] = stage[x]
                       \/ stage[x] \in Running /\ stage'[x] = "done"

\* Redelivery spends the fault that the second e-mail will be accounted to.
LEMMA RedeliveryInvariant ==
    ASSUME WorkerInv, Requeue, RunsEnd, UNCHANGED <<added, attempts, emails>>,
           faults < MaxFaults, faults' = faults + 1
    PROVE  WorkerInv'
<1> USE DEF RunsEnd
<1>1. /\ TypeOK /\ ForgottenWithReason
      /\ \A n \in Messages : DeliveryShape(n) /\ Budget(n)
      /\ \A x \in Runs : RunShape(x)
      /\ faults \in Nat /\ MaxFaults \in Nat
  BY WorkerNumbers DEF WorkerInv
<1>2. ASSUME NEW m \in Messages
      PROVE  /\ broker[m] = "unacked" =>
                    broker'[m] = "ready" /\ redelivered'[m] = redelivered[m] + 1
             /\ broker[m] # "unacked" =>
                    broker'[m] = broker[m] /\ redelivered'[m] = redelivered[m]
             /\ redelivered[m] \in 0..MaxFaults
             /\ redelivered[m] + 1 \in 0..MaxFaults
             /\ redelivered'[m] \in 0..MaxFaults
             /\ redelivered'[m] <= faults'
             /\ \A i \in 0..MaxFaults : <<m, i>> \in Runs
  BY <1>1, WorkerNumbers DEF Requeue, DeliveryShape, Runs
<1>3. TypeOK'
  <2>1. broker' \in [Messages -> {"unpublished", "ready", "unacked", "dead"} \cup Settled]
    BY <1>1 DEF Requeue, TypeOK
  <2>2. redelivered' \in [Messages -> 0..MaxFaults]
    BY <1>2 DEF Requeue
  <2>3. QED
    BY <1>1, <2>1, <2>2 DEF TypeOK
<1>4. ASSUME NEW m \in Messages PROVE DeliveryShape(m)'
  <2>1. DeliveryShape(m)
    BY <1>1
  <2>2. \A i \in 0..MaxFaults : stage[<<m, i>>] = "none" => stage'[<<m, i>>] = "none"
    BY <1>2 DEF Running
  <2>3. \A i \in 0..MaxFaults : stage[<<m, i>>] = "done" => stage'[<<m, i>>] = "done"
    BY <1>2 DEF Running
  <2>4. CASE broker[m] = "unacked"
    BY <1>2, <2>1, <2>2, <2>4 DEF DeliveryShape, CurrentRun
  <2>5. CASE broker[m] # "unacked"
    BY <1>2, <2>1, <2>2, <2>3, <2>5 DEF DeliveryShape, CurrentRun
  <2>6. QED
    BY <2>4, <2>5
<1>5. ASSUME NEW m \in Messages PROVE Budget(m)'
  <2>1. /\ Budget(m) /\ Live(m) \in SUBSET (0..MaxFaults)
        /\ Cardinality(Live(m)) \in Nat /\ emails[m] \in Nat
    BY <1>1, WorkerNumbers
  <2>2. Live(m)' \in SUBSET Live(m)
    BY <1>2 DEF Live, Running
  <2>3. Cardinality(Live(m)') <= Cardinality(Live(m)) /\ Cardinality(Live(m)') \in Nat
    BY <2>1, <2>2, CountOfSubset
  <2>4. Waiting(m) \in {0, 1} /\ Waiting(m)' \in {0, 1} /\ Waiting(m)' <= Waiting(m) + 1
    BY DEF Waiting
  <2>5. emails[m] + Cardinality(Live(m)) + Waiting(m) <= 1 + faults
    BY <2>1 DEF Budget, Waiting
  <2>6. emails[m] + Cardinality(Live(m)') + Waiting(m)' <= 1 + faults'
    BY <1>1, <2>1, <2>3, <2>4, <2>5
  <2>7. QED
    BY <2>6 DEF Budget, Waiting
<1>6. ASSUME NEW x \in Runs PROVE RunShape(x)'
  BY <1>1 DEF RunShape
<1>7. ForgottenWithReason'
  BY <1>1, <1>2 DEF ForgottenWithReason, CurrentRun
<1>8. QED
  BY <1>3, <1>4, <1>5, <1>6, <1>7 DEF WorkerInv

(***************************************************************************)
(* Every step of the worker, of RabbitMQ and of a publisher.               *)
(***************************************************************************)
LEMMA EnqueueInvariant ==
    ASSUME WorkerInv, FaultsGoOn, NEW m \in Messages, Enqueue(m), UNCHANGED added
    PROVE  WorkerInv'
<1>1. BrokerMove
  BY DEF WorkerInv, TypeOK, Enqueue, BrokerMove
<1>2. QED
  BY <1>1, BrokerInvariant

\* RabbitMQ delivers, or the subscriber of dead letters logs.
LEMMA TransportInvariant ==
    ASSUME WorkerInv, NEW m \in Messages, Transport(m), UNCHANGED added
    PROVE  WorkerInv'
<1>1. CASE Deliver(m)
  BY <1>1, DeliverInvariant
<1>2. CASE LogDeadLetter(m)
  <2>1. BrokerMove /\ FaultsGoOn
    BY <1>2, WorkerNumbers
       DEF WorkerInv, TypeOK, LogDeadLetter, BrokerMove, FaultsGoOn, Settled
  <2>2. QED
    BY <2>1, BrokerInvariant
<1>3. QED
  BY <1>1, <1>2 DEF Transport

\* A handler of a message takes a step.
LEMMA HandleInvariant ==
    ASSUME WorkerInv, NEW x \in Runs, UNCHANGED added,
           Handle(x) \/ SendUnacknowledged(x)
    PROVE  WorkerInv'
<1>1. PICK n \in Messages, k \in 0..MaxFaults : x = <<n, k>>
  BY DEF Runs
<1>2. /\ x[1] = n /\ TypeOK /\ RunShape(<<n, k>>)
      /\ attempts[<<n, k>>] \in 0..MaxAttempts /\ emails[n] \in Nat
      /\ stage = [stage EXCEPT ![<<n, k>>] = stage[<<n, k>>]]
      /\ attempts = [attempts EXCEPT ![<<n, k>>] = attempts[<<n, k>>]]
      /\ emails = [emails EXCEPT ![n] = emails[n]]
      /\ broker \in [Messages -> {"unpublished", "ready", "unacked", "dead"} \cup Settled]
      /\ MaxAttempts \in Nat \ {0} /\ faults \in 0..MaxFaults /\ MaxFaults \in Nat
  BY <1>1, WorkerNumbers, NotificationsAssumption DEF WorkerInv, TypeOK
<1>3. UNCHANGED faults => FaultsGoOn
  BY <1>2 DEF FaultsGoOn
<1>4. CASE SendSucceeds(x)
  <2>1. RunMove(n, k, "sent", attempts[<<n, k>>], emails[n] + 1)
    BY <1>1, <1>2, <1>4 DEF SendSucceeds, RunMove
  <2>2. stage[<<n, k>>] = "trying" /\ UNCHANGED faults
    BY <1>1, <1>4 DEF SendSucceeds
  <2>3. emails[n] + 1 \in Nat /\ emails[n] + 1 > 0 /\ "sent" \in {"done"} \cup Running
    BY <1>2 DEF Running
  <2>4. QED
    BY <1>2, <1>3, <2>1, <2>2, <2>3, RunInvariant DEF Running
<1>5. CASE SendFails(x)
  <2> DEFINE s == IF attempts[<<n, k>>] < MaxAttempts THEN "sleeping" ELSE "failed"
  <2>1. RunMove(n, k, s, attempts[<<n, k>>], emails[n])
    BY <1>1, <1>2, <1>5 DEF SendFails, AttemptFailed, RunMove
  <2>2. /\ s \in Running /\ s # "sent"
        /\ s = "failed" => attempts[<<n, k>>] = MaxAttempts
        /\ s = "sleeping" => attempts[<<n, k>>] < MaxAttempts
    BY <1>2 DEF Running
  <2>3. stage[<<n, k>>] = "trying" /\ UNCHANGED faults
    BY <1>1, <1>5 DEF SendFails, AttemptFailed
  <2> HIDE DEF s
  <2>4. QED
    BY <1>2, <1>3, <2>1, <2>2, <2>3, RunInvariant DEF Running
<1>6. CASE Retry(x)
  <2>1. /\ RunMove(n, k, "trying", attempts[<<n, k>>] + 1, emails[n])
        /\ attempts[<<n, k>>] + 1 \in 0..MaxAttempts
    BY <1>1, <1>2, <1>6 DEF Retry, RunMove, RunShape
  <2>2. stage[<<n, k>>] = "sleeping" /\ UNCHANGED faults
    BY <1>1, <1>6 DEF Retry
  <2>3. QED
    BY <1>2, <1>3, <2>1, <2>2, RunInvariant DEF Running
<1>7. CASE Ack(x)
  <2>1. RunMove(n, k, "done", attempts[<<n, k>>], emails[n])
    BY <1>1, <1>2, <1>7 DEF Ack, Settle, CurrentRun, RunMove, RunShape, Settled
  <2>2. QED
    BY <1>1, <1>2, <1>3, <1>7, <2>1, RunInvariant DEF Ack, Running
<1>8. CASE Reject(x)
  <2> DEFINE o == IF Routed("booking.dlx", "booking.dead") THEN "dead" ELSE "dropped"
  <2>1. o \in {"dead", "dropped"} /\ Settle(<<n, k>>, o)
    BY <1>1, <1>8 DEF Reject
  <2> HIDE DEF o
  <2>2. RunMove(n, k, "done", attempts[<<n, k>>], emails[n])
    BY <1>1, <1>2, <1>8, <2>1 DEF Reject, Settle, CurrentRun, RunMove, RunShape, Settled
  <2>3. QED
    BY <1>1, <1>2, <1>3, <1>8, <2>2, RunInvariant DEF Reject, Running
<1>9. CASE SendUnacknowledged(x)
  <2> DEFINE s == IF attempts[<<n, k>>] < MaxAttempts THEN "sleeping" ELSE "failed"
  <2>1. RunMove(n, k, s, attempts[<<n, k>>], emails[n] + 1)
    BY <1>1, <1>2, <1>9 DEF SendUnacknowledged, AttemptFailed, RunMove
  <2>2. /\ s \in Running /\ s # "sent"
        /\ s = "failed" => attempts[<<n, k>>] = MaxAttempts
        /\ s = "sleeping" => attempts[<<n, k>>] < MaxAttempts
    BY <1>2 DEF Running
  <2>3. /\ stage[<<n, k>>] = "trying"
        /\ FaultsGoOn /\ faults' >= faults + 1
    BY <1>1, <1>2, <1>9 DEF SendUnacknowledged, AttemptFailed, Fault, FaultsGoOn
  <2> HIDE DEF s
  <2>4. QED
    BY <1>2, <2>1, <2>2, <2>3, RunInvariant DEF Running
<1>10. QED
  BY <1>4, <1>5, <1>6, <1>7, <1>8, <1>9 DEF Handle

\* The process dies.
LEMMA CrashInvariant ==
    ASSUME WorkerInv, Crash, UNCHANGED added
    PROVE  WorkerInv'
<1>1. RunsEnd
  BY DEF Crash, RunsEnd, WorkerInv, TypeOK
<1>2. QED
  BY <1>1, RedeliveryInvariant DEF Crash, Fault

\* The connection to RabbitMQ is lost, or RabbitMQ restarts.
LEMMA OutageInvariant ==
    ASSUME WorkerInv, ConnectionLost \/ BrokerRestart, UNCHANGED added
    PROVE  WorkerInv'
<1>1. CASE ConnectionLost
  <2>1. RunsEnd
    BY <1>1 DEF ConnectionLost, RunsEnd, WorkerInv, TypeOK
  <2>2. QED
    BY <1>1, <2>1, RedeliveryInvariant DEF ConnectionLost, Fault
<1>2. CASE BrokerRestart
  <2>1. FaultsGoOn
    BY <1>2, WorkerNumbers DEF BrokerRestart, Fault, FaultsGoOn, WorkerInv, TypeOK
  <2>2. BrokerMove
    BY <1>2 DEF BrokerRestart, BrokerMove, WorkerInv, TypeOK, Settled
  <2>3. QED
    BY <2>1, <2>2, BrokerInvariant
<1>3. QED
  BY <1>1, <1>2

\* At the start nothing has been published.
LEMMA StartOfWorker ==
    ASSUME Init
    PROVE  WorkerInv
<1>1. TypeOK
  BY NotificationsAssumption DEF Init, TypeOK
<1>2. ASSUME NEW m \in Messages PROVE DeliveryShape(m) /\ Budget(m)
  <2>1. \A i \in 0..MaxFaults : <<m, i>> \in Runs
    BY DEF Runs
  <2>2. Live(m) = {} /\ redelivered[m] = 0 /\ emails[m] = 0 /\ 0 \in 0..MaxFaults
    BY <2>1, NotificationsAssumption DEF Init, Live
  <2>3. Cardinality(Live(m)) = 0
    BY <2>2, FS_EmptySet
  <2>4. QED
    BY <2>1, <2>2, <2>3 DEF Init, DeliveryShape, Budget, CurrentRun
<1>3. (\A x \in Runs : RunShape(x)) /\ ForgottenWithReason
  BY DEF Init, RunShape, ForgottenWithReason
<1>4. QED
  BY <1>1, <1>2, <1>3 DEF WorkerInv

-----------------------------------------------------------------------------
(* The worker with any publishers                                          *)

\* What is known of every message and every run of its handler, whoever
\* publishes.
THEOREM WorkerInvariant == Spec => []WorkerInv
<1>1. Init => WorkerInv
  BY StartOfWorker
<1>2. WorkerInv /\ [Next]_vars => WorkerInv'
  <2> SUFFICES ASSUME WorkerInv, [Next]_vars PROVE WorkerInv'
    OBVIOUS
  <2>1. UNCHANGED faults => FaultsGoOn
    BY NotificationsAssumption DEF WorkerInv, TypeOK, FaultsGoOn
  <2>2. CASE UNCHANGED vars
    BY <2>1, <2>2, QuietInvariant DEF vars
  <2>3. ASSUME NEW m \in Messages, Publish(m), UNCHANGED added PROVE WorkerInv'
    BY <2>1, <2>3, EnqueueInvariant DEF Publish
  <2>4. ASSUME NEW m \in Messages, Transport(m), UNCHANGED added PROVE WorkerInv'
    BY <2>4, TransportInvariant
  <2>5. ASSUME NEW x \in Runs, UNCHANGED added, Handle(x) \/ SendUnacknowledged(x)
        PROVE  WorkerInv'
    BY <2>5, HandleInvariant
  <2>6. CASE Crash /\ UNCHANGED added
    BY <2>6, CrashInvariant
  <2>7. CASE (ConnectionLost \/ BrokerRestart) /\ UNCHANGED added
    BY <2>7, OutageInvariant
  <2>8. CASE Idle
    BY <2>2, <2>8 DEF Idle
  <2>9. QED
    BY <2>2, <2>3, <2>4, <2>5, <2>6, <2>7, <2>8 DEF Next
<1>3. QED
  BY <1>1, <1>2, PTL DEF Spec

-----------------------------------------------------------------------------
(* The worker under the booking service                                    *)

\* What the rest of the process does to the count of faults.
LEMMA BookingFaults ==
    ASSUME WorkerInv, NEW r \in Senders,
           \/ Work(r) \/ Booking!Arrive(r) \/ Booking!Fail(r)
           \/ Booking!CommitUnacknowledged(r)
           \/ Booking!Publish(r) \/ Booking!PublishUnacknowledged(r)
    PROVE  FaultsGoOn
<1>1. faults \in 0..MaxFaults /\ MaxFaults \in Nat
  BY NotificationsAssumption DEF WorkerInv, TypeOK
<1>2. Work(r) => faults' = faults
  BY DEF Work, Booking!Insert, Booking!Confirm, Booking!UpdateStatus,
         Booking!MarkFree, Booking!Invalidate, Booking!Commit, Booking!Reply
<1>3. Booking!Arrive(r) => faults' = faults
  <2>1. ASSUME NEW u, NEW route, NEW seat, Booking!RequestBooking(r, u, route, seat)
        PROVE  faults' = faults
    BY <2>1 DEF Booking!RequestBooking, Booking!Reject
  <2>2. ASSUME NEW u, NEW b, Booking!RequestCancel(r, u, b)
        PROVE  faults' = faults
    BY <2>2 DEF Booking!RequestCancel, Booking!Reject
  <2>3. QED
    BY <2>1, <2>2 DEF Booking!Arrive
<1>4. Booking!Publish(r) => faults' = faults
  BY DEF Booking!Publish
<1>5. Booking!Fail(r) \/ Booking!CommitUnacknowledged(r) \/ Booking!PublishUnacknowledged(r)
          => Booking!Fault
  BY DEF Booking!Fail, Booking!CommitUnacknowledged, Booking!PublishUnacknowledged
<1>6. QED
  BY <1>1, <1>2, <1>3, <1>4, <1>5 DEF Booking!Fault, FaultsGoOn

\* The same invariant, when the publishers are the requests of BookingService
\* and the process dies with both.
THEOREM MailInvariant == MailSpec => []WorkerInv
<1>1. MailInit => WorkerInv
  BY StartOfWorker DEF MailInit
<1>2. WorkerInv /\ [MailNext]_mailAllVars => WorkerInv'
  <2> SUFFICES ASSUME WorkerInv, [MailNext]_mailAllVars PROVE WorkerInv'
    OBVIOUS
  <2>1. UNCHANGED faults => FaultsGoOn
    BY NotificationsAssumption DEF WorkerInv, TypeOK, FaultsGoOn
  <2>2. CASE UNCHANGED mailAllVars
    BY <2>1, <2>2, QuietInvariant DEF mailAllVars, mailVars
  <2>3. ASSUME NEW r \in Senders, BookingStep(r) PROVE WorkerInv'
    <3>1. FaultsGoOn
      BY <2>3, BookingFaults DEF BookingStep
    <3>2. QED
      BY <2>3, <3>1, QuietInvariant DEF BookingStep, mailVars
  <2>4. ASSUME NEW r \in Senders, Send(r) PROVE WorkerInv'
    <3>1. FaultsGoOn
      BY <2>4, BookingFaults DEF Send
    <3>2. <<r, Booking!EventKind(r)>> \in Messages
      BY DEF Messages, Kinds, Booking!EventKind
    <3>3. QED
      BY <2>4, <3>1, <3>2, EnqueueInvariant DEF Send
  <2>5. CASE WorkerStep
    BY <2>5, TransportInvariant, HandleInvariant, OutageInvariant DEF WorkerStep
  <2>6. CASE ProcessCrash
    <3>1. CASE Crash /\ UNCHANGED added
      BY <3>1, CrashInvariant
    <3>2. CASE Booking!Crash /\ UNCHANGED mailVars
      <4>1. FaultsGoOn
        BY <3>2, NotificationsAssumption
           DEF Booking!Crash, Booking!Fault, FaultsGoOn, WorkerInv, TypeOK
      <4>2. QED
        BY <3>2, <4>1, QuietInvariant DEF mailVars
    <3>3. QED
      BY <2>6, <3>1, <3>2 DEF ProcessCrash
  <2>7. CASE Idle /\ UNCHANGED added
    BY <2>1, <2>7, QuietInvariant DEF Idle, vars
  <2>8. QED
    BY <2>2, <2>3, <2>4, <2>5, <2>6, <2>7 DEF MailNext
<1>3. QED
  BY <1>1, <1>2, PTL DEF MailSpec

\* Every variable of the worker and of RabbitMQ keeps its type.
THEOREM WorkerTypeCorrect == MailSpec => []TypeOK
<1>1. WorkerInv => TypeOK
  BY DEF WorkerInv
<1>2. QED
  BY <1>1, MailInvariant, PTL

\* RabbitMQ forgets a message only when its e-mail was sent or when every
\* attempt of a delivery failed, with any number of concurrent deliveries.
THEOREM MessagesForgottenWithReason == MailSpec => []ForgottenWithReason
<1>1. WorkerInv => ForgottenWithReason
  BY DEF WorkerInv
<1>2. QED
  BY <1>1, MailInvariant, PTL

\* Redelivery, retries and crashes together never send more e-mails about an
\* event than one, and one for each fault.
THEOREM EmailsAreAccountedFor == MailSpec => []NoSpuriousEmail
<1>1. WorkerInv => NoSpuriousEmail
  <2> SUFFICES ASSUME WorkerInv, NEW m \in Messages PROVE emails[m] <= 1 + faults
    BY DEF NoSpuriousEmail
  <2>1. emails[m] \in Nat /\ Cardinality(Live(m)) \in Nat /\ faults \in Nat
    BY WorkerNumbers
  <2>2. QED
    BY <2>1 DEF WorkerInv, Budget
<1>2. QED
  BY <1>1, MailInvariant, PTL

-----------------------------------------------------------------------------
(* Why every message settles                                               *)

counters == <<faults, attempts>>

\* What RabbitMQ waits to hear of, a running handler will tell it; and attempts
\* are counted from the first.
Attended(m) == broker[m] = "unacked" => stage[CurrentRun(m)] \in Running
Unstarted(x) == stage[x] = "none" => attempts[x] = 0
Attendance == (\A m \in Messages : Attended(m)) /\ (\A x \in Runs : Unstarted(x))

CountersGrow ==
    /\ faults' >= faults
    /\ \A x \in Runs : attempts'[x] >= attempts[x]

\* What may become of a run, and of a message, in a step that neither starts an
\* attempt nor is a fault.
RunOnward == [none |-> {}, trying |-> {"sleeping", "sent", "failed"}, sleeping |-> {},
              sent |-> {"done"}, failed |-> {"done"}, done |-> {}]
MessageOnward(m) ==
    \/ broker[m] = "unpublished" /\ broker'[m] = "ready"
    \/ broker[m] = "unacked" /\ broker'[m] \in Settled \cup {"dead"}
    \/ broker[m] = "dead" /\ broker'[m] = "logged"

OnlyOnward ==
    /\ redelivered' = redelivered
    /\ \A x \in Runs : stage'[x] \in {stage[x]} \cup RunOnward[stage[x]]
    /\ \A m \in Messages : broker'[m] = broker[m] \/ MessageOnward(m)

\* What a step leaves to be shown of it.
Orderly == Attendance' /\ CountersGrow /\ (UNCHANGED counters => OnlyOnward)

LEMMA OrderlyRest ==
    ASSUME WorkerInv, Attendance, FaultsGoOn,
           UNCHANGED <<redelivered, stage, attempts>>,
           \A m \in Messages :
               \/ broker'[m] = broker[m]
               \/ broker'[m] # "unacked" /\ (faults' = faults => MessageOnward(m))
    PROVE  Orderly
<1>1. Attendance'
  BY DEF Attendance, Attended, Unstarted, CurrentRun
<1>2. CountersGrow
  BY WorkerNumbers DEF CountersGrow, FaultsGoOn
<1>3. UNCHANGED counters => OnlyOnward
  BY DEF OnlyOnward, counters
<1>4. QED
  BY <1>1, <1>2, <1>3 DEF Orderly

LEMMA OrderlyDelivery ==
    ASSUME WorkerInv, Attendance, NEW m \in Messages, Deliver(m)
    PROVE  Orderly /\ ~UNCHANGED counters
<1>1. /\ TypeOK /\ DeliveryShape(m) /\ CurrentRun(m) \in Runs
      /\ attempts \in [Runs -> 0..MaxAttempts] /\ MaxAttempts \in Nat /\ faults \in Nat
  BY WorkerNumbers DEF WorkerInv, TypeOK
<1>2. broker[m] = "ready" /\ attempts[CurrentRun(m)] = 0
  BY <1>1 DEF Deliver, DeliveryShape, Attendance, Unstarted
<1>3. /\ attempts' = [attempts EXCEPT ![CurrentRun(m)] = 1]
      /\ stage' = [stage EXCEPT ![CurrentRun(m)] = "trying"]
      /\ broker' = [broker EXCEPT ![m] = "unacked"]
      /\ UNCHANGED <<redelivered, faults>>
  BY DEF Deliver
<1>4. CountersGrow /\ ~UNCHANGED counters
  BY <1>1, <1>2, <1>3 DEF CountersGrow, counters
<1>5. Attendance'
  <2>1. ASSUME NEW n \in Messages PROVE Attended(n)'
    <3>1. CurrentRun(n)' = CurrentRun(n) /\ CurrentRun(n) \in Runs
      BY <1>3, WorkerNumbers DEF CurrentRun
    <3>2. CASE n = m
      BY <1>1, <1>3, <3>1, <3>2 DEF Attended, TypeOK, Running
    <3>3. CASE n # m
      BY <1>1, <1>3, <3>1, <3>3 DEF Attended, Attendance, TypeOK, Running
    <3>4. QED
      BY <3>2, <3>3
  <2>2. ASSUME NEW x \in Runs PROVE Unstarted(x)'
    BY <1>1, <1>3 DEF Unstarted, Attendance, TypeOK
  <2>3. QED
    BY <2>1, <2>2 DEF Attendance
<1>6. QED
  BY <1>4, <1>5 DEF Orderly

LEMMA OrderlyHandling ==
    ASSUME WorkerInv, Attendance, NEW x \in Runs, Handle(x) \/ SendUnacknowledged(x)
    PROVE  /\ Orderly
           /\ UNCHANGED counters => stage[x] # "sleeping" /\ stage'[x] # stage[x]
<1>1. PICK n \in Messages, k \in 0..MaxFaults : x = <<n, k>>
  BY DEF Runs
<1>2. /\ TypeOK /\ x[1] = n /\ MaxAttempts \in Nat /\ faults \in Nat
      /\ attempts \in [Runs -> 0..MaxAttempts]
  BY <1>1, WorkerNumbers DEF WorkerInv, TypeOK
<1>3. /\ stage[x] \in Running
      /\ \E s \in RunOnward[stage[x]] \cup {"trying"} : stage' = [stage EXCEPT ![x] = s]
      /\ \/ attempts' = attempts /\ stage'[x] \in RunOnward[stage[x]]
         \/ stage[x] = "sleeping" /\ attempts' = [attempts EXCEPT ![x] = @ + 1]
  BY <1>2 DEF Handle, SendSucceeds, SendFails, SendUnacknowledged, AttemptFailed, Retry,
              Ack, Reject, Running, RunOnward, TypeOK
<1>4. redelivered' = redelivered /\ faults' >= faults
  BY <1>2 DEF Handle, SendSucceeds, SendFails, SendUnacknowledged, AttemptFailed, Retry,
              Ack, Reject, Fault
<1>5. \/ broker' = broker /\ stage'[x] \in Running
      \/ broker' = broker /\ ~(x = CurrentRun(n) /\ broker[n] = "unacked")
      \/ /\ broker[n] = "unacked"
         /\ \E o \in Settled \cup {"dead"} : broker' = [broker EXCEPT ![n] = o]
  BY <1>2 DEF Handle, SendSucceeds, SendFails, SendUnacknowledged, AttemptFailed, Retry,
              Ack, Reject, Settle, Settled, Running, TypeOK
<1>6. CountersGrow
  BY <1>2, <1>3, <1>4 DEF CountersGrow
<1>7. UNCHANGED counters => stage'[x] \in RunOnward[stage[x]]
  BY <1>2, <1>3 DEF counters
<1>8. ASSUME UNCHANGED counters PROVE OnlyOnward
  <2>1. \A y \in Runs : stage'[y] \in {stage[y]} \cup RunOnward[stage[y]]
    BY <1>2, <1>3, <1>7, <1>8 DEF TypeOK
  <2>2. \A m \in Messages : broker'[m] = broker[m] \/ MessageOnward(m)
    BY <1>2, <1>5 DEF MessageOnward, TypeOK
  <2>3. QED
    BY <1>4, <2>1, <2>2 DEF OnlyOnward
<1>9. Attendance'
  <2>1. ASSUME NEW m \in Messages PROVE Attended(m)'
    <3>1. CurrentRun(m)' = CurrentRun(m) /\ CurrentRun(m) \in Runs /\ Attended(m)
      BY <1>4, WorkerNumbers DEF CurrentRun, Attendance
    <3>2. CASE x = CurrentRun(m)
      <4>1. m = n
        BY <1>1, <3>2 DEF CurrentRun
      <4>2. QED
        BY <1>2, <1>5, <3>1, <3>2, <4>1 DEF Attended, TypeOK, Settled
    <3>3. CASE x # CurrentRun(m)
      <4>1. stage'[CurrentRun(m)] = stage[CurrentRun(m)]
        BY <1>2, <1>3, <3>1, <3>3 DEF TypeOK
      <4>2. broker'[m] = "unacked" => broker[m] = "unacked"
        BY <1>2, <1>5 DEF TypeOK, Settled
      <4>3. QED
        BY <3>1, <4>1, <4>2 DEF Attended
    <3>4. QED
      BY <3>2, <3>3
  <2>2. ASSUME NEW y \in Runs PROVE Unstarted(y)'
    <3>1. CASE y = x
      BY <1>2, <1>3, <3>1 DEF Unstarted, TypeOK, RunOnward, Running
    <3>2. CASE y # x
      BY <1>2, <1>3, <3>2 DEF Unstarted, TypeOK, Attendance
    <3>3. QED
      BY <3>1, <3>2
  <2>3. QED
    BY <2>1, <2>2 DEF Attendance
<1>10. UNCHANGED counters => stage[x] # "sleeping" /\ stage'[x] # stage[x]
  BY <1>3, <1>7 DEF RunOnward, Running
<1>11. QED
  BY <1>6, <1>8, <1>9, <1>10 DEF Orderly

\* A fault that closes the channels leaves nothing unacknowledged.
LEMMA OrderlyRequeue ==
    ASSUME WorkerInv, Attendance, Crash \/ ConnectionLost
    PROVE  Orderly /\ ~UNCHANGED counters
<1>1. /\ faults' = faults + 1 /\ faults \in Nat /\ attempts' = attempts /\ Requeue
      /\ attempts \in [Runs -> 0..MaxAttempts] /\ MaxAttempts \in Nat
  BY WorkerNumbers DEF Crash, ConnectionLost, Fault, WorkerInv, TypeOK
<1>2. CountersGrow /\ ~UNCHANGED counters
  BY <1>1 DEF CountersGrow, counters
<1>3. \A m \in Messages : broker'[m] # "unacked"
  BY <1>1 DEF Requeue
<1>4. \A x \in Runs : stage'[x] = "none" => stage[x] = "none"
  BY DEF Crash, ConnectionLost
<1>5. Attendance'
  BY <1>1, <1>3, <1>4 DEF Attendance, Attended, Unstarted
<1>6. QED
  BY <1>2, <1>5 DEF Orderly

LEMMA MailIsOrderly ==
    ASSUME WorkerInv, Attendance, [MailNext]_mailAllVars
    PROVE  Orderly
<1>1. UNCHANGED faults => FaultsGoOn
  BY NotificationsAssumption DEF WorkerInv, TypeOK, FaultsGoOn
<1>2. UNCHANGED mailVars /\ FaultsGoOn => Orderly
  BY OrderlyRest DEF mailVars
<1>3. CASE UNCHANGED mailAllVars
  BY <1>1, <1>2, <1>3 DEF mailAllVars
<1>4. ASSUME NEW r \in Senders, BookingStep(r) PROVE Orderly
  BY <1>2, <1>4, BookingFaults DEF BookingStep
<1>5. ASSUME NEW r \in Senders, Send(r) PROVE Orderly
  <2>1. FaultsGoOn
    BY <1>5, BookingFaults DEF Send
  <2>2. broker \in [Messages -> {"unpublished", "ready", "unacked", "dead"} \cup Settled]
    BY DEF WorkerInv, TypeOK
  <2>3. QED
    BY <1>5, <2>1, <2>2, OrderlyRest DEF Send, Enqueue, MessageOnward
<1>6. ASSUME NEW m \in Messages, Transport(m) PROVE Orderly
  <2>1. CASE Deliver(m)
    BY <2>1, OrderlyDelivery
  <2>2. CASE LogDeadLetter(m)
    <3>1. broker \in [Messages -> {"unpublished", "ready", "unacked", "dead"} \cup Settled]
      BY DEF WorkerInv, TypeOK
    <3>2. QED
      BY <1>1, <2>2, <3>1, OrderlyRest DEF LogDeadLetter, MessageOnward
  <2>3. QED
    BY <1>6, <2>1, <2>2 DEF Transport
<1>7. CASE BrokerRestart
  <2>1. FaultsGoOn /\ faults' # faults
    BY <1>7, WorkerNumbers DEF BrokerRestart, Fault, FaultsGoOn, WorkerInv, TypeOK
  <2>2. QED
    BY <1>7, <2>1, OrderlyRest DEF BrokerRestart
<1>8. CASE WorkerStep
  BY <1>6, <1>7, <1>8, OrderlyHandling, OrderlyRequeue DEF WorkerStep
<1>9. CASE ProcessCrash
  <2>1. Booking!Crash => FaultsGoOn
    BY NotificationsAssumption DEF Booking!Crash, Booking!Fault, FaultsGoOn, WorkerInv, TypeOK
  <2>2. QED
    BY <1>2, <1>9, <2>1, OrderlyRequeue DEF ProcessCrash
<1>10. CASE Idle /\ UNCHANGED added
  BY <1>1, <1>2, <1>10 DEF Idle, vars, mailVars
<1>11. QED
  BY <1>3, <1>4, <1>5, <1>8, <1>9, <1>10 DEF MailNext

(***************************************************************************)
(* Nothing is left lying: a delivery that RabbitMQ still waits for has a   *)
(* handler at work on it, after any redelivery, crash or restart; else it  *)
(* would be neither acknowledged nor delivered again.                      *)
(***************************************************************************)
THEOREM DeliveriesAreAttended == MailSpec => []Attendance
<1>1. MailInit => Attendance
  BY WorkerNumbers, StartOfWorker
     DEF MailInit, Init, Attendance, Attended, Unstarted, Runs
<1>2. WorkerInv /\ Attendance /\ [MailNext]_mailAllVars => Attendance'
  BY MailIsOrderly DEF Orderly
<1>3. QED
  BY <1>1, <1>2, MailInvariant, PTL DEF MailSpec

\* Attempts and faults are only ever counted up.
Growth == [][CountersGrow]_mailAllVars

THEOREM CountersOnlyGrow == MailSpec => Growth
<1>1. WorkerInv /\ Attendance /\ [MailNext]_mailAllVars => [CountersGrow]_mailAllVars
  BY MailIsOrderly DEF Orderly
<1>2. QED
  BY <1>1, MailInvariant, DeliveriesAreAttended, PTL DEF MailSpec, Growth

\* No attempt is started any more, and nothing fails.
Quiet == UNCHANGED counters
CountersStop == <>[][Quiet]_mailAllVars


\* The run stays where it is; and the message.
RunStops(x) == <>[][stage'[x] = stage[x]]_mailAllVars
MessageStops(m) == <>[][broker'[m] = broker[m]]_mailAllVars

LEMMA QuietIsOnward ==
    ASSUME WorkerInv, Attendance, [MailNext]_mailAllVars, [Quiet]_mailAllVars
    PROVE  OnlyOnward /\ UNCHANGED counters
<1>1. UNCHANGED counters
  BY DEF Quiet, mailAllVars, mailVars, counters
<1>2. QED
  BY <1>1, MailIsOrderly DEF Orderly

(***************************************************************************)
(* Without a new attempt and without a fault a run comes to a stop: it     *)
(* never goes back.                                                        *)
(***************************************************************************)
THEOREM RunsStop ==
    ASSUME NEW x \in Runs
    PROVE  MailSpec /\ CountersStop => RunStops(x)
<1> DEFINE Worker == WorkerInv /\ Attendance
           Trying == stage[x] = "trying"
           Ends == stage[x] \in {"sent", "failed"}
           Stuck == stage[x] \in {"none", "sleeping", "done"}
           Still == stage'[x] = stage[x]
           Move == [MailNext]_mailAllVars /\ [Quiet]_mailAllVars
<1>1. Worker => Trying \/ Ends \/ Stuck
  BY DEF WorkerInv, TypeOK, Running
<1>2. Worker /\ Move => stage'[x] \in {stage[x]} \cup RunOnward[stage[x]]
  BY QuietIsOnward DEF OnlyOnward
<1>3. /\ Worker /\ Move /\ Trying => (Still /\ Trying') \/ Ends' \/ Stuck'
      /\ Worker /\ Move /\ Ends => (Still /\ Ends') \/ Stuck'
      /\ Worker /\ Move /\ Stuck => Still /\ Stuck'
  BY <1>2 DEF RunOnward
<1>4. ~(Trying /\ Ends) /\ ~(Trying /\ Stuck) /\ ~(Ends /\ Stuck)
  OBVIOUS
<1>5. Still => [stage'[x] = stage[x]]_mailAllVars
  OBVIOUS
<1>6. MailSpec => []Worker /\ [][MailNext]_mailAllVars
  BY MailInvariant, DeliveriesAreAttended, PTL DEF MailSpec
<1> HIDE DEF Worker, Trying, Ends, Stuck
<1>7. QED
  BY <1>1, <1>3, <1>4, <1>5, <1>6, PTL DEF CountersStop, RunStops

\* And a message likewise: it is not delivered again.
THEOREM MessagesStop ==
    ASSUME NEW m \in Messages
    PROVE  MailSpec /\ CountersStop => MessageStops(m)
<1> DEFINE Worker == WorkerInv /\ Attendance
           New == broker[m] = "unpublished"
           Unacked == broker[m] = "unacked"
           Dead == broker[m] = "dead"
           Stuck == broker[m] \in {"ready"} \cup Settled
           Still == broker'[m] = broker[m]
           Move == [MailNext]_mailAllVars /\ [Quiet]_mailAllVars
<1>1. Worker => New \/ Unacked \/ Dead \/ Stuck
  BY DEF WorkerInv, TypeOK
<1>2. Worker /\ Move => broker'[m] = broker[m] \/ MessageOnward(m)
  BY QuietIsOnward DEF OnlyOnward
<1>3. /\ Worker /\ Move /\ New => (Still /\ New') \/ Stuck'
      /\ Worker /\ Move /\ Unacked => (Still /\ Unacked') \/ Dead' \/ Stuck'
      /\ Worker /\ Move /\ Dead => (Still /\ Dead') \/ Stuck'
      /\ Worker /\ Move /\ Stuck => Still /\ Stuck'
  BY <1>2 DEF MessageOnward, Settled
<1>4. /\ ~(New /\ Unacked) /\ ~(New /\ Dead) /\ ~(Unacked /\ Dead)
      /\ ~(Stuck /\ (New \/ Unacked \/ Dead))
  BY DEF Settled
<1>5. Still => [broker'[m] = broker[m]]_mailAllVars
  OBVIOUS
<1>6. MailSpec => []Worker /\ [][MailNext]_mailAllVars
  BY MailInvariant, DeliveriesAreAttended, PTL DEF MailSpec
<1> HIDE DEF Worker, New, Unacked, Dead, Stuck
<1>7. QED
  BY <1>1, <1>3, <1>4, <1>5, <1>6, PTL DEF CountersStop, MessageStops

\* The weak fairness of FairMailSpec, with their guards for what enables the
\* handlers and RabbitMQ: as long as there is work, some of it is done.
HandlersGoOn ==
    \/ []<>(\A x \in Runs : stage[x] \notin Running)
    \/ []<><<\E x \in Runs : Handle(x) /\ UNCHANGED <<bookingVars, added>>>>_mailAllVars
RabbitGoesOn ==
    \/ []<>(\A m \in Messages : broker[m] \notin {"ready", "dead"})
    \/ []<><<\E m \in Messages : Transport(m) /\ UNCHANGED <<bookingVars, added>>>>_mailAllVars

AllRunsStop == <>[][\A x \in Runs : stage'[x] = stage[x]]_mailAllVars
AllMessagesStop == <>[][\A m \in Messages : broker'[m] = broker[m]]_mailAllVars
AllRunsRest == <>[](\A x \in Runs : stage[x] \notin Running)

(***************************************************************************)
(* Where the runs stop, they have ended: a handler that sleeps would start *)
(* another attempt.                                                        *)
(***************************************************************************)
THEOREM HandlersEnd ==
    MailSpec /\ CountersStop /\ AllRunsStop /\ HandlersGoOn => AllRunsRest
<1> DEFINE Worker == WorkerInv /\ Attendance
           Rests == \A x \in Runs : stage[x] \notin Running
           Still == \A x \in Runs : stage'[x] = stage[x]
           Goes == \E x \in Runs : Handle(x) /\ UNCHANGED <<bookingVars, added>>
<1>1. Rests /\ [Still]_mailAllVars => Rests'
  BY DEF mailAllVars, mailVars
<1>2. Worker /\ [MailNext]_mailAllVars /\ [Quiet]_mailAllVars /\ [Still]_mailAllVars
          => ~<<Goes>>_mailAllVars
  <2> SUFFICES ASSUME Worker, [MailNext]_mailAllVars, [Quiet]_mailAllVars,
                      [Still]_mailAllVars,
                      NEW x \in Runs, Handle(x)
               PROVE  FALSE
    OBVIOUS
  <2>1. stage'[x] # stage[x]
    BY QuietIsOnward, OrderlyHandling
  <2>2. QED
    BY <2>1 DEF mailAllVars, mailVars
<1>3. MailSpec => []Worker /\ [][MailNext]_mailAllVars
  BY MailInvariant, DeliveriesAreAttended, PTL DEF MailSpec
<1>4. QED
  BY <1>1, <1>2, <1>3, PTL DEF CountersStop, AllRunsStop, HandlersGoOn, AllRunsRest

(***************************************************************************)
(* Where the messages stop, they are settled: RabbitMQ would deliver one   *)
(* that is ready, and a handler would be at work on one that is delivered. *)
(***************************************************************************)
THEOREM MessagesSettle ==
    MailSpec /\ CountersStop /\ AllRunsRest /\ AllMessagesStop /\ RabbitGoesOn
        => EveryMessageSettles
<1> DEFINE Worker == WorkerInv /\ Attendance
           Rests == \A x \in Runs : stage[x] \notin Running
           NoneWaits == \A m \in Messages : broker[m] \notin {"ready", "dead"}
           Still == \A m \in Messages : broker'[m] = broker[m]
           Goes == \E m \in Messages : Transport(m) /\ UNCHANGED <<bookingVars, added>>
           AllSettled == \A m \in Messages : broker[m] \in {"unpublished"} \cup Settled
<1>1. NoneWaits /\ [Still]_mailAllVars => NoneWaits'
  BY DEF mailAllVars, mailVars
<1>2. Worker /\ [MailNext]_mailAllVars /\ [Quiet]_mailAllVars /\ [Still]_mailAllVars
          => ~<<Goes>>_mailAllVars
  <2> SUFFICES ASSUME Worker, [MailNext]_mailAllVars, [Quiet]_mailAllVars,
                      [Still]_mailAllVars,
                      NEW m \in Messages, Transport(m)
               PROVE  FALSE
    OBVIOUS
  <2>1. LogDeadLetter(m)
    BY QuietIsOnward, OrderlyDelivery DEF Transport
  <2>2. broker'[m] # broker[m]
    BY <2>1 DEF LogDeadLetter, WorkerInv, TypeOK
  <2>3. QED
    BY <2>2 DEF mailAllVars, mailVars
<1>3. Worker /\ Rests /\ NoneWaits => AllSettled
  <2> SUFFICES ASSUME Worker, Rests, NoneWaits, NEW m \in Messages
               PROVE  broker[m] \in {"unpublished"} \cup Settled
    OBVIOUS
  <2>1. broker[m] # "unacked"
    BY WorkerNumbers DEF Attendance, Attended
  <2>2. QED
    BY <2>1 DEF WorkerInv, TypeOK
<1>4. MailSpec => []Worker /\ [][MailNext]_mailAllVars
  BY MailInvariant, DeliveriesAreAttended, PTL DEF MailSpec
<1>5. EveryMessageSettles <=> <>[]AllSettled
  BY DEF EveryMessageSettles
<1>6. AllRunsRest <=> <>[]Rests
  BY DEF AllRunsRest
<1>7. QED
  BY <1>1, <1>2, <1>3, <1>4, <1>5, <1>6, PTL
     DEF CountersStop, AllMessagesStop, RabbitGoesOn

Bounded == [](faults \in 0..MaxFaults /\ attempts \in [Runs -> 0..MaxAttempts])

\* What holds of finitely many messages, and so of runs: counters that only grow
\* and have a bound stop, and where each of them stops, all of them stop.
ComeTogether ==
    /\ Bounded /\ Growth => CountersStop
    /\ (\A x \in Runs : RunStops(x)) => AllRunsStop
    /\ (\A m \in Messages : MessageStops(m)) => AllMessagesStop

(***************************************************************************)
(* Redelivery, retries, crashes, lost connections and restarts together    *)
(* never leave a message waiting for ever.                                 *)
(***************************************************************************)
THEOREM AllMessagesSettle ==
    MailSpec /\ HandlersGoOn /\ RabbitGoesOn /\ ComeTogether => EveryMessageSettles
<1>1. WorkerInv => faults \in 0..MaxFaults /\ attempts \in [Runs -> 0..MaxAttempts]
  BY DEF WorkerInv, TypeOK
<1>2. MailSpec => Bounded
  BY <1>1, MailInvariant, PTL DEF Bounded
<1>3. MailSpec /\ ComeTogether => CountersStop
  BY <1>2, CountersOnlyGrow DEF ComeTogether
<1>4. \A x \in Runs : MailSpec /\ CountersStop => RunStops(x)
  BY RunsStop
<1>5. \A m \in Messages : MailSpec /\ CountersStop => MessageStops(m)
  BY MessagesStop
<1>6. MailSpec /\ ComeTogether => AllRunsStop /\ AllMessagesStop
  BY <1>3, <1>4, <1>5 DEF ComeTogether
<1>7. QED
  BY <1>3, <1>6, HandlersEnd, MessagesSettle
=============================================================================

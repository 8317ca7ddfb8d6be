-------------------------- MODULE RateLimiterProofs --------------------------
(* Theorems about the rate limiter, for every limit, window, number of        *)
(* requests and delay of scripts up to the window.                            *)
EXTENDS RateLimiter, FiniteSetTheorems, TLAPS

\* What the invariant says of numbers.
LEMMA LimiterNumbers ==
    ASSUME LimiterInv
    PROVE  /\ {Limit, Window, Slack, MaxDelay, MaxTime, MaxFaults} \subseteq Nat
           /\ MaxDelay <= Window /\ Window > 0 /\ NoMember \notin Members
           /\ clock \in Nat /\ expireAt \in Nat
           /\ late \in Nat /\ late <= Window /\ late <= MaxDelay
           /\ \A r \in Requests : stamp[r] \in Nat /\ stamp[r] \in Times
           /\ kept \subseteq Requests /\ Passed \subseteq kept
           /\ struck \subseteq Requests /\ faults \in Nat
           /\ \A m \in zset : m \in Members /\ m.score \in Nat
BY RateLimiterAssumption DEF LimiterInv, TypeOK, Times, Members, Passed

\* A part of a window has no more members than the window.
LEMMA SmallerWindow ==
    ASSUME NEW S, NEW T \in SUBSET S, IsFiniteSet(S), NEW n \in Nat, Cardinality(S) <= n
    PROVE  IsFiniteSet(T) /\ Cardinality(T) <= n
<1>1. IsFiniteSet(T) /\ Cardinality(T) <= Cardinality(S)
  BY FS_Subset
<1>2. Cardinality(S) \in Nat /\ Cardinality(T) \in Nat
  BY <1>1, FS_CardinalityType
<1>3. QED
  BY <1>1, <1>2

\* Two sets together have no more members than both of their bounds.
LEMMA UnionOfBounded ==
    ASSUME NEW S, NEW T, IsFiniteSet(S), IsFiniteSet(T), NEW m \in Nat, NEW n \in Nat,
           Cardinality(S) <= m, Cardinality(T) <= n
    PROVE  IsFiniteSet(S \cup T) /\ Cardinality(S \cup T) <= m + n
<1>1. /\ IsFiniteSet(S \cup T) /\ IsFiniteSet(S \cap T)
      /\ Cardinality(S \cup T) = Cardinality(S) + Cardinality(T) - Cardinality(S \cap T)
  BY FS_Union, FS_Intersection
<1>2. /\ Cardinality(S) \in Nat /\ Cardinality(T) \in Nat /\ Cardinality(S \cap T) \in Nat
  BY <1>1, FS_CardinalityType
<1>3. QED
  BY <1>1, <1>2

\* The bound on losses grows with the failures.
LEMMA BoundGrows ==
    ASSUME NEW a \in Nat, NEW b \in Nat, NEW c \in Nat, b <= c
    PROVE  /\ a * b \in Nat /\ a * c \in Nat /\ a * b <= a * c
           /\ a * (b + 1) = a * b + a
<1>1. a * b \in Nat /\ a * c \in Nat
  OBVIOUS
<1>2. a * b <= a * c
  OBVIOUS
<1>3. a * (b + 1) = a * b + a
  OBVIOUS
<1>4. QED
  BY <1>1, <1>2, <1>3

\* Losses stay within their bound where no failure adds to them.
LEMMA FewerLost ==
    ASSUME LimiterInv, faults' \in Nat, faults' >= faults,
           \A end \in Times : LostIn(end)' \subseteq LostIn(end)
    PROVE  LossesBounded'
<1> SUFFICES ASSUME NEW end \in Times
             PROVE  /\ IsFiniteSet(LostIn(end)')
                    /\ Cardinality(LostIn(end)') <= Limit * faults'
  BY DEF LossesBounded
<1>1. /\ IsFiniteSet(LostIn(end)) /\ Cardinality(LostIn(end)) <= Limit * faults
      /\ Limit \in Nat /\ faults \in Nat
  BY LimiterNumbers DEF LimiterInv, LossesBounded
<1>2. Limit * faults \in Nat /\ Limit * faults' \in Nat /\ Limit * faults <= Limit * faults'
  BY <1>1, BoundGrows
<1>3. /\ IsFiniteSet(LostIn(end)') /\ Cardinality(LostIn(end)') <= Limit * faults
  BY <1>1, <1>2, SmallerWindow
<1>4. Cardinality(LostIn(end)') \in Nat
  BY <1>3, FS_CardinalityType
<1>5. QED
  BY <1>2, <1>3, <1>4

(***************************************************************************)
(* A request takes a step that Redis does not notice.                      *)
(***************************************************************************)
LEMMA UnnoticedInvariant ==
    ASSUME LimiterInv, TypeOK', NEW r \in Requests,
           pc[r] # "done", verdict'[r] \in {"none", "open"},
           UNCHANGED <<clock, zset, expireAt, member, kept, late>>,
           faults' \in Nat, faults' >= faults,
           \A q \in Requests : q # r => stamp'[q] = stamp[q] /\ verdict'[q] = verdict[q],
           \A q \in Requests : RequestShape(q)'
    PROVE  LimiterInv'
<1>1. /\ SetHolds /\ WindowLimit /\ DeniedWithReason
      /\ \A end \in Times : IsFiniteSet(InWindow(end))
      /\ r \notin Recorded /\ r \notin kept /\ kept \subseteq Requests
  BY LimiterNumbers DEF LimiterInv, RequestShape, Recorded, SetHolds
<1>2. Recorded' = Recorded /\ Passed' = Passed
  BY <1>1 DEF Recorded, Passed
<1>3. SetHolds'
  BY <1>1, <1>2 DEF SetHolds
<1>4. ASSUME NEW end \in Times PROVE InWindow(end)' = InWindow(end)
  BY <1>1, <1>2 DEF InWindow, PassedIn, Passed
<1>5. DeniedWithReason'
  <2> SUFFICES ASSUME NEW q \in Requests, verdict'[q] = "denied"
               PROVE  Cardinality({p \in Recorded' : stamp'[p] > stamp'[q] - Window}) > Limit
    BY DEF DeniedWithReason
  <2>1. q # r /\ verdict[q] = "denied" /\ stamp'[q] = stamp[q]
    OBVIOUS
  <2>2. {p \in Recorded' : stamp'[p] > stamp'[q] - Window}
            = {p \in Recorded : stamp[p] > stamp[q] - Window}
    BY <1>1, <1>2, <2>1 DEF Recorded
  <2>3. QED
    BY <1>1, <2>1, <2>2 DEF DeniedWithReason
<1>6. LossesBounded'
  <2>1. ASSUME NEW end \in Times PROVE LostIn(end)' \subseteq LostIn(end)
    BY <1>1 DEF LostIn
  <2>2. QED
    BY <2>1, FewerLost
<1>7. QED
  BY <1>1, <1>3, <1>4, <1>5, <1>6 DEF LimiterInv, WindowLimit

(***************************************************************************)
(* The script of a request runs.                                           *)
(***************************************************************************)
LEMMA RecordInvariant ==
    ASSUME LimiterInv, TypeOK', NEW r \in Requests, NEW t \in Tags, NEW result,
           pc[r] = "eval",
           Record(r, [score |-> stamp[r], tag |-> t]),
           Return(r, result),
           UNCHANGED <<clock, stamp, script>>,
           faults' \in Nat, faults' >= faults, struck \subseteq struck',
           result = "open" => r \in struck',
           result = "open" \/ result = Verdict(Cardinality(zset'))
    PROVE  LimiterInv'
<1> DEFINE m == [score |-> stamp[r], tag |-> t]
<1>1. /\ TypeOK /\ SetHolds /\ WindowLimit /\ DeniedWithReason
      /\ \A q \in Requests : RequestShape(q)
      /\ \A end \in Times : IsFiniteSet(InWindow(end))
  BY DEF LimiterInv
<1>2. /\ stamp[r] <= clock /\ clock <= stamp[r] + MaxDelay
      /\ member[r] = NoMember /\ r \notin Recorded /\ r \notin kept
      /\ m \in Members /\ m # NoMember
  BY <1>1, LimiterNumbers DEF RequestShape, Waiting, Recorded, SetHolds, Members
<1>3. /\ member'[r] = m /\ verdict'[r] = result /\ pc'[r] = "done"
      /\ \A q \in Requests : q # r => /\ member'[q] = member[q]
                                     /\ verdict'[q] = verdict[q]
                                     /\ pc'[q] = pc[q]
      /\ kept' = kept \cup {r} /\ zset' = Pruned(stamp[r]) \cup {m}
      /\ expireAt' = clock + Window + Slack
  BY <1>1 DEF TypeOK, Record, Return
<1>4. /\ late' \in Nat /\ late' >= late /\ late' <= Window
      /\ late' >= clock - stamp[r]
  BY <1>2, LimiterNumbers DEF Record
<1>5. Recorded' = Recorded \cup {r}
  BY <1>2, <1>3 DEF Recorded
<1>6. \A q \in Requests : RequestShape(q)'
  <2>1. result # "none" /\ (result = "allowed" => r \in Recorded')
    BY <1>5 DEF Verdict
  <2>2. QED
    BY <1>1, <1>2, <1>3, <1>5, <2>1 DEF RequestShape, Waiting
<1>7. IsFiniteSet(zset') /\ IsFiniteSet(Recorded')
  <2>1. IsFiniteSet(Pruned(stamp[r]))
    BY <1>1, FS_Subset DEF SetHolds, Pruned
  <2>2. QED
    BY <1>1, <1>3, <1>5, <2>1, FS_AddElement DEF SetHolds
<1>8. ASSUME NEW q \in kept' PROVE member'[q] \in zset' \/ stamp[q] + Window <= clock
  <2>1. CASE q = r
    BY <1>3, <2>1
  <2>2. CASE q # r
    <3>1. /\ q \in kept /\ q \in Requests /\ member'[q] = member[q]
          /\ member[q] # NoMember /\ member[q].score = stamp[q]
          /\ member[q] \in zset \/ stamp[q] + Window <= clock
      BY <1>1, <1>3, <2>2 DEF SetHolds, Recorded, RequestShape
    <3>2. CASE member[q] \in Pruned(stamp[r])
      BY <1>3, <3>1, <3>2
    <3>3. CASE member[q] \in zset /\ member[q] \notin Pruned(stamp[r])
      BY <1>2, <3>1, <3>3, LimiterNumbers DEF Pruned
    <3>4. QED
      BY <3>1, <3>2, <3>3
  <2>3. QED
    BY <2>1, <2>2
<1>9. ASSUME NEW x \in zset'
      PROVE  (\E q \in Recorded' : member'[q] = x) /\ x.score + Window <= expireAt'
  <2>1. CASE x = m
    BY <1>2, <1>3, <1>5, <2>1, LimiterNumbers
  <2>2. CASE x \in zset
    <3>1. PICK q \in Recorded : member[q] = x
      BY <1>1, <2>2 DEF SetHolds
    <3>2. q # r /\ q \in Recorded' /\ member'[q] = x /\ q \in Requests
      BY <1>2, <1>3, <1>5, <3>1 DEF Recorded
    <3>3. x.score <= clock /\ x.score \in Nat
      BY <1>1, <2>2, <3>1, <3>2, LimiterNumbers DEF RequestShape, Recorded
    <3>4. QED
      BY <1>3, <3>2, <3>3, LimiterNumbers
  <2>3. QED
    BY <1>3, <2>1, <2>2 DEF Pruned
<1>10. SetHolds'
  BY <1>1, <1>3, <1>5, <1>7, <1>8, <1>9 DEF SetHolds
<1>11. ASSUME NEW end \in Times
       PROVE  IsFiniteSet(InWindow(end)') /\ Cardinality(InWindow(end)') <= Limit
  <2>1. end \in Nat /\ Limit \in Nat
    BY LimiterNumbers DEF Times
  <2>2. CASE r \in Passed' /\ stamp[r] \in (end - (Window - late') + 1)..end
    <3>1. Cardinality(zset') <= Limit
      BY <1>3, <2>2 DEF Passed, Verdict
    <3>2. ASSUME NEW q \in Passed', stamp[q] \in (end - (Window - late') + 1)..end
          PROVE  member'[q] \in zset'
      <4>1. q \in kept' /\ q \in Requests /\ stamp[q] \in Nat
        BY <1>2, <1>3, LimiterNumbers DEF Passed
      <4>2. ~(stamp[q] + Window <= clock)
        BY <1>2, <1>4, <2>1, <2>2, <3>2, <4>1, LimiterNumbers
      <4>3. QED
        BY <1>8, <4>1, <4>2
    <3>3. InWindow(end)' \subseteq zset'
      BY <3>2 DEF InWindow, PassedIn
    <3>4. QED
      BY <1>7, <2>1, <3>1, <3>3, SmallerWindow
  <2>3. CASE ~(r \in Passed' /\ stamp[r] \in (end - (Window - late') + 1)..end)
    <3>1. ASSUME NEW q \in Passed', stamp[q] \in (end - (Window - late') + 1)..end
          PROVE  /\ q \in Passed /\ member'[q] = member[q]
                 /\ stamp[q] \in (end - (Window - late) + 1)..end
      <4>1. q # r /\ q \in Passed /\ q \in Requests /\ member'[q] = member[q]
        BY <1>3, <2>3, <3>1, LimiterNumbers DEF Passed
      <4>2. QED
        BY <1>4, <2>1, <3>1, <4>1, LimiterNumbers
    <3>2. InWindow(end)' \subseteq InWindow(end)
      BY <3>1 DEF InWindow, PassedIn
    <3>3. QED
      BY <1>1, <2>1, <3>2, SmallerWindow DEF WindowLimit
  <2>4. QED
    BY <2>2, <2>3
<1>12. DeniedWithReason'
  <2> SUFFICES ASSUME NEW q \in Requests, verdict'[q] = "denied"
               PROVE  Cardinality({p \in Recorded' : stamp[p] > stamp[q] - Window}) > Limit
    BY DEF DeniedWithReason
  <2> DEFINE D == {p \in Recorded' : stamp[p] > stamp[q] - Window}
  <2>1. IsFiniteSet(D) /\ Cardinality(D) \in Nat /\ Limit \in Nat
    BY <1>7, FS_Subset, FS_CardinalityType, LimiterNumbers
  <2>2. CASE q = r
    <3>1. Cardinality(zset') > Limit
      <4>1. Cardinality(zset') \in Nat
        BY <1>7, FS_CardinalityType
      <4>2. QED
        BY <1>3, <2>1, <2>2, <4>1 DEF Verdict
    <3>2. zset' \subseteq {member'[p] : p \in D}
      <4> SUFFICES ASSUME NEW x \in zset' PROVE x \in {member'[p] : p \in D}
        OBVIOUS
      <4>1. CASE x = m
        <5>1. r \in D
          BY <1>5, <2>2, LimiterNumbers
        <5>2. QED
          BY <1>3, <4>1, <5>1
      <4>2. CASE x \in Pruned(stamp[r])
        <5>1. PICK p \in Recorded' : member'[p] = x
          BY <1>9
        <5>2. stamp[p] = x.score /\ x.score > stamp[r] - Window
          BY <1>2, <1>3, <1>5, <1>6, <4>2, <5>1 DEF RequestShape, Recorded, Pruned
        <5>3. QED
          BY <2>2, <5>1, <5>2
      <4>3. QED
        BY <1>3, <4>1, <4>2
    <3>3. QED
      <4> DEFINE I == {member'[p] : p \in D}
      <4>1. IsFiniteSet(I) /\ Cardinality(I) <= Cardinality(D)
        <5> DEFINE f == [p \in D |-> member'[p]]
        <5>1. f \in Surjection(D, I)
          BY DEF Surjection
        <5> HIDE DEF f, I, D
        <5>2. QED
          BY <2>1, <5>1, FS_Surjection DEF ExistsSurjection
      <4>2. Cardinality(zset') <= Cardinality(I)
        BY <3>2, <4>1, FS_Subset
      <4>3. Cardinality(zset') \in Nat /\ Cardinality(I) \in Nat
        BY <1>7, <4>1, FS_CardinalityType
      <4>4. Cardinality(D) > Limit
        <5> HIDE DEF I, D
        <5>1. QED
          BY <2>1, <3>1, <4>1, <4>2, <4>3
      <4>5. QED
        BY <4>4
  <2>3. CASE q # r
    <3> DEFINE C == {p \in Recorded : stamp[p] > stamp[q] - Window}
    <3>1. Cardinality(C) > Limit
      BY <1>1, <1>3, <2>3 DEF DeniedWithReason
    <3>2. C \subseteq D
      BY <1>5
    <3>3. Cardinality(C) <= Cardinality(D) /\ IsFiniteSet(C)
      BY <2>1, <3>2, FS_Subset
    <3>4. Cardinality(C) \in Nat
      BY <3>3, FS_CardinalityType
    <3>5. Cardinality(D) > Limit
      <4> HIDE DEF C, D
      <4>1. QED
        BY <2>1, <3>1, <3>3, <3>4
    <3>6. QED
      BY <3>5
  <2>4. QED
    BY <2>2, <2>3
<1>13. LossesBounded'
  <2>1. ASSUME NEW end \in Times, NEW q \in Requests \ kept', verdict'[q] = "allowed",
               stamp[q] \in (end - (Window - late') + 1)..end
        PROVE  /\ q \in Requests \ kept /\ verdict[q] = "allowed"
               /\ member'[q] = member[q]
               /\ stamp[q] \in (end - (Window - late) + 1)..end
    <3>1. q # r /\ end \in Nat /\ stamp[q] \in Nat
      BY <1>3, LimiterNumbers DEF Times
    <3>2. QED
      BY <1>3, <1>4, <2>1, <3>1, LimiterNumbers
  <2>2. ASSUME NEW end \in Times PROVE LostIn(end)' \subseteq LostIn(end)
    BY <2>1 DEF LostIn
  <2>3. QED
    BY <2>2, FewerLost
<1>14. QED
  BY <1>6, <1>10, <1>11, <1>12, <1>13 DEF LimiterInv, WindowLimit

(***************************************************************************)
(* Time goes on, and the key may expire.                                   *)
(***************************************************************************)
LEMMA TickInvariant ==
    ASSUME LimiterInv, TypeOK', Tick
    PROVE  LimiterInv'
<1> USE DEF Tick
<1>1. /\ SetHolds /\ WindowLimit /\ DeniedWithReason
      /\ \A q \in Requests : RequestShape(q)
      /\ \A end \in Times : IsFiniteSet(InWindow(end))
      /\ Recorded' = Recorded /\ Passed' = Passed
  BY DEF LimiterInv, Recorded, Passed
<1>2. \A q \in Requests : RequestShape(q)'
  BY <1>1, LimiterNumbers DEF RequestShape, Recorded
<1>3. IsFiniteSet(zset') /\ zset' \subseteq zset
  BY <1>1, FS_EmptySet DEF SetHolds
<1>4. ASSUME NEW q \in kept PROVE member[q] \in zset' \/ stamp[q] + Window <= clock'
  <2>1. /\ q \in Requests /\ stamp[q] \in Nat /\ member[q] # NoMember
        /\ member[q].score = stamp[q]
    BY <1>1, LimiterNumbers DEF SetHolds, Recorded, RequestShape
  <2>2. CASE stamp[q] + Window <= clock
    BY <2>1, <2>2, LimiterNumbers
  <2>3. CASE member[q] \in zset
    BY <1>1, <2>1, <2>3, LimiterNumbers DEF SetHolds
  <2>4. QED
    BY <1>1, <2>2, <2>3 DEF SetHolds
<1>5. SetHolds'
  BY <1>1, <1>3, <1>4 DEF SetHolds
<1>6. ASSUME NEW end \in Times PROVE InWindow(end)' = InWindow(end)
  BY <1>1 DEF InWindow, PassedIn
<1>7. LossesBounded'
  BY DEF LimiterInv, LossesBounded, LostIn
<1>8. QED
  BY <1>1, <1>2, <1>5, <1>6, <1>7 DEF LimiterInv, WindowLimit, DeniedWithReason

(***************************************************************************)
(* Redis restarts, and some members are lost with their requests: no more  *)
(* of a window than it had let pass.                                       *)
(***************************************************************************)
LEMMA RestartInvariant ==
    ASSUME LimiterInv, TypeOK', RedisRestart
    PROVE  LimiterInv'
<1>1. PICK saved \in SUBSET zset :
          /\ zset' = saved
          /\ kept' = {r \in kept : member[r] \notin zset \ saved}
          /\ UNCHANGED <<clock, expireAt, pc, stamp, member, verdict, late>>
  BY DEF RedisRestart
<1>2. /\ SetHolds /\ WindowLimit /\ DeniedWithReason
      /\ \A q \in Requests : RequestShape(q)
      /\ \A end \in Times : IsFiniteSet(InWindow(end))
      /\ Recorded' = Recorded /\ Passed' \subseteq Passed
  BY <1>1 DEF LimiterInv, Recorded, Passed
<1>3. SetHolds'
  <2>1. IsFiniteSet(zset')
    BY <1>1, <1>2, FS_Subset DEF SetHolds
  <2>2. QED
    BY <1>1, <1>2, <2>1 DEF SetHolds
<1>4. ASSUME NEW end \in Times
      PROVE  IsFiniteSet(InWindow(end)') /\ Cardinality(InWindow(end)') <= Limit
  <2>1. InWindow(end)' \subseteq InWindow(end)
    BY <1>1, <1>2 DEF InWindow, PassedIn
  <2>2. QED
    BY <1>2, <2>1, SmallerWindow, LimiterNumbers DEF WindowLimit
<1>5. faults' = faults + 1 /\ struck' = struck \cup {r \in Requests : pc[r] \in Waiting}
  BY DEF RedisRestart, Fault
<1>6. LossesBounded'
  <2> SUFFICES ASSUME NEW end \in Times
               PROVE  /\ IsFiniteSet(LostIn(end)')
                      /\ Cardinality(LostIn(end)') <= Limit * faults'
    BY DEF LossesBounded
  <2>1. LostIn(end)' \subseteq LostIn(end) \cup InWindow(end)
    BY <1>1 DEF LostIn, InWindow, PassedIn, Passed
  <2>2. /\ IsFiniteSet(LostIn(end)) /\ Cardinality(LostIn(end)) <= Limit * faults
        /\ IsFiniteSet(InWindow(end)) /\ Cardinality(InWindow(end)) <= Limit
        /\ Limit \in Nat /\ faults \in Nat
    BY <1>2, LimiterNumbers DEF LimiterInv, LossesBounded, WindowLimit
  <2>3. /\ Limit * faults \in Nat /\ Limit * faults' \in Nat
        /\ Limit * faults' = Limit * faults + Limit
    BY <1>5, <2>2, BoundGrows
  <2>4. /\ IsFiniteSet(LostIn(end) \cup InWindow(end))
        /\ Cardinality(LostIn(end) \cup InWindow(end)) <= Limit * faults + Limit
    BY <2>2, <2>3, UnionOfBounded
  <2>5. QED
    BY <2>1, <2>3, <2>4, SmallerWindow
<1>7. \A q \in Requests : RequestShape(q)'
  BY <1>1, <1>2, <1>5 DEF RequestShape, Waiting
<1>8. QED
  BY <1>1, <1>2, <1>3, <1>4, <1>6, <1>7 DEF LimiterInv, WindowLimit, DeniedWithReason

(***************************************************************************)
(* Types, step by step.                                                    *)
(***************************************************************************)
LEMMA TypesOfStep ==
    ASSUME LimiterInv, Next
    PROVE  TypeOK'
<1> USE DEF Times, Waiting
<1>1. /\ TypeOK /\ \A r \in Requests : RequestShape(r)
  BY DEF LimiterInv
<1>2. ASSUME NEW r \in Requests, NEW m \in Members, pc[r] = "eval", Record(r, m),
             UNCHANGED clock
      PROVE  /\ zset' \subseteq Members /\ expireAt' \in 0..(MaxTime + Window + Slack)
             /\ member' \in [Requests -> Members \cup {NoMember}]
             /\ kept' \subseteq Requests /\ late' \in 0..MaxDelay
  <2>1. stamp[r] <= clock /\ clock <= stamp[r] + MaxDelay
    BY <1>1, <1>2 DEF RequestShape
  <2>2. late' \in 0..MaxDelay /\ expireAt' \in 0..(MaxTime + Window + Slack)
    BY <1>1, <1>2, <2>1, LimiterNumbers DEF TypeOK, Record
  <2>3. QED
    BY <1>1, <1>2, <2>2 DEF TypeOK, Record, Pruned
<1>3. ASSUME NEW r \in Requests, NEW t \in Tags
      PROVE  [score |-> stamp[r], tag |-> t] \in Members
  BY <1>1 DEF TypeOK, Members
<1>4. ASSUME NEW r \in Requests, Stamp(r) PROVE TypeOK'
  BY <1>1, <1>4 DEF TypeOK, Stamp
<1>5. ASSUME NEW r \in Requests, LoadScript(r) PROVE TypeOK'
  BY <1>1, <1>5 DEF TypeOK, LoadScript
<1>6. ASSUME NEW r \in Requests, Evaluate(r) PROVE TypeOK'
  <2>1. PICK t \in Tags : Record(r, [score |-> stamp[r], tag |-> t])
    BY <1>6 DEF Evaluate
  <2>2. Verdict(Cardinality(zset')) \in {"allowed", "denied"}
    BY DEF Verdict
  <2>3. QED
    BY <1>1, <1>2, <1>3, <1>6, <2>1, <2>2 DEF TypeOK, Evaluate, Return
<1>7. ASSUME NEW r \in Requests, NoScript(r) PROVE TypeOK'
  BY <1>1, <1>7 DEF TypeOK, NoScript, Return
<1>8. ASSUME NEW r \in Requests, FailOpen(r) PROVE TypeOK'
  BY <1>1, <1>8, LimiterNumbers DEF TypeOK, FailOpen, Return, Fault
<1>9. ASSUME NEW r \in Requests, AnswerLost(r) PROVE TypeOK'
  <2>1. PICK t \in Tags : Record(r, [score |-> stamp[r], tag |-> t])
    BY <1>9 DEF AnswerLost
  <2>2. faults' \in 0..MaxFaults /\ struck' \subseteq Requests
    BY <1>1, <1>9, LimiterNumbers DEF TypeOK, AnswerLost, Fault
  <2>3. /\ zset' \subseteq Members /\ expireAt' \in 0..(MaxTime + Window + Slack)
        /\ member' \in [Requests -> Members \cup {NoMember}]
        /\ kept' \subseteq Requests /\ late' \in 0..MaxDelay
    BY <1>2, <1>3, <1>9, <2>1 DEF AnswerLost
  <2>4. QED
    BY <1>1, <1>9, <2>2, <2>3 DEF TypeOK, AnswerLost, Return
<1>10. CASE Tick
  BY <1>1, <1>10, LimiterNumbers DEF TypeOK, Tick
<1>11. CASE RedisRestart
  <2>1. faults' \in 0..MaxFaults /\ struck' \subseteq Requests
    BY <1>1, <1>11, LimiterNumbers DEF TypeOK, RedisRestart, Fault
  <2>2. QED
    BY <1>1, <1>11, <2>1 DEF TypeOK, RedisRestart
<1>12. CASE AllDone
  BY <1>1, <1>12 DEF TypeOK, AllDone, vars
<1>13. QED
  BY <1>4, <1>5, <1>6, <1>7, <1>8, <1>9, <1>10, <1>11, <1>12 DEF Next

-----------------------------------------------------------------------------

\* What is known of every request and of the sorted set.
THEOREM LimiterInvariant == Spec => []LimiterInv
<1>1. ASSUME Init PROVE LimiterInv
  <2>1. TypeOK
    <3>1. {Window, Slack, MaxDelay, MaxTime, MaxFaults} \subseteq Nat
      BY RateLimiterAssumption
    <3>2. /\ 0 \in Times /\ 0 \in 0..(MaxTime + Window + Slack)
          /\ 0 \in 0..MaxDelay /\ 0 \in 0..MaxFaults
      BY <3>1 DEF Times
    <3>3. QED
      BY <1>1, <3>2 DEF Init, TypeOK
  <2>2. SetHolds /\ (\A r \in Requests : RequestShape(r)) /\ DeniedWithReason
    <3>1. Recorded = {}
      BY <1>1 DEF Init, Recorded
    <3>2. QED
      BY <1>1, <3>1, FS_EmptySet
         DEF Init, SetHolds, RequestShape, Waiting, DeniedWithReason
  <2>3. ASSUME NEW end \in Times
        PROVE  IsFiniteSet(InWindow(end)) /\ Cardinality(InWindow(end)) <= Limit
    <3>1. InWindow(end) = {}
      BY <1>1 DEF Init, InWindow, PassedIn, Passed
    <3>2. QED
      BY <3>1, FS_EmptySet, RateLimiterAssumption
  <2>4. ASSUME NEW end \in Times
        PROVE  IsFiniteSet(LostIn(end)) /\ Cardinality(LostIn(end)) <= Limit * faults
    <3>1. LostIn(end) = {} /\ faults = 0
      BY <1>1 DEF Init, LostIn
    <3>2. QED
      BY <3>1, FS_EmptySet, RateLimiterAssumption
  <2>5. QED
    BY <2>1, <2>2, <2>3, <2>4 DEF LimiterInv, WindowLimit, LossesBounded
<1>2. ASSUME LimiterInv, [Next]_vars PROVE LimiterInv'
  <2>1. CASE UNCHANGED vars
    BY <1>2, <2>1
       DEF LimiterInv, TypeOK, RequestShape, SetHolds, Recorded, WindowLimit,
           InWindow, PassedIn, Passed, LossesBounded, LostIn, DeniedWithReason, vars
  <2>2. CASE Next
    <3>1. TypeOK'
      BY <1>2, <2>2, TypesOfStep
    <3>2. ASSUME NEW r \in Requests, Stamp(r) \/ LoadScript(r) \/ NoScript(r) \/ FailOpen(r)
          PROVE  LimiterInv'
      <4>1. TypeOK /\ \A q \in Requests : RequestShape(q)
        BY <1>2 DEF LimiterInv
      <4>2. pc[r] # "done" /\ UNCHANGED <<clock, zset, expireAt, member, kept, late>>
        BY <3>2 DEF Stamp, LoadScript, NoScript, FailOpen, Waiting
      <4>3. /\ \A q \in Requests : q # r =>
                   stamp'[q] = stamp[q] /\ verdict'[q] = verdict[q] /\ pc'[q] = pc[q]
            /\ verdict'[r] \in {"none", "open"}
            /\ faults' \in Nat /\ faults' >= faults /\ struck \subseteq struck'
            /\ script' = script \/ script'
        BY <1>2, <3>2, <4>1, LimiterNumbers
           DEF Stamp, LoadScript, NoScript, FailOpen, Fault, Return, TypeOK, RequestShape
      <4>4. RequestShape(r)'
        <5>1. clock \in Nat /\ stamp[r] \in Nat /\ MaxDelay \in Nat
          BY <1>2, LimiterNumbers
        <5>2. CASE Stamp(r)
          BY <4>1, <5>1, <5>2 DEF Stamp, TypeOK, RequestShape, Waiting
        <5>3. CASE LoadScript(r)
          BY <4>1, <5>3 DEF LoadScript, TypeOK, RequestShape, Waiting
        <5>4. CASE NoScript(r) \/ FailOpen(r)
          BY <4>1, <5>4 DEF NoScript, FailOpen, Fault, Return, TypeOK, RequestShape, Waiting
        <5>5. QED
          BY <3>2, <5>2, <5>3, <5>4
      <4>5. \A q \in Requests : RequestShape(q)'
        BY <4>1, <4>2, <4>3, <4>4 DEF RequestShape, Recorded
      <4>6. QED
        BY <1>2, <3>1, <4>2, <4>3, <4>5, UnnoticedInvariant
    <3>3. ASSUME NEW r \in Requests, Evaluate(r) PROVE LimiterInv'
      <4>1. PICK t \in Tags : Record(r, [score |-> stamp[r], tag |-> t])
        BY <3>3 DEF Evaluate
      <4>2. Verdict(Cardinality(zset')) # "open"
        BY DEF Verdict
      <4>3. faults' \in Nat /\ faults' >= faults /\ struck' = struck
        BY <1>2, <3>3, LimiterNumbers DEF Evaluate
      <4>4. QED
        BY <1>2, <3>1, <3>3, <4>1, <4>2, <4>3, RecordInvariant DEF Evaluate
    <3>4. ASSUME NEW r \in Requests, AnswerLost(r) PROVE LimiterInv'
      <4>1. PICK t \in Tags : Record(r, [score |-> stamp[r], tag |-> t])
        BY <3>4 DEF AnswerLost
      <4>2. /\ faults' \in Nat /\ faults' >= faults
            /\ struck \subseteq struck' /\ r \in struck'
        BY <1>2, <3>4, LimiterNumbers DEF AnswerLost, Fault
      <4>3. QED
        BY <1>2, <3>1, <3>4, <4>1, <4>2, RecordInvariant DEF AnswerLost
    <3>5. CASE AllDone
      BY <2>1, <3>5 DEF AllDone
    <3>6. QED
      BY <1>2, <2>2, <3>1, <3>2, <3>3, <3>4, <3>5, TickInvariant, RestartInvariant DEF Next
  <2>3. QED
    BY <1>2, <2>1, <2>2
<1>3. QED
  BY <1>1, <1>2, PTL DEF Spec

\* Every variable of the limiter keeps its type.
THEOREM LimiterTypeCorrect == Spec => []TypeOK
<1>1. LimiterInv => TypeOK
  BY DEF LimiterInv
<1>2. QED
  BY <1>1, LimiterInvariant, PTL

\* No window, shortened by the delay of scripts, lets more than Limit members
\* pass: in any order of scripts, with failures, expiry and restarts of Redis.
THEOREM NoWindowExceedsLimit == Spec => []WindowLimit
<1>1. LimiterInv => WindowLimit
  BY DEF LimiterInv
<1>2. QED
  BY <1>1, LimiterInvariant, PTL

\* What passes beyond that is bounded by the failures of Redis: those who pass
\* uncounted were under way at one, and the members that a window let pass are
\* those which Redis still has and those which the failures have lost.
THEOREM FailuresCostLittle == Spec => []FailuresAreBounded
<1>1. ASSUME LimiterInv, NEW end \in Times
      PROVE  Cardinality(AllowedIn(end)) <= Limit * (1 + faults)
  <2>1. /\ IsFiniteSet(InWindow(end)) /\ Cardinality(InWindow(end)) <= Limit
        /\ IsFiniteSet(LostIn(end)) /\ Cardinality(LostIn(end)) <= Limit * faults
        /\ Limit \in Nat /\ faults \in Nat
    BY <1>1, LimiterNumbers DEF LimiterInv, WindowLimit, LossesBounded
  <2>2. Limit * faults \in Nat /\ Limit * (1 + faults) = Limit + Limit * faults
    BY <2>1
  <2>3. /\ IsFiniteSet(InWindow(end) \cup LostIn(end))
        /\ Cardinality(InWindow(end) \cup LostIn(end)) <= Limit + Limit * faults
    BY <2>1, <2>2, UnionOfBounded
  <2>4. AllowedIn(end) \subseteq InWindow(end) \cup LostIn(end)
    BY DEF AllowedIn, InWindow, PassedIn, Passed, LostIn
  <2>5. QED
    BY <2>1, <2>2, <2>3, <2>4, SmallerWindow
<1>2. LimiterInv => FailuresAreBounded
  BY <1>1 DEF FailuresAreBounded, LimiterInv, RequestShape
<1>3. QED
  BY <1>2, LimiterInvariant, PTL

\* Behind a 429 there are more than Limit counted requests of its window.
THEOREM DenialsAreEarned == Spec => []DeniedWithReason
<1>1. LimiterInv => DeniedWithReason
  BY DEF LimiterInv
<1>2. QED
  BY <1>1, LimiterInvariant, PTL
=============================================================================

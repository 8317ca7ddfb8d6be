---------------------------- MODULE RateLimiter ----------------------------
(***************************************************************************)
(* The sliding window of app/services/rate_limiter.py for one key, that is *)
(* for one client address and one path, as the dependency of               *)
(* app/core/rate_limit.py uses it.                                         *)
(*                                                                         *)
(* A request reads the clock before it awaits Redis, so the scripts of     *)
(* concurrent requests may run in another order than their timestamps.     *)
(* The clock of the process and that of Redis are one clock, which never   *)
(* goes back; MaxDelay bounds the time between reading it and the script.  *)
(***************************************************************************)
EXTENDS Integers, FiniteSets

CONSTANTS
    Requests,   \* the requests with this key
    Limit,      \* limit
    Window,     \* window_seconds
    Slack,      \* what the TTL of the key exceeds the window by
    Tags,       \* what math.random may return
    MaxDelay,   \* bound on the age of a timestamp when its script runs
    MaxTime,    \* bound on the clock
    MaxFaults,  \* bound on failures of Redis
    NoMember    \* the request has no member of the sorted set

ASSUME RateLimiterAssumption ==
    /\ {Limit, Window, Slack, MaxDelay, MaxTime, MaxFaults} \subseteq Nat
    /\ MaxDelay <= Window /\ Window > 0
    /\ NoMember \notin [score : 0..MaxTime, tag : Tags]

VARIABLES
    clock,
    zset,       \* the sorted set of the key
    expireAt,   \* when Redis deletes the key
    script,     \* Redis knows the script by its SHA
    pc,         \* where is_allowed is
    stamp,      \* now_ms
    member,     \* the member of the sorted set that the script added
    verdict,    \* what is_allowed returned
    kept,       \* history: the requests whose members Redis has not lost
    late,       \* history: the greatest age of a timestamp when its script ran
    struck,     \* history: the requests under way when Redis failed
    faults

vars == <<clock, zset, expireAt, script, pc, stamp, member, verdict, kept, late, struck, faults>>

Times == 0..MaxTime
Members == [score : Times, tag : Tags]
Waiting == {"load", "eval"}

TypeOK ==
    /\ clock \in Times
    /\ zset \subseteq Members
    /\ expireAt \in 0..(MaxTime + Window + Slack)
    /\ script \in BOOLEAN
    /\ pc \in [Requests -> {"new", "done"} \cup Waiting]
    /\ stamp \in [Requests -> Times]
    /\ member \in [Requests -> Members \cup {NoMember}]
    /\ verdict \in [Requests -> {"none", "allowed", "denied", "open"}]
    /\ kept \subseteq Requests
    /\ late \in 0..MaxDelay
    /\ struck \subseteq Requests
    /\ faults \in 0..MaxFaults

Init ==
    /\ clock = 0
    /\ zset = {}
    /\ expireAt = 0
    /\ script = FALSE
    /\ pc = [r \in Requests |-> "new"]
    /\ stamp = [r \in Requests |-> 0]
    /\ member = [r \in Requests |-> NoMember]
    /\ verdict = [r \in Requests |-> "none"]
    /\ kept = {}
    /\ late = 0
    /\ struck = {}
    /\ faults = 0

-----------------------------------------------------------------------------

\* is_allowed begins: it reads the clock.
Stamp(r) ==
    /\ pc[r] = "new"
    /\ pc' = [pc EXCEPT ![r] = "load"]
    /\ stamp' = [stamp EXCEPT ![r] = clock]
    /\ UNCHANGED <<clock, zset, expireAt, script, member, verdict, kept, late, struck, faults>>

\* Mutant of LoadScript: the limiter, and with it the SHA, is kept from one
\* request to the next.
LoadScriptOnce(r) ==
    /\ pc[r] = "load"
    /\ pc' = [pc EXCEPT ![r] = "eval"]
    /\ script' = (script \/ \A q \in Requests : pc[q] # "eval" /\ member[q] = NoMember)
    /\ UNCHANGED <<clock, zset, expireAt, stamp, member, verdict, kept, late, struck, faults>>

\* _ensure_script: the limiter is a new one for each request, and loads it.
LoadScript(r) ==
    /\ pc[r] = "load"
    /\ pc' = [pc EXCEPT ![r] = "eval"]
    /\ script' = TRUE
    /\ UNCHANGED <<clock, zset, expireAt, stamp, member, verdict, kept, late, struck, faults>>

\* Mutant of Pruned: the member at the very start of the window stays.
PrunedExclusive(now) == {m \in zset : m.score >= now - Window}

\* ZREMRANGEBYSCORE key -inf window_start
Pruned(now) == {m \in zset : m.score > now - Window}

\* The script: prune, ZADD, EXPIRE.  ZADD of a member that is there already
\* adds nothing.
Record(r, m) ==
    /\ zset' = Pruned(stamp[r]) \cup {m}
    /\ expireAt' = clock + Window + Slack
    /\ member' = [member EXCEPT ![r] = m]
    /\ kept' = kept \cup {r}
    /\ late' = IF clock - stamp[r] > late THEN clock - stamp[r] ELSE late

\* is_allowed returns.
Return(r, result) ==
    /\ pc' = [pc EXCEPT ![r] = "done"]
    /\ verdict' = [verdict EXCEPT ![r] = result]

\* Mutant of Verdict: the request itself is not counted.
VerdictOnOthers(count) == IF count - 1 <= Limit THEN "allowed" ELSE "denied"

\* allowed = count <= limit; the dependency answers 429 otherwise.
Verdict(count) == IF count <= Limit THEN "allowed" ELSE "denied"

\* evalsha
Evaluate(r) ==
    /\ pc[r] = "eval"
    /\ script
    /\ \E t \in Tags : Record(r, [score |-> stamp[r], tag |-> t])
    /\ Return(r, Verdict(Cardinality(zset')))
    /\ UNCHANGED <<clock, script, stamp, struck, faults>>

\* NOSCRIPT: Redis forgot the script between SCRIPT LOAD and EVALSHA.
NoScript(r) ==
    /\ pc[r] = "eval"
    /\ ~script
    /\ Return(r, "open")
    /\ UNCHANGED <<clock, zset, expireAt, script, stamp, member, kept, late, struck, faults>>

-----------------------------------------------------------------------------
(* Time and failures                                                       *)

\* Redis deletes the key when its TTL is over.
Tick ==
    /\ clock < MaxTime
    /\ \A r \in Requests : pc[r] \in Waiting => clock - stamp[r] < MaxDelay
    /\ clock' = clock + 1
    /\ zset' = IF clock' >= expireAt THEN {} ELSE zset
    /\ UNCHANGED <<expireAt, script, pc, stamp, member, verdict, kept, late, struck, faults>>

Fault(hit) ==
    /\ faults < MaxFaults
    /\ faults' = faults + 1
    /\ struck' = struck \cup hit

\* Mutant of FailOpen: the exception is not caught.
FailRaises(r) ==
    /\ pc[r] \in Waiting
    /\ Fault({r})
    /\ Return(r, "raised")
    /\ UNCHANGED <<clock, zset, expireAt, script, stamp, member, kept, late>>

\* Redis cannot be reached: the request passes.
FailOpen(r) ==
    /\ pc[r] \in Waiting
    /\ Fault({r})
    /\ Return(r, "open")
    /\ UNCHANGED <<clock, zset, expireAt, script, stamp, member, kept, late>>

\* The script has run, but its answer is lost: the request passes, counted.
AnswerLost(r) ==
    /\ pc[r] = "eval"
    /\ script
    /\ Fault({r})
    /\ \E t \in Tags : Record(r, [score |-> stamp[r], tag |-> t])
    /\ Return(r, "open")
    /\ UNCHANGED <<clock, script, stamp>>

\* Redis restarts with what it had saved, and without scripts.
RedisRestart ==
    /\ script \/ zset # {}
    /\ Fault({r \in Requests : pc[r] \in Waiting})
    /\ script' = FALSE
    /\ \E saved \in SUBSET zset :
           /\ zset' = saved
           /\ kept' = {r \in kept : member[r] \notin zset \ saved}
    /\ UNCHANGED <<clock, expireAt, pc, stamp, member, verdict, late>>

-----------------------------------------------------------------------------

AllDone == (\A r \in Requests : pc[r] = "done") /\ UNCHANGED vars

Next ==
    \/ \E r \in Requests :
           \/ Stamp(r)
           \/ LoadScript(r)
           \/ Evaluate(r)
           \/ NoScript(r)
           \/ FailOpen(r)
           \/ AnswerLost(r)
    \/ Tick
    \/ RedisRestart
    \/ AllDone

Spec == Init /\ [][Next]_vars

-----------------------------------------------------------------------------
(* Properties                                                              *)

\* The requests that passed by the count, and whose members Redis has not lost.
Passed == {r \in kept : verdict[r] = "allowed"}

\* Those of them that a window counts which ends at end, and is shorter by the
\* age that timestamps have had when their scripts ran; and their members.
PassedIn(end) == {p \in Passed : stamp[p] \in (end - (Window - late) + 1)..end}
InWindow(end) == {member[r] : r \in PassedIn(end)}

\* However the scripts of concurrent requests are ordered, whatever passes
\* uncounted and whenever the key expires: no window lets more than Limit
\* members pass.  It is the whole window while no script is late.
WindowLimit == \A end \in Times : Cardinality(InWindow(end)) <= Limit

\* The members that passed by the count in that window, lost ones among them.
AllowedIn(end) ==
    {member[r] : r \in {q \in Requests : /\ verdict[q] = "allowed"
                                        /\ stamp[q] \in (end - (Window - late) + 1)..end}}

\* What the limiter lets pass for the sake of availability is bounded by the
\* failures: whoever passes uncounted was under way when Redis failed, however
\* many requests come after it, and each failure, which may cost Redis all it
\* has counted, lets no more than another Limit members pass in a window.
FailuresAreBounded ==
    /\ \A r \in Requests : verdict[r] = "open" => r \in struck
    /\ \A end \in Times : Cardinality(AllowedIn(end)) <= Limit * (1 + faults)

Recorded == {r \in Requests : member[r] # NoMember}

\* Nobody is denied by what is out of the window: behind a 429 there are more
\* than Limit counted requests less than a window older than it, so that a
\* client which is alone on its key passes after waiting for Retry-After.
DeniedWithReason ==
    \A r \in Requests :
        verdict[r] = "denied" =>
            Cardinality({q \in Recorded : stamp[q] > stamp[r] - Window}) > Limit

-----------------------------------------------------------------------------
(* The inductive invariant behind them                                     *)

\* A waiting request is not older than MaxDelay, and has not run its script.
RequestShape(r) ==
    /\ pc[r] # "new" => stamp[r] <= clock
    /\ pc[r] \in Waiting => clock <= stamp[r] + MaxDelay
    /\ pc[r] # "done" => member[r] = NoMember /\ verdict[r] = "none"
    /\ member[r] # NoMember => member[r].score = stamp[r]
    /\ pc[r] = "eval" /\ ~script => r \in struck
    /\ verdict[r] = "open" => r \in struck
    /\ verdict[r] = "allowed" => r \in Recorded

\* The sorted set has members of requests only, and every one that is neither
\* lost nor out of the window.  The key outlives the windows of its members.
SetHolds ==
    /\ IsFiniteSet(zset) /\ IsFiniteSet(Recorded)
    /\ kept \subseteq Recorded
    /\ \A m \in zset : /\ \E q \in Recorded : member[q] = m
                       /\ m.score + Window <= expireAt
    /\ \A q \in kept : member[q] \in zset \/ stamp[q] + Window <= clock

\* A restart loses no more of a window than it had let pass.
LostIn(end) ==
    {member[r] : r \in {q \in Requests \ kept :
                           /\ verdict[q] = "allowed"
                           /\ stamp[q] \in (end - (Window - late) + 1)..end}}

LossesBounded ==
    \A end \in Times :
        IsFiniteSet(LostIn(end)) /\ Cardinality(LostIn(end)) <= Limit * faults

LimiterInv ==
    /\ TypeOK
    /\ \A r \in Requests : RequestShape(r)
    /\ SetHolds
    /\ \A end \in Times : IsFiniteSet(InWindow(end))
    /\ WindowLimit
    /\ LossesBounded
    /\ DeniedWithReason
=============================================================================

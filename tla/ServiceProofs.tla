------------------------------- MODULE ServiceProofs -------------------------------
(***************************************************************************)
(* Theorems about Service, for any limits and any number of workers,       *)
(* crashes and losses of Redis: QueueInv is inductive, and BucketInv of    *)
(* the limiter.                                                            *)
(***************************************************************************)
EXTENDS Service, TLAPS

\* A check of the bucket and the passing of a second keep the limiter's types.
LEMMA LimiterTyped ==
  ASSUME LimiterTypeOK,
         \/ \E passes \in BOOLEAN : CheckBucket(passes)
         \/ Second \/ ForgetBucket \/ UNCHANGED limiterVars
  PROVE  LimiterTypeOK'
<1> USE LimiterAssumption DEF LimiterTypeOK
<1>1. ASSUME NEW passes \in BOOLEAN, CheckBucket(passes)
      PROVE  LimiterTypeOK'
  <2>1. count' \in Nat /\ ttl' \in 0..Window
    BY <1>1, SMT DEF CheckBucket, Expiry
  <2>2. LetThrough \in [Spans -> Nat]
    BY SMT DEF LetThrough
  <2> QED
    BY <1>1, <2>1, <2>2 DEF CheckBucket
<1>2. CASE Second
  <2>1. count' \in Nat /\ ttl' \in 0..Window
    BY <1>2, SMT DEF Second
  <2>2. \A n \in Spans : n # 0 => n - 1 \in Spans
    BY SMT DEF Spans
  <2> QED
    BY <1>2, <2>1, <2>2 DEF Second
<1>3. CASE ForgetBucket \/ UNCHANGED limiterVars
  BY <1>3, SMT DEF ForgetBucket, limiterVars
<1> QED
  BY <1>1, <1>2, <1>3

\* Starting a process passes over nothing that was not lost.
LEMMA EnsureGroupSkips ==
  ASSUME QueueInv, EnsureGroup, UNCHANGED <<read, lost>>
  PROVE  /\ QueueTypeOK' /\ group' /\ UNCHANGED added
         /\ 1..last' \ read \subseteq lost
BY SMT DEF QueueInv, EnsureGroup, ServiceTypeOK, QueueTypeOK, GroupIsThere,
           SkippedOnlyByLoss

\* Nothing is queued at first.
LEMMA InitQueue == Init => QueueInv
<1> SUFFICES ASSUME Init PROVE QueueInv
  OBVIOUS
<1>1. LimiterTypeOK
  BY LimiterAssumption DEF Init, LimiterInit, LimiterTypeOK
<1>2. 1..added = {} /\ 1..last = {} /\ QueueTypeOK
  <2>1. added = 0 /\ last = 0 /\ group = FALSE
    BY DEF Init, QueueInit
  <2>2. 0 \in Nat /\ 0 \in 0..0 /\ 1..0 = {}
    BY SMT
  <2> QED
    BY <2>1, <2>2 DEF QueueTypeOK
<1>3. ~api /\ ~(calls > 0)
  BY SMT DEF Init
<1> QED
  BY <1>1, <1>2, <1>3
     DEF Init, QueueInv, ServiceTypeOK, GroupIsThere, SkippedOnlyByLoss

\* Every step of the deployment keeps the invariant.
LEMMA StepQueue == QueueInv /\ [Next]_vars => QueueInv'
<1> SUFFICES ASSUME QueueInv, [Next]_vars PROVE QueueInv'
  OBVIOUS
<1> USE DEF QueueInv, ServiceTypeOK
<1>1. CASE StartApi
  BY <1>1, LimiterTyped, EnsureGroupSkips
     DEF StartApi, historyUnchanged, boundVars, GroupIsThere, SkippedOnlyByLoss
<1>2. CASE Admit \/ Refuse
  <2>1. LimiterTypeOK'
    BY <1>2, LimiterTyped DEF Admit, Refuse
  <2>2. /\ UNCHANGED <<queueVars, api, up, boundVars, read, lost>>
        /\ calls' \in Nat /\ (calls' > 0 => api)
    <3>1. CASE Admit
      BY <1>2, <3>1, SMT DEF Admit, historyUnchanged
    <3>2. CASE Refuse
      BY <3>2 DEF Refuse, processVars, historyUnchanged, GroupIsThere
    <3> QED
      BY <1>2, <3>1, <3>2
  <2> QED
    BY <2>1, <2>2
       DEF queueVars, boundVars, QueueTypeOK, GroupIsThere, SkippedOnlyByLoss
<1>3. CASE Answer
  BY <1>3, LimiterTyped, SMT
     DEF Answer, historyUnchanged, boundVars, queueVars, QueueTypeOK, GroupIsThere,
         SkippedOnlyByLoss
<1>4. CASE Enqueue
  <2>1. /\ LimiterTypeOK' /\ QueueTypeOK' /\ calls' \in Nat
        /\ read' \subseteq 1..added' /\ lost' \subseteq 1..added'
    BY <1>4, LimiterTyped, SMT DEF Enqueue, Add, QueueTypeOK
  <2>2. GroupIsThere'
    BY <1>4, SMT DEF Enqueue, Add, GroupIsThere, boundVars, QueueTypeOK
  <2>3. SkippedOnlyByLoss'
    BY <1>4, SMT DEF Enqueue, Add, GroupIsThere, SkippedOnlyByLoss, boundVars, QueueTypeOK
  <2> QED
    BY <1>4, <2>1, <2>2, <2>3 DEF Enqueue, boundVars
<1>5. ASSUME NEW w \in Workers, StartWorker(w)
      PROVE  QueueInv'
  BY <1>5, LimiterTyped, EnsureGroupSkips
     DEF StartWorker, historyUnchanged, boundVars, GroupIsThere, SkippedOnlyByLoss
<1>6. ASSUME NEW w \in Workers, Read(w)
      PROVE  QueueInv'
  <2>1. QueueTypeOK' /\ read' \subseteq 1..added' /\ group' /\ UNCHANGED added
    BY <1>6, SMT DEF Read, ReadNext, QueueTypeOK
  <2>2. 1..last' \ read' \subseteq lost
    BY <1>6, SMT DEF Read, ReadNext, QueueTypeOK, SkippedOnlyByLoss
  <2> QED
    BY <1>6, <2>1, <2>2, LimiterTyped
       DEF Read, processVars, boundVars, GroupIsThere, SkippedOnlyByLoss
<1>7. ASSUME NEW w \in Workers, NoGroup(w) \/ WorkerStops(w)
      PROVE  QueueInv'
  <2>1. LimiterTypeOK' /\ UNCHANGED <<added, group, last, api, calls, read, lost, losses>>
    BY <1>7, LimiterTyped
       DEF NoGroup, WorkerStops, Stop, historyUnchanged, boundVars, queueVars
  <2>2. up' \subseteq Workers /\ stops' \in Nat
    BY <1>7, SMT DEF NoGroup, WorkerStops, Stop, boundVars
  <2> QED
    BY <2>1, <2>2 DEF QueueTypeOK, GroupIsThere, SkippedOnlyByLoss
<1>8. CASE ApiStops
  <2>1. LimiterTypeOK' /\ UNCHANGED <<added, group, last, up, read, lost, losses>>
    BY <1>8, LimiterTyped DEF ApiStops, Stop, historyUnchanged, queueVars
  <2>2. api' = FALSE /\ calls' = 0 /\ stops' \in Nat
    BY <1>8, SMT DEF ApiStops, Stop
  <2>3. ~(calls' > 0)
    BY <2>2, SMT
  <2> QED
    BY <2>1, <2>2, <2>3 DEF QueueTypeOK, GroupIsThere, SkippedOnlyByLoss
<1>9. CASE RedisRestarts
  <2>1. LimiterTypeOK'
    BY <1>9, LimiterTyped DEF RedisRestarts
  <2>2. QueueTypeOK' /\ losses' \in Nat /\ losses' # 0 /\ last' = added /\ UNCHANGED added
    <3>1. \A n \in Nat : n + 1 \in Nat /\ n + 1 # 0 /\ n \in 0..n
      BY SMT
    <3> QED
      BY <1>9, <3>1 DEF RedisRestarts, ForgetStream, QueueTypeOK
  <2>3. UNCHANGED <<api, up, calls, read, stops>> /\ lost' = lost \cup (1..added \ read)
    BY <1>9 DEF RedisRestarts, processVars
  <2> QED
    BY <2>1, <2>2, <2>3 DEF GroupIsThere, SkippedOnlyByLoss
<1>10. CASE Tick
  BY <1>10, LimiterTyped
     DEF Tick, historyUnchanged, queueVars, processVars, boundVars, QueueTypeOK,
         GroupIsThere, SkippedOnlyByLoss
<1>11. CASE UNCHANGED vars
  BY <1>11, LimiterTyped
     DEF vars, queueVars, processVars, boundVars, QueueTypeOK, GroupIsThere,
         SkippedOnlyByLoss
<1> QED
  BY <1>1, <1>2, <1>3, <1>4, <1>5, <1>6, <1>7, <1>8, <1>9, <1>10, <1>11 DEF Next

\* The inductive invariant of the queue and of the processes that use it.
THEOREM QueueCorrect == Spec => []QueueInv
BY InitQueue, StepQueue, PTL DEF Spec

\* Nobody who waits for a job to be prepared waits because a process started:
\* an entry is passed over only when Redis lost it or its group
\* (redis_streams.py:23-30).
THEOREM SkippedCorrect == Spec => []SkippedOnlyByLoss
<1>1. QueueInv => SkippedOnlyByLoss
  BY DEF QueueInv
<1> QED
  BY <1>1, QueueCorrect, PTL

-----------------------------------------------------------------------------
(* The limiter.                                                            *)

\* The types the arithmetic of the limiter needs.
LEMMA BucketTypes ==
  ASSUME ServiceTypeOK
  PROVE  /\ count \in Nat /\ ttl \in 0..Window /\ losses \in Nat
         /\ Limit \in Nat /\ Window \in Nat \ {0}
         /\ 0 \in Spans /\ Window \in Spans
         /\ \A n \in Spans : n \in Nat /\ recent[n] \in Nat
         /\ Admitted \in Nat /\ Admitted <= Limit
<1>1. /\ count \in Nat /\ ttl \in 0..Window /\ losses \in Nat /\ recent \in [Spans -> Nat]
      /\ Limit \in Nat /\ Window \in Nat \ {0}
  BY LimiterAssumption DEF ServiceTypeOK, LimiterTypeOK
<1>2. 0 \in Spans /\ Window \in Spans /\ \A n \in Spans : n \in Nat
  BY <1>1, SMT DEF Spans
<1>3. Admitted \in Nat /\ Admitted <= Limit
  BY <1>1, SMT DEF Admitted
<1> QED
  BY <1>1, <1>2, <1>3

\* Forgetting the count allows one more limit.
LEMMA AllowanceGrows ==
  ASSUME NEW l \in Nat, NEW k \in Nat
  PROVE  /\ (1 + l) * k \in Nat /\ k <= (1 + l) * k
         /\ (1 + (l + 1)) * k = (1 + l) * k + k
BY SMT

\* INCR and EXPIRE NX: a call let through adds one to what the window has
\* admitted and to what was let through; a refused one adds to neither.
LEMMA BucketChecked ==
  ASSUME ServiceTypeOK, BucketInv, NEW passes \in BOOLEAN, CheckBucket(passes),
         UNCHANGED losses
  PROVE  BucketInv'
<1>1. /\ count' = count + 1 /\ ttl' = (IF ttl = 0 THEN Window ELSE ttl)
      /\ recent' = IF count < Limit THEN LetThrough ELSE recent
  BY DEF CheckBucket, Expiry
<1>2. /\ ttl' \in 1..Window /\ Window - ttl' \in Spans /\ (Window - ttl') + 1 \in Spans
      /\ (Window - ttl') + 1 # 0
      /\ ttl # 0 => ttl' = ttl
      /\ ttl = 0 => Window - ttl' = 0
  BY <1>1, BucketTypes, SMT DEF Spans
<1>3. Admitted' = IF count < Limit THEN Admitted + 1 ELSE Admitted
  BY <1>1, BucketTypes, SMT DEF Admitted
<1>4. Allowance' = Allowance /\ Allowance \in Nat
  BY BucketTypes, AllowanceGrows DEF Allowance
<1>5. ttl = 0 => count = 0 /\ Admitted = 0 /\ (Limit > 0 <=> count < Limit)
  BY <1>1, BucketTypes, SMT DEF BucketInv, Admitted
<1>6. CASE count < Limit
  <2>1. \A n \in Spans : recent'[n] = IF n = 0 THEN 0 ELSE recent[n] + 1
    BY <1>1, <1>6 DEF LetThrough
  <2>2. recent'[0] = 0
    BY <2>1, BucketTypes
  <2>3. \A m, n \in Spans : m <= n => recent'[m] <= recent'[n]
    <3> SUFFICES ASSUME NEW m \in Spans, NEW n \in Spans, m <= n
                 PROVE  recent'[m] <= recent'[n]
      OBVIOUS
    <3>1. recent[m] <= recent[n]
      BY DEF BucketInv
    <3> QED
      BY <2>1, <3>1, BucketTypes, SMT
  <2>4. recent'[(Window - ttl') + 1] >= Admitted'
    <3>1. recent'[(Window - ttl') + 1] = recent[(Window - ttl') + 1] + 1
      BY <1>2, <2>1
    <3>2. recent[(Window - ttl') + 1] >= Admitted
      <4>1. CASE ttl = 0
        BY <1>2, <1>5, <4>1, BucketTypes, SMT
      <4>2. CASE ttl # 0
        BY <1>2, <4>2, SMT DEF BucketInv
      <4> QED
        BY <4>1, <4>2
    <3> QED
      BY <1>2, <1>3, <1>6, <3>1, <3>2, BucketTypes, SMT
  <2>5. ASSUME Limit > 0
        PROVE  recent'[Window - ttl'] < Admitted' /\ Passes' < Allowance' + Admitted'
    <3>1. recent'[Window - ttl'] < Admitted'
      <4>1. CASE Window - ttl' = 0
        BY <1>3, <1>6, <2>2, <4>1, BucketTypes, SMT
      <4>2. CASE Window - ttl' # 0
        <5>1. recent[Window - ttl] < Admitted /\ ttl' = ttl
          BY <1>2, <2>5, <4>2, SMT DEF BucketInv
        <5> QED
          BY <1>2, <1>3, <1>6, <2>1, <4>2, <5>1, BucketTypes, SMT
      <4> QED
        BY <4>1, <4>2
    <3>2. Passes' = Passes + 1 /\ Passes \in Nat
      BY <2>1, BucketTypes, SMT DEF Passes
    <3>3. Passes < Allowance + Admitted
      BY <2>5 DEF BucketInv
    <3> QED
      BY <1>3, <1>4, <1>6, <3>1, <3>2, <3>3, BucketTypes, SMT
  <2>6. count' # 0 /\ ttl' # 0
    BY <1>1, <1>2, BucketTypes, SMT
  <2> QED
    BY <2>2, <2>3, <2>4, <2>5, <2>6 DEF BucketInv
<1>7. CASE ~(count < Limit)
  <2>1. recent' = recent /\ Admitted' = Admitted /\ Passes' = Passes
    BY <1>1, <1>3, <1>7 DEF Passes
  <2>2. count' # 0 /\ ttl' # 0
    BY <1>1, <1>2, BucketTypes, SMT
  <2>3. recent[(Window - ttl') + 1] >= Admitted
    <3>1. CASE ttl = 0
      BY <1>2, <1>5, <3>1, BucketTypes, SMT
    <3>2. CASE ttl # 0
      BY <1>2, <3>2, BucketTypes, SMT DEF BucketInv
    <3> QED
      BY <3>1, <3>2
  <2>4. Limit > 0 => recent[Window - ttl'] < Admitted
    <3>1. Limit > 0 => ttl # 0
      BY <1>5, <1>7
    <3> QED
      BY <1>2, <3>1, BucketTypes, SMT DEF BucketInv
  <2> QED
    BY <1>4, <2>1, <2>2, <2>3, <2>4 DEF BucketInv
<1> QED
  BY <1>6, <1>7

\* A second ages every call by one; the window ends before its first call has
\* left the last Window seconds, and with it the count.
LEMMA BucketAges ==
  ASSUME ServiceTypeOK, BucketInv, Second, UNCHANGED losses
  PROVE  BucketInv'
<1>1. /\ \A n \in Spans : recent'[n] = IF n = 0 THEN 0 ELSE recent[n - 1]
      /\ count' = (IF ttl > 1 THEN count ELSE 0) /\ ttl' = (IF ttl > 1 THEN ttl - 1 ELSE 0)
  BY DEF Second
<1>2. \A n \in Spans : n # 0 => n - 1 \in Spans /\ n - 1 <= n
  BY SMT, BucketTypes DEF Spans
<1>3. recent'[0] = 0
  BY <1>1, BucketTypes
<1>4. \A m, n \in Spans : m <= n => recent'[m] <= recent'[n]
  <2> SUFFICES ASSUME NEW m \in Spans, NEW n \in Spans, m <= n
               PROVE  recent'[m] <= recent'[n]
    OBVIOUS
  <2>1. CASE m = 0
    <3>1. n # 0 => recent[n - 1] \in Nat
      BY <1>2, BucketTypes
    <3> QED
      BY <1>1, <2>1, <3>1, SMT
  <2>2. CASE m # 0
    <3>1. n # 0 /\ m - 1 <= n - 1
      BY <2>2, BucketTypes, SMT
    <3>2. recent[m - 1] <= recent[n - 1]
      BY <1>2, <2>2, <3>1 DEF BucketInv
    <3> QED
      BY <1>1, <2>2, <3>1, <3>2
  <2> QED
    BY <2>1, <2>2
<1>5. Allowance' = Allowance /\ Allowance \in Nat /\ Limit <= Allowance
  BY BucketTypes, AllowanceGrows DEF Allowance
<1>6. /\ Passes' = recent[Window - 1] /\ Passes' \in Nat /\ Passes' <= Passes
      /\ Window - 1 \in Spans
  <2>1. Window # 0 /\ Window \in Spans /\ Window - 1 \in Spans /\ Window - 1 <= Window
    BY <1>2, BucketTypes
  <2>2. recent'[Window] = recent[Window - 1] /\ recent[Window - 1] <= recent[Window]
    BY <1>1, <2>1 DEF BucketInv
  <2> QED
    BY <2>1, <2>2, BucketTypes DEF Passes
<1>7. CASE ttl > 1
  <2>1. /\ count' = count /\ ttl' = ttl - 1 /\ Admitted' = Admitted /\ count # 0
        /\ ttl' > 0
    BY <1>1, <1>7, BucketTypes, SMT DEF Admitted, BucketInv
  <2>2. /\ Window - ttl' \in Spans /\ (Window - ttl') + 1 \in Spans
        /\ Window - ttl' # 0 /\ (Window - ttl') + 1 # 0
        /\ (Window - ttl') - 1 = Window - ttl
        /\ ((Window - ttl') + 1) - 1 = (Window - ttl) + 1
    BY <1>7, <2>1, BucketTypes, SMT DEF Spans
  <2>3. /\ recent'[Window - ttl'] = recent[Window - ttl]
        /\ recent'[(Window - ttl') + 1] = recent[(Window - ttl) + 1]
    BY <1>1, <2>2
  <2>4. ttl > 0
    BY <1>7, BucketTypes, SMT
  <2>5. Limit > 0 => Passes' < Allowance + Admitted
    <3>1. Limit > 0 => Passes < Allowance + Admitted
      BY DEF BucketInv
    <3>2. Passes \in Nat
      BY BucketTypes DEF Passes
    <3> QED
      BY <1>5, <1>6, <3>1, <3>2, BucketTypes, SMT
  <2>6. ttl' # 0 /\ count' # 0
    BY <2>1, SMT
  <2> QED
    BY <1>3, <1>4, <1>5, <2>1, <2>3, <2>4, <2>5, <2>6 DEF BucketInv
<1>8. CASE ~(ttl > 1)
  <2>1. count' = 0 /\ ttl' = 0 /\ ~(ttl' > 0)
    BY <1>1, <1>8, SMT
  <2>2. Limit > 0 => Admitted' = 0
    BY <2>1, SMT DEF Admitted
  <2>3. Limit > 0 => Passes' < Allowance
    <3> SUFFICES ASSUME Limit > 0 PROVE Passes' < Allowance
      OBVIOUS
    <3>1. Passes \in Nat /\ Passes < Allowance + Admitted
      BY BucketTypes DEF Passes, BucketInv
    <3>2. CASE ttl = 0
      <4>1. Admitted = 0
        BY <3>2, BucketTypes, SMT DEF BucketInv, Admitted
      <4> QED
        BY <1>5, <1>6, <3>1, <4>1, SMT
    <3>3. CASE ttl = 1
      <4>1. recent[Window - 1] < Admitted
        BY <3>3, SMT DEF BucketInv
      <4> QED
        BY <1>5, <1>6, <4>1, BucketTypes, SMT
    <3> QED
      BY <1>8, <3>2, <3>3, BucketTypes, SMT
  <2> QED
    BY <1>3, <1>4, <1>5, <2>1, <2>2, <2>3, SMT DEF BucketInv
<1> QED
  BY <1>7, <1>8

\* Redis forgets the count, and what the window has admitted is allowed again.
LEMMA BucketForgets ==
  ASSUME ServiceTypeOK, BucketInv, ForgetBucket, losses' = losses + 1
  PROVE  BucketInv'
<1>1. /\ count' = 0 /\ ttl' = 0 /\ ~(ttl' > 0) /\ recent' = recent /\ Passes' = Passes
  BY SMT DEF ForgetBucket, Passes
<1>2. Limit > 0 => Admitted' = 0
  BY <1>1, SMT DEF Admitted
<1>3. Allowance' = Allowance + Limit /\ Allowance \in Nat
  BY BucketTypes, AllowanceGrows DEF Allowance
<1>4. Limit > 0 => Passes' < Allowance'
  <2>1. Limit > 0 => Passes < Allowance + Admitted
    BY DEF BucketInv
  <2>2. Passes \in Nat
    BY BucketTypes DEF Passes
  <2> QED
    BY <1>1, <1>3, <2>1, <2>2, BucketTypes, SMT
<1> QED
  BY <1>1, <1>2, <1>3, <1>4, SMT DEF BucketInv

\* Every other step leaves the bucket alone.
LEMMA StepBucket == ServiceTypeOK /\ BucketInv /\ [Next]_vars => BucketInv'
<1> SUFFICES ASSUME ServiceTypeOK, BucketInv, [Next]_vars PROVE BucketInv'
  OBVIOUS
<1>1. CASE Admit \/ Refuse
  BY <1>1, BucketChecked DEF Admit, Refuse, boundVars
<1>2. CASE Tick
  BY <1>2, BucketAges DEF Tick, boundVars
<1>3. CASE RedisRestarts
  BY <1>3, BucketForgets DEF RedisRestarts
<1>4. CASE UNCHANGED <<limiterVars, losses>>
  BY <1>4 DEF limiterVars, BucketInv, Admitted, Allowance, Passes
<1>5. Admit \/ Refuse \/ Tick \/ RedisRestarts \/ UNCHANGED <<limiterVars, losses>>
  BY DEF Next, StartApi, Answer, Enqueue, ApiStops, StartWorker, Read, NoGroup,
         WorkerStops, Stop, boundVars, vars
<1> QED
  BY <1>1, <1>2, <1>3, <1>4, <1>5

\* Nobody has called at first.
LEMMA InitBucket == Init => BucketInv
<1> SUFFICES ASSUME Init PROVE BucketInv
  OBVIOUS
<1>1. /\ count = 0 /\ ttl = 0 /\ losses = 0 /\ \A n \in Spans : recent[n] = 0
      /\ Limit \in Nat /\ 0 \in Spans /\ Window \in Spans
  BY LimiterAssumption, SMT DEF Init, LimiterInit, Spans
<1>2. Passes = 0 /\ recent[0] = 0 /\ \A m, n \in Spans : recent[m] <= recent[n]
  BY <1>1, SMT DEF Passes
<1>3. Limit > 0 => Admitted = 0 /\ Allowance = Limit
  BY <1>1, SMT DEF Admitted, Allowance
<1> QED
  BY <1>1, <1>2, <1>3, SMT DEF BucketInv

\* How much of what was let through a window accounts for, for any limit.
THEOREM BucketCorrect == Spec => []BucketInv
<1>1. QueueInv => ServiceTypeOK
  BY DEF QueueInv
<1> QED
  BY <1>1, InitBucket, StepBucket, QueueCorrect, PTL DEF Spec

\* A user gets through less than twice the limit within a window's length, and
\* the limit once more for each time Redis forgot the count
\* (rate_limit.py:16-23).
THEOREM BurstCorrect == Spec => []BurstBounded
<1>1. ASSUME ServiceTypeOK, BucketInv
      PROVE  BurstBounded
  <2> SUFFICES ASSUME Limit > 0 PROVE Passes < (2 + losses) * Limit
    BY DEF BurstBounded
  <2>1. (2 + losses) * Limit = Allowance + Limit /\ Allowance \in Nat
    <3>1. 2 + losses = 1 + (losses + 1)
      BY <1>1, BucketTypes, SMT
    <3> QED
      BY <1>1, <3>1, BucketTypes, AllowanceGrows DEF Allowance
  <2>2. Passes \in Nat /\ Passes < Allowance + Admitted
    BY <1>1, BucketTypes DEF Passes, BucketInv
  <2> QED
    BY <1>1, <2>1, <2>2, BucketTypes, SMT
<1>2. QueueInv => ServiceTypeOK
  BY DEF QueueInv
<1> QED
  BY <1>1, <1>2, BucketCorrect, QueueCorrect, PTL

\* Nobody is refused who has not had the limit within the last Window seconds
\* (rate_limit.py:19-23).
THEOREM EarnedCorrect == Spec => []RefusalIsEarned
<1>1. ASSUME ServiceTypeOK, BucketInv
      PROVE  RefusalIsEarned
  <2> SUFFICES ASSUME count > Limit PROVE Passes >= Limit
    BY DEF RefusalIsEarned
  <2>1. Admitted = Limit /\ ttl > 0
    BY <1>1, BucketTypes, SMT DEF Admitted, BucketInv
  <2>2. /\ (Window - ttl) + 1 \in Spans /\ (Window - ttl) + 1 <= Window
        /\ Window \in Spans
    BY <1>1, <2>1, BucketTypes, SMT DEF Spans
  <2>3. recent[(Window - ttl) + 1] <= recent[Window]
    BY <1>1, <2>2 DEF BucketInv
  <2>4. recent[(Window - ttl) + 1] >= Limit
    BY <1>1, <2>1 DEF BucketInv
  <2> QED
    BY <1>1, <2>2, <2>3, <2>4, BucketTypes, SMT DEF Passes
<1>2. QueueInv => ServiceTypeOK
  BY DEF QueueInv
<1> QED
  BY <1>1, <1>2, BucketCorrect, QueueCorrect, PTL

=============================================================================

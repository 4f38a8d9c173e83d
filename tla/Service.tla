--------------------------------- MODULE Service ---------------------------------
(***************************************************************************)
(* The deployment: the API process, the workers, and the Redis they share, *)
(* which may come back empty.  Both kinds of process create the consumer   *)
(* group when they start and never again; docker starts them again when    *)
(* they exit.  A call that passes the rate limiter may queue a job; a call *)
(* with a wrong secret, or a repeat whose response is cached, comes to     *)
(* neither and is no step here.                                            *)
(***************************************************************************)
EXTENDS RateLimiter, JobQueue

CONSTANTS
  Workers,
  MaxCalls,    \* bound: calls in progress
  MaxCount,    \* bound: calls counted in a window
  MaxAdded,    \* bound: jobs
  MaxStops,    \* bound: crashes and redeployments
  MaxLosses    \* bound: times Redis comes back empty

ASSUME ServiceBounds == {MaxCalls, MaxCount, MaxAdded, MaxStops, MaxLosses} \subseteq Nat

VARIABLES
  api,      \* the API process is up
  up,       \* the workers that are up
  calls,    \* calls past the limiter
  read,     \* history: the entries a worker was given
  lost,     \* history: entries that Redis lost, or that were added to a
            \* stream without its group
  stops, losses

processVars == <<api, up, calls>>
boundVars == <<stops, losses>>
vars == <<limiterVars, queueVars, processVars, read, lost, boundVars>>

ServiceTypeOK ==
  /\ LimiterTypeOK /\ QueueTypeOK
  /\ api \in BOOLEAN /\ up \subseteq Workers /\ calls \in Nat
  /\ read \subseteq 1..added /\ lost \subseteq 1..added
  /\ stops \in Nat /\ losses \in Nat

Init ==
  /\ LimiterInit /\ QueueInit
  /\ api = FALSE /\ up = {} /\ calls = 0
  /\ read = {} /\ lost = {}
  /\ stops = 0 /\ losses = 0

-----------------------------------------------------------------------------
historyUnchanged == UNCHANGED <<read, lost>>

\* Mutant of StartApi: only the worker creates the group.
StartApi_Bare ==
  /\ ~api
  /\ api' = TRUE
  /\ UNCHANGED <<queueVars, up, calls, limiterVars, boundVars>> /\ historyUnchanged

\* Container.start, before the first call is served.
StartApi ==
  /\ ~api
  /\ EnsureGroup
  /\ api' = TRUE
  /\ UNCHANGED <<up, calls, limiterVars, boundVars>> /\ historyUnchanged

Admit ==
  /\ api /\ calls < MaxCalls
  /\ CheckBucket(TRUE)
  /\ calls' = calls + 1
  /\ UNCHANGED <<queueVars, api, up, boundVars>> /\ historyUnchanged

\* "Too many requests in a row."
Refuse ==
  /\ api /\ count < MaxCount
  /\ CheckBucket(FALSE)
  /\ UNCHANGED <<queueVars, processVars, boundVars>> /\ historyUnchanged

\* A call ends without a job, or queues one.
Answer ==
  /\ calls > 0
  /\ calls' = calls - 1
  /\ UNCHANGED <<limiterVars, queueVars, api, up, boundVars>> /\ historyUnchanged

Enqueue ==
  /\ calls > 0 /\ added < MaxAdded
  /\ Add
  /\ calls' = calls - 1
  /\ lost' = IF group THEN lost ELSE lost \cup {added'}
  /\ UNCHANGED <<limiterVars, api, up, read, boundVars>>

StartWorker(w) ==
  /\ w \notin up
  /\ EnsureGroup
  /\ up' = up \cup {w}
  /\ UNCHANGED <<api, calls, limiterVars, boundVars>> /\ historyUnchanged

Read(w) ==
  /\ w \in up
  /\ ReadNext
  /\ read' = read \cup {last'}
  /\ UNCHANGED <<processVars, limiterVars, lost, boundVars>>

\* Mutant of NoGroup: the worker survives the error.
NoGroup_Survived(w) ==
  /\ w \in up
  /\ ~group
  /\ UNCHANGED vars

\* XAUTOCLAIM or XREADGROUP raises NOGROUP, which worker_loop does not catch.
NoGroup(w) ==
  /\ w \in up
  /\ ~group
  /\ up' = up \ {w}
  /\ UNCHANGED <<api, calls, limiterVars, queueVars, boundVars>> /\ historyUnchanged

-----------------------------------------------------------------------------
(* What goes wrong.                                                        *)

Stop == stops < MaxStops /\ stops' = stops + 1 /\ UNCHANGED losses

ApiStops ==
  /\ Stop
  /\ api
  /\ api' = FALSE /\ calls' = 0
  /\ UNCHANGED <<limiterVars, queueVars, up>> /\ historyUnchanged

WorkerStops(w) ==
  /\ Stop
  /\ w \in up
  /\ up' = up \ {w}
  /\ UNCHANGED <<limiterVars, queueVars, api, calls>> /\ historyUnchanged

RedisRestarts ==
  /\ losses < MaxLosses /\ losses' = losses + 1
  /\ ForgetBucket /\ ForgetStream
  /\ lost' = lost \cup (1..added \ read)
  /\ UNCHANGED <<processVars, read, stops>>

Tick ==
  /\ Second
  /\ UNCHANGED <<queueVars, processVars, boundVars>> /\ historyUnchanged

Next ==
  \/ StartApi \/ Admit \/ Refuse \/ Answer \/ Enqueue \/ ApiStops
  \/ \E w \in Workers : StartWorker(w) \/ Read(w) \/ NoGroup(w) \/ WorkerStops(w)
  \/ RedisRestarts \/ Tick

Spec == Init /\ [][Next]_vars

\* Docker starts a worker that has exited, and a worker polls for ever.
Fairness ==
  \A w \in Workers : WF_vars(StartWorker(w)) /\ WF_vars(Read(w)) /\ WF_vars(NoGroup(w))

FairSpec == Spec /\ Fairness

-----------------------------------------------------------------------------
(* Properties.                                                             *)

\* A user gets through less than twice the limit within a window's length: the
\* first call of a window starts it, so that call is over when the next window
\* comes.  Redis forgetting the count adds the limit once more
\* (rate_limit.py:16-23).
BurstBounded == Limit > 0 => Passes < (2 + losses) * Limit

\* Why: the window of the bucket has let min(count, Limit) calls through since
\* it began, fewer since the second after its first call, and is the only one
\* to reach into the last Window seconds but for the calls let through before
\* it, of which there are fewer than the limit and one more limit for each
\* time the count was forgotten.
Admitted == IF count < Limit THEN count ELSE Limit
Allowance == (1 + losses) * Limit

BucketInv ==
  /\ count = 0 <=> ttl = 0
  /\ recent[0] = 0
  /\ \A m, n \in Spans : m <= n => recent[m] <= recent[n]
  /\ ttl > 0 => recent[(Window - ttl) + 1] >= Admitted
  /\ Limit > 0 =>
       /\ ttl > 0 => recent[Window - ttl] < Admitted
       /\ Passes < Allowance + Admitted

\* The group passes over an entry only when Redis lost it, or lost the group
\* and the entry was queued before a worker restarted
\* (redis_streams.py:23-30, bootstrap.py:43-45).
SkippedOnlyByLoss ==
  /\ 1..last \ read \subseteq lost
  /\ losses = 0 => lost = {}

\* Why: who serves calls has created the group, and without a group there is
\* nothing left to give.
GroupIsThere ==
  /\ losses = 0 /\ api => group
  /\ calls > 0 => api
  /\ ~group => 1..added \ read \subseteq lost

QueueInv == ServiceTypeOK /\ GroupIsThere /\ SkippedOnlyByLoss

\* Every queued job is given to a worker unless it was lost, however often
\* processes stop (deferred_worker.py:30-39).
QueuedIsRead == \A i \in 1..MaxAdded : (i <= added) ~> (i \in read \cup lost)

\* After Redis came back empty, the group comes back.
LossHeals == ~group ~> group

=============================================================================

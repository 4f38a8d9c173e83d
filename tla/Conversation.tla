---------------------------- MODULE Conversation ----------------------------
(***************************************************************************)
(* One conversation of the skill: the webhook calls that serve it          *)
(* (ConversationService.handle), the workers that prepare its deferred     *)
(* answers (worker_loop, process_deferred_job), the Redis key that holds   *)
(* its pending reply, the idempotency cache and the job stream.            *)
(*                                                                         *)
(* A step is one Redis command.  The store updates the pending key in two  *)
(* of them, a GET and then a SET or DEL, with no transaction around, so    *)
(* every mark_... and clear_pending is a read step that leaves the process *)
(* at "commit" and a Commit step; anyone may run in between.               *)
(***************************************************************************)
EXTENDS PendingReply, Integers, Sequences, FiniteSets

CONSTANTS
  Workers,      \* deferred-worker processes
  KeyOf,        \* request key of a delivery, named by one of its deliveries:
                \* a delivery that repeats a request shares its key
  Utterances,   \* the kinds of utterance the user makes
  Hazards,      \* what the environment may do, see below
  MaxFaults,    \* bound: crashes and errors in a behaviour
  MaxExpiries   \* bound: times the pending key expires

(* overlap        webhook calls of the conversation run concurrently       *)
(* early_reclaim  an entry is reclaimed from a worker still busy with it:  *)
(*                the idle time is exactly the job timeout                 *)
(* failure        a process stops between two steps, or a call raises      *)
(* lost_reply     a Redis command takes effect and raises all the same     *)
HazardKinds == {"overlap", "early_reclaim", "failure", "lost_reply"}

ASSUME WorkersAssumption == Workers \cap Deliveries = {}
ASSUME KeyOfAssumption == KeyOf \in [Deliveries -> Deliveries]
ASSUME UtterancesAssumption == Utterances \subseteq Kinds
ASSUME HazardsAssumption == Hazards \subseteq HazardKinds
ASSUME BoundsAssumption == MaxFaults \in Nat /\ MaxExpiries \in Nat

VARIABLES
  slot,      \* the value of the pending key
  idem,      \* the cached response of each request key, Unsaid when none
  log,       \* the job stream, an append-only sequence of jobs
  cursor,    \* how many entries the consumer group has been given
  pel,       \* the entries given and not yet acknowledged
  pc,        \* where each webhook call and worker is
  seen,      \* the pending record a webhook call has read
  resp,      \* the response a webhook call has settled on
  call,      \* the payload of a store call and where it returns to
  held,      \* the stream entry a worker works on, 0 for none
  kind,      \* what the user said in each request
  settled,   \* history: jobs whose outcome a worker has written
  faults, expiries

redisVars == <<slot, idem, log, cursor, pel>>
boundVars == <<faults, expiries>>
vars == <<redisVars, pc, seen, resp, call, held, kind, settled, boundVars>>

HandlerLabels == {"idle", "load", "clear", "deliver", "advance", "ask", "keep",
                  "offer", "defer", "recheck", "enqueue", "commit", "save",
                  "done"}
WorkerLabels == {"idle", "check", "generate", "publish", "fail", "commit",
                 "ack"}
Processes == Deliveries \cup Workers
NoCall == [write |-> NoPending, next |-> "idle"]

RedisTypeOK ==
  /\ slot \in Pending
  /\ idem \in [Deliveries -> Responses]
  /\ log \in Seq(Deliveries)
  /\ cursor \in 0..Len(log)
  /\ pel \subseteq 1..cursor

ControlTypeOK ==
  /\ pc \in [Processes -> HandlerLabels \cup WorkerLabels]
  /\ \A d \in Deliveries : pc[d] \in HandlerLabels
  /\ \A w \in Workers : pc[w] \in WorkerLabels

CallTypeOK ==
  /\ call \in [Processes -> [write: Pending, next: HandlerLabels \cup WorkerLabels]]
  /\ \A d \in Deliveries : call[d].next \in HandlerLabels
  /\ \A w \in Workers : call[w].next \in WorkerLabels

LocalTypeOK ==
  /\ seen \in [Deliveries -> Pending]
  /\ resp \in [Deliveries -> Responses]
  /\ held \in [Workers -> Nat]
  /\ kind \in [Deliveries -> Kinds]
  /\ settled \subseteq Deliveries
  /\ faults \in 0..MaxFaults
  /\ expiries \in 0..MaxExpiries

TypeOK == RedisTypeOK /\ ControlTypeOK /\ CallTypeOK /\ LocalTypeOK

Init ==
  /\ slot = NoPending
  /\ idem = [k \in Deliveries |-> Unsaid]
  /\ log = << >> /\ cursor = 0 /\ pel = {}
  /\ pc = [p \in Processes |-> "idle"]
  /\ seen = [d \in Deliveries |-> NoPending]
  /\ resp = [d \in Deliveries |-> Unsaid]
  /\ call = [p \in Processes |-> NoCall]
  /\ held = [w \in Workers |-> 0]
  /\ kind \in [Deliveries -> Utterances]
  /\ settled = {}
  /\ faults = 0 /\ expiries = 0

-----------------------------------------------------------------------------
(* The store.                                                              *)

\* The job a worker is at.
Job(w) == log[held[w]]

Goto(p, label) == pc' = [pc EXCEPT ![p] = label]

\* The GET of a store call of p.  With the guard's permission p holds the
\* payload it will write and goes on to Commit; without it p is at onSkip.
ReadThenWrite(p, permitted, payload, next, onSkip) ==
  /\ \/ /\ permitted
        /\ Goto(p, "commit")
        /\ call' = [call EXCEPT ![p] = [write |-> payload, next |-> next]]
     \/ /\ ~permitted
        /\ Goto(p, onSkip)
        /\ call' = [call EXCEPT ![p] = NoCall]
  /\ UNCHANGED <<redisVars, seen, resp, held, kind, settled, boundVars>>

\* The SET or DEL of the store call: it overwrites whatever is there now.
Commit(p) ==
  /\ pc[p] = "commit"
  /\ slot' = call[p].write
  /\ Goto(p, call[p].next)
  /\ call' = [call EXCEPT ![p] = NoCall]
  /\ settled' = IF p \in Workers THEN settled \cup {Job(p)} ELSE settled
  /\ UNCHANGED <<idem, log, cursor, pel, seen, resp, held, kind, boundVars>>

-----------------------------------------------------------------------------
(* A webhook call.                                                         *)

localUnchanged == UNCHANGED <<held, kind, settled, boundVars>>

Busy(d) == pc[d] \notin {"idle", "done"}

\* A duplicate of an answered request gets the cached response.  The route
\* makes the same lookup once more just before, which adds no behaviour.
Receive(d) ==
  /\ pc[d] = "idle"
  /\ "overlap" \in Hazards \/ \A e \in Deliveries : ~Busy(e)
  /\ resp' = [resp EXCEPT ![d] = idem[KeyOf[d]]]
  /\ Goto(d, IF idem[KeyOf[d]] = Unsaid THEN "load" ELSE "done")
  /\ UNCHANGED <<redisVars, seen, call>> /\ localUnchanged

\* Reads the pending reply and decides on it.
Load(d) ==
  /\ pc[d] = "load"
  /\ LET decision == Handle(kind[KeyOf[d]], slot)
     IN  /\ resp' = [resp EXCEPT ![d] = decision.response]
         /\ Goto(d, decision.next)
  /\ seen' = [seen EXCEPT ![d] = slot]
  /\ UNCHANGED <<redisVars, call>> /\ localUnchanged

\* clear_pending: of the record that was read, or of the call's own job when
\* it could not be queued.
AfterClear(d) ==
  CASE resp[d] = Unavailable -> "done"
    [] resp[d] \notin {Unsaid, Unavailable} -> "save"
    [] resp[d] = Unsaid ->
         IF IsContinueIntent(kind[KeyOf[d]], seen[d]) THEN "defer" ELSE "ask"

Clear(d) ==
  /\ pc[d] = "clear"
  /\ LET job == IF resp[d] = Unavailable THEN d ELSE seen[d].job
     IN  ReadThenWrite(d, Owns(slot, job), NoPending, AfterClear(d), AfterClear(d))

\* mark_delivered of the reply being told.
Deliver(d) ==
  /\ pc[d] = "deliver"
  /\ ReadThenWrite(d, Owns(slot, seen[d].job), Delivered(slot),
                   AfterTelling(seen[d]), AfterTelling(seen[d]))

\* mark_ready of the tail; when the key is another job's, clear_pending.
Advance(d) ==
  /\ pc[d] = "advance"
  /\ ReadThenWrite(d, MayMark(slot, seen[d].job), ReadyTail(seen[d].job),
                   "save", "clear")

\* The model answers within the fast deadline: the call tells its text and,
\* when there is a tail or an offer, keeps it for "continue".
FastReply(d, reply) ==
  /\ pc[d] = "ask"
  /\ resp' = [resp EXCEPT ![d] = Tell(d, reply.text)]
  /\ \/ reply.mode = "none" /\ Goto(d, "save") /\ UNCHANGED call
     \/ /\ reply.mode # "none"
        /\ Goto(d, "keep")
        /\ call' = [call EXCEPT ![d].write = ImmediateFollowup(d, reply)]
  /\ UNCHANGED <<redisVars, seen>> /\ localUnchanged

FastPathFails(d) ==
  /\ pc[d] = "ask"
  /\ Goto(d, "defer")
  /\ UNCHANGED <<redisVars, seen, resp, call>> /\ localUnchanged

\* mark_ready of the follow-up under a new job_id, and mark_delivered of an
\* offer; both give up silently on another job's record.
Keep(d) ==
  /\ pc[d] = "keep"
  /\ LET next == IF call[d].write.mode = "deferred_offer" THEN "offer" ELSE "save"
     IN  ReadThenWrite(d, MayMark(slot, d), call[d].write, next, next)

Offer(d) ==
  /\ pc[d] = "offer"
  /\ ReadThenWrite(d, Owns(slot, d), Delivered(slot), "save", "save")

\* Mutant of Defer: the record just created is taken for somebody else's.
Defer_DoubtsItself(d) ==
  /\ pc[d] = "defer"
  /\ slot' = IF slot = NoPending THEN Processing(d) ELSE slot
  /\ Goto(d, "recheck")
  /\ UNCHANGED <<idem, log, cursor, pel, seen, resp, call>> /\ localUnchanged

\* start_pending: SET NX, and a look at the record that won when it fails.
Defer(d) ==
  /\ pc[d] = "defer"
  /\ \/ /\ slot = NoPending
        /\ slot' = Processing(d)
        /\ Goto(d, "enqueue")
     \/ /\ slot # NoPending
        /\ Goto(d, "recheck")
        /\ UNCHANGED slot
  /\ UNCHANGED <<idem, log, cursor, pel, seen, resp, call>> /\ localUnchanged

\* The caller queues its job when the record returned carries its job_id,
\* and promises the answer either way.
Recheck(d) ==
  /\ pc[d] = "recheck"
  /\ \/ slot = NoPending /\ Goto(d, "enqueue") /\ UNCHANGED resp
     \/ /\ slot # NoPending
        /\ Goto(d, "save")
        /\ resp' = [resp EXCEPT ![d] = Promise]
  /\ UNCHANGED <<redisVars, seen, call>> /\ localUnchanged

Enqueue(d) ==
  /\ pc[d] = "enqueue"
  /\ log' = Append(log, d)
  /\ resp' = [resp EXCEPT ![d] = Promise]
  /\ Goto(d, "save")
  /\ UNCHANGED <<slot, idem, cursor, pel, seen, call>> /\ localUnchanged

\* Mutant of Save: the response is not cached.
Save_Forgets(d) ==
  /\ pc[d] = "save"
  /\ Goto(d, "done")
  /\ UNCHANGED <<redisVars, seen, resp, call>> /\ localUnchanged

Save(d) ==
  /\ pc[d] = "save"
  /\ idem' = [idem EXCEPT ![KeyOf[d]] = resp[d]]
  /\ Goto(d, "done")
  /\ UNCHANGED <<slot, log, cursor, pel, seen, resp, call>> /\ localUnchanged

-----------------------------------------------------------------------------
(* A worker.                                                               *)

Take(w, i) ==
  /\ pc[w] = "idle"
  /\ held' = [held EXCEPT ![w] = i]
  /\ Goto(w, "check")
  /\ UNCHANGED <<slot, idem, log, seen, resp, call, kind, settled, boundVars>>

\* XREADGROUP gives the next new entry.
Read(w) ==
  /\ cursor < Len(log)
  /\ Take(w, cursor + 1)
  /\ cursor' = cursor + 1
  /\ pel' = pel \cup {cursor + 1}

\* Mutant of Reclaim: nothing is ever reclaimed.
Reclaim_Never(w, i) == FALSE /\ Take(w, i) /\ UNCHANGED <<cursor, pel>>

\* XAUTOCLAIM gives an entry that has been idle for the job timeout.
Reclaim(w, i) ==
  /\ i \in pel
  /\ "early_reclaim" \in Hazards \/ \A v \in Workers : held[v] # i
  /\ Take(w, i)
  /\ UNCHANGED <<cursor, pel>>

workerMoves == UNCHANGED <<redisVars, seen, resp, held, kind, settled, boundVars>>

\* Mutant of Check: the status of the job's record is not looked at.
Check_Careless(w) ==
  /\ pc[w] = "check"
  /\ Goto(w, IF Owns(slot, Job(w)) THEN "generate" ELSE "ack")
  /\ UNCHANGED call /\ workerMoves

\* A job whose record is gone, replaced or no longer PROCESSING is skipped.
Check(w) ==
  /\ pc[w] = "check"
  /\ Goto(w, IF slot = Processing(Job(w)) THEN "generate" ELSE "ack")
  /\ UNCHANGED call /\ workerMoves

Generate(w, reply) ==
  /\ pc[w] = "generate"
  /\ Goto(w, "publish")
  /\ call' = [call EXCEPT ![w].write = ReadyReply(Job(w), reply)]
  /\ workerMoves

\* Mutant of GenerateFails: the job is acknowledged without mark_failed.
GenerateFails_Unmarked(w) ==
  /\ pc[w] = "generate"
  /\ Goto(w, "ack")
  /\ UNCHANGED call /\ workerMoves

GenerateFails(w) ==
  /\ pc[w] = "generate"
  /\ Goto(w, "fail")
  /\ UNCHANGED call /\ workerMoves

\* mark_ready and mark_failed.
Publish(w) ==
  /\ pc[w] = "publish"
  /\ ReadThenWrite(w, MayMark(slot, Job(w)), call[w].write, "ack", "ack")

Fail(w) ==
  /\ pc[w] = "fail"
  /\ ReadThenWrite(w, MayMark(slot, Job(w)), FailedReply(Job(w)), "ack", "ack")

\* Mutant of Ack: no XACK.
Ack_Skipped(w) ==
  /\ pc[w] = "ack"
  /\ held' = [held EXCEPT ![w] = 0]
  /\ Goto(w, "idle")
  /\ UNCHANGED <<redisVars, seen, resp, call, kind, settled, boundVars>>

Ack(w) ==
  /\ pc[w] = "ack"
  /\ pel' = pel \ {held[w]}
  /\ held' = [held EXCEPT ![w] = 0]
  /\ Goto(w, "idle")
  /\ UNCHANGED <<slot, idem, log, cursor, seen, resp, call, kind, settled, boundVars>>

-----------------------------------------------------------------------------
(* What goes wrong.                                                        *)

Fault ==
  /\ "failure" \in Hazards
  /\ faults < MaxFaults
  /\ faults' = faults + 1
  /\ UNCHANGED expiries

\* A webhook call raises or its process dies: the user hears the apology or
\* nothing.  The SET of the cached response may have happened all the same.
Abort(d) ==
  /\ Fault
  /\ Busy(d)
  /\ \/ UNCHANGED idem
     \/ pc[d] = "save" /\ idem' = [idem EXCEPT ![KeyOf[d]] = resp[d]]
  /\ resp' = [resp EXCEPT ![d] = Unavailable]
  /\ call' = [call EXCEPT ![d] = NoCall]
  /\ Goto(d, "done")
  /\ UNCHANGED <<slot, log, cursor, pel, seen, held, kind, settled>>

\* Mutant of EnqueueFails: the call tries start_pending again.
EnqueueFails_Retries(d) ==
  /\ Fault
  /\ pc[d] = "enqueue"
  /\ resp' = [resp EXCEPT ![d] = Unavailable]
  /\ Goto(d, "defer")
  /\ UNCHANGED <<redisVars, seen, call, held, kind, settled>>

\* XADD raises: the call takes its record back.
EnqueueFails(d) ==
  /\ Fault
  /\ pc[d] = "enqueue"
  /\ \/ UNCHANGED log
     \/ "lost_reply" \in Hazards /\ log' = Append(log, d)
  /\ resp' = [resp EXCEPT ![d] = Unavailable]
  /\ Goto(d, "clear")
  /\ UNCHANGED <<slot, idem, cursor, pel, seen, call, held, kind, settled>>

\* A worker dies, or raises where nothing records it (mark_failed, XACK): the
\* entry stays pending.
WorkerDrop(w) ==
  /\ Fault
  /\ pc[w] # "idle"
  /\ Goto(w, "idle")
  /\ held' = [held EXCEPT ![w] = 0]
  /\ call' = [call EXCEPT ![w] = NoCall]
  /\ UNCHANGED <<redisVars, seen, resp, kind, settled>>

\* process_deferred_job raises: the worker goes on to mark_failed, even when
\* the SET that raised has put the reply in place.
WorkerError(w) ==
  /\ Fault
  /\ \/ /\ \/ pc[w] \in {"check", "publish"}
           \/ pc[w] = "commit" /\ call[w].write.status = "ready"
        /\ UNCHANGED <<slot, settled>>
     \/ /\ pc[w] = "commit" /\ call[w].write.status = "ready"
        /\ "lost_reply" \in Hazards
        /\ slot' = call[w].write
        /\ settled' = settled \cup {Job(w)}
  /\ Goto(w, "fail")
  /\ call' = [call EXCEPT ![w] = NoCall]
  /\ UNCHANGED <<idem, log, cursor, pel, seen, resp, held, kind>>

\* The pending key reaches its TTL.
Expire ==
  /\ expiries < MaxExpiries
  /\ slot # NoPending
  /\ slot' = NoPending
  /\ expiries' = expiries + 1
  /\ UNCHANGED <<idem, log, cursor, pel, pc, seen, resp, call, held, kind, settled, faults>>

-----------------------------------------------------------------------------
HandlerStep(d) ==
  \/ Load(d) \/ Clear(d) \/ Deliver(d) \/ Advance(d)
  \/ (\E reply \in Replies : FastReply(d, reply)) \/ FastPathFails(d)
  \/ Keep(d) \/ Offer(d) \/ Defer(d) \/ Recheck(d) \/ Enqueue(d)
  \/ Commit(d) \/ Save(d)

WorkerStep(w) ==
  \/ Read(w) \/ (\E i \in 1..Len(log) : Reclaim(w, i))
  \/ Check(w) \/ (\E reply \in Replies : Generate(w, reply)) \/ GenerateFails(w)
  \/ Publish(w) \/ Fail(w) \/ Commit(w) \/ Ack(w)

Next ==
  \/ \E d \in Deliveries :
       Receive(d) \/ HandlerStep(d) \/ Abort(d) \/ EnqueueFails(d)
  \/ \E w \in Workers : WorkerStep(w) \/ WorkerDrop(w) \/ WorkerError(w)
  \/ Expire

Spec == Init /\ [][Next]_vars

\* The event loop runs every call that has been received to its end, and
\* every worker polls the stream for ever; calls arrive, keys expire and
\* processes fail as they like.
Fairness ==
  /\ \A d \in Deliveries : WF_vars(HandlerStep(d))
  /\ \A w \in Workers : WF_vars(WorkerStep(w))

FairSpec == Spec /\ Fairness

-----------------------------------------------------------------------------
(* Properties.  Said(d): what the user has heard from call d.              *)

Said(d) == pc[d] = "done"
Queued == {log[i] : i \in 1..Len(log)}
Acked(i) == i <= cursor /\ i \notin pel

\* deferred_worker.py:41-45 acknowledges a job only when its outcome is
\* written or it is not wanted any more: no acknowledged job is still shown
\* to the user as being prepared, whatever crashes, is reclaimed or races.
NoAckWhileProcessing ==
  \A i \in 1..Len(log) : Acked(i) => slot # Processing(log[i])

\* A PROCESSING record no worker will ever see (conversation.py:358-364) is
\* about to be queued or was left by a call that failed.
OrphanOnlyByFailure ==
  \A j \in Deliveries :
    slot = Processing(j) /\ j \notin Queued
      => pc[j] = "enqueue" \/ resp[j] = Unavailable

\* Why they hold: a job enters the stream only when its call is at its end,
\* a failed call does nothing more than take its record back, only SET NX
\* writes PROCESSING, and a worker at "ack" has left its job's record
\* settled or found it so.
StreamedJobIsStarted ==
  \A j \in Queued : pc[j] \in {"save", "done"} \/ resp[j] = Unavailable

FailedCallEnds ==
  \A d \in Deliveries :
    resp[d] = Unavailable =>
      \/ pc[d] \in {"clear", "done"}
      \/ pc[d] = "commit" /\ call[d].next = "done"

OnlyStartWritesProcessing ==
  \A p \in Processes : call[p].write.status # "processing"

HeldEntryIsGiven == \A w \in Workers : pc[w] # "idle" => held[w] \in 1..cursor

ReadyToAck == \A w \in Workers : pc[w] = "ack" => slot # Processing(Job(w))

StreamInv ==
  /\ TypeOK
  /\ StreamedJobIsStarted /\ FailedCallEnds /\ OnlyStartWritesProcessing
  /\ HeldEntryIsGiven /\ ReadyToAck
  /\ NoAckWhileProcessing /\ OrphanOnlyByFailure

\* The second part of an answer is never told before the first: whoever
\* tells the tail of j, some call told its head, or failed while telling it
\* (conversation.py:186-219, 289-304).
TailFollowsHead ==
  \A d, j \in Deliveries :
    resp[d] = Tell(j, "tail") =>
      \E e \in Deliveries :
        \/ resp[e] = Tell(j, "head")
        \/ resp[e] = Unavailable /\ (e = j \/ seen[e].job = j)

\* One part of an answer is told to one request (conversation.py:186-219).
ToldOnce ==
  \A d, e \in Deliveries :
    Said(d) /\ Said(e) /\ resp[d].say = "answer" /\ resp[d] = resp[e]
      => KeyOf[d] = KeyOf[e]

\* Deliveries of one request that are answered are answered alike
\* (conversation.py:60-62, 128; a failed one is not cached).
DuplicatesAgree ==
  \A d, e \in Deliveries :
    KeyOf[d] = KeyOf[e] /\ Said(d) /\ Said(e)
      => \/ resp[d] = resp[e]
         \/ Unavailable \in {resp[d], resp[e]}

\* Who is promised an answer has its question in the job stream
\* (conversation.py:349-370).
PromiseIsQueued ==
  \A d \in Deliveries :
    Said(d) /\ resp[d] = Promise =>
      \E e \in Deliveries : KeyOf[e] = KeyOf[d] /\ e \in Queued

\* A job is acknowledged with its outcome written, unless its call took it
\* back (conversation.py:229-256, 264-277, deferred_worker.py:52-69).
AckedJobIsSettled ==
  \A i \in 1..Len(log) :
    Acked(i) => log[i] \in settled \/ resp[log[i]] = Unavailable

\* "Continue" on a READY reply tells it.
ContinueTellsReady ==
  \A d \in Deliveries :
    Said(d) /\ kind[KeyOf[d]] = "continue" /\ seen[d].status = "ready"
      => resp[d].say = "answer" \/ resp[d] = Unavailable

\* A READY part, an offer's text included, leaves the key in one way only: it
\* is marked as delivered by a call that is about to answer with that part.
\* Nothing clears it, overwrites it or moves on from it, whatever fails; it is
\* stated for a key that does not expire (stores.py:146-224).
ReadyLeavesTold ==
  [][slot.status = "ready" /\ slot' # slot
       => /\ slot' = Delivered(slot)
          /\ \E d \in Deliveries :
               /\ pc[d] = "commit" /\ pc'[d] # "commit"
               /\ resp[d] = Tell(slot.job, slot.text)]_vars

\* Liveness: a queued job does not stay PROCESSING (README: "marked as ready
\* in Redis"), and its entry is acknowledged in the end.
QueuedJobEnds ==
  \A j \in Deliveries :
    (slot = Processing(j) /\ j \in Queued) ~> slot # Processing(j)

EntryIsAcked == \A i \in 1..Cardinality(Deliveries) : (i \in pel) ~> (i \notin pel)

\* The conversation implements ReplyLifecycle.
Phase ==
  CASE slot.status = "absent"     -> "none"
    [] slot.status = "processing" -> "preparing"
    [] slot.status = "delivered"  -> "told"
    [] slot.status \in {"ready", "failed"} -> slot.status

Lifecycle ==
  INSTANCE ReplyLifecycle
    WITH Requests <- Deliveries, NoRequest <- NoJob,
         phase <- Phase, owner <- slot.job,
         part <- IF slot.text = "tail" THEN 2 ELSE 1,
         over <- {d \in Deliveries : Said(d)}

ImplementsLifecycle == Lifecycle!Spec

=============================================================================

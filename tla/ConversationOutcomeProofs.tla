----------------------- MODULE ConversationOutcomeProofs -----------------------
(***************************************************************************)
(* What the user can rely on when the calls of a conversation are served   *)
(* in turn (InTurn), proved for every number of calls and workers: a       *)
(* promise has its question queued, an acknowledged job has its outcome, a *)
(* READY part leaves the key only when told, no part is told to two        *)
(* requests, and the conversation implements ReplyLifecycle.               *)
(***************************************************************************)
EXTENDS ConversationTurnProofs

-----------------------------------------------------------------------------
(* Jobs and promises.                                                      *)

\* Who is promised an answer has its question in the job stream
\* (conversation.py:349-370).
THEOREM PromiseCorrect == InTurn => (Spec => []PromiseIsQueued)
<1>1. CASE InTurn
  <2>1. AllInv => PromiseIsQueued
    BY DEF AllInv, TurnInv, PromisesInTurn, PromiseIsQueued
  <2> QED
    BY <1>1, <2>1, TurnCorrect, PTL
<1> QED
  BY <1>1

\* A job is acknowledged with its outcome written, unless its call took it
\* back (conversation.py:229-256, 264-277, deferred_worker.py:52-69).
THEOREM AckedCorrect == InTurn => (Spec => []AckedJobIsSettled)
<1>1. CASE InTurn
  <2>1. ASSUME AllInv
        PROVE  AckedJobIsSettled
    <3>1. expiries = 0
      BY <1>1, <2>1, SMT DEF InTurn, AllInv, StreamInv, TypeOK, LocalTypeOK
    <3> QED
      BY <2>1, <3>1 DEF AllInv, StreamInv, NoAckWhileProcessing, TurnInv, StreamInTurn,
                        AckedJobIsSettled, Queued
  <2> QED
    BY <1>1, <2>1, TurnCorrect, PTL
<1> QED
  BY <1>1

-----------------------------------------------------------------------------
(* The record.                                                             *)

\* The only step of a worker that changes the record is its SET.
LEMMA WorkerLeaves ==
  ASSUME InTurn, NEW w \in Workers, WorkerStep(w) \/ WorkerDrop(w) \/ WorkerError(w)
  PROVE  slot' = slot \/ Commit(w)
BY DEF WorkerStep, WorkerDrop, WorkerError, Read, Reclaim, Take, Check, Generate,
       GenerateFails, Publish, Fail, Ack, ReadThenWrite, workerMoves, redisVars, InTurn,
       OnlyFailures

\* Only the SET or DEL of a call or a worker, and SET NX, change the record.
LEMMA SlotWriters ==
  ASSUME InTurn, AllInv, [Next]_vars, slot' # slot
  PROVE  \/ \E p \in Processes : Commit(p)
         \/ \E d \in Deliveries : Defer(d)
<1>1. ~Expire
  BY BoundsAssumption, SMT
     DEF Expire, InTurn, AllInv, StreamInv, TypeOK, LocalTypeOK
<1>2. UNCHANGED vars => FALSE
  BY DEF vars, redisVars
<1>3. ASSUME NEW d \in Deliveries,
             Receive(d) \/ HandlerStep(d) \/ Abort(d) \/ EnqueueFails(d)
      PROVE  Commit(d) \/ Defer(d)
  BY <1>3 DEF Receive, HandlerStep, Abort, EnqueueFails, Load, Clear, Deliver, Advance,
         FastReply, FastPathFails, Keep, Offer, Recheck, Enqueue, Save, ReadThenWrite,
         redisVars
<1> QED
  BY <1>1, <1>2, <1>3, WorkerLeaves DEF Next, Processes

\* What a worker is about to write replaces the PROCESSING record of its job.
LEMMA WorkerWrites ==
  ASSUME AllInv, NEW w \in Workers, Commit(w)
  PROVE  /\ Job(w) \in Jobs /\ slot = Processing(Job(w))
         /\ \/ slot' = FailedReply(Job(w))
            \/ \E r \in Replies : slot' = ReadyReply(Job(w), r)
<1>1. pc[w] = "commit" /\ slot' = call[w].write /\ Typed
  BY DEF Commit, AllInv, StreamInv, Typed
<1> QED
  BY <1>1, HeldJob DEF AllInv, TurnInv, WorkerInTurn

\* What a call is about to write is what it is to write at that point.
LEMMA CallWritesInTurn ==
  ASSUME AllInv, NEW d \in Deliveries, Commit(d)
  PROVE  Writing(d, slot', call[d].next)
BY DEF Commit, AllInv, TurnInv, CallInTurn

\* A READY part, an offer's text included, leaves the key only by being marked
\* as delivered, by a call that is about to answer with it
\* (stores.py:146-224).
THEOREM ReadyLeavesCorrect == InTurn => (Spec => ReadyLeavesTold)
<1>1. ASSUME InTurn, AllInv, [Next]_vars, slot.status = "ready", slot' # slot
      PROVE  /\ slot' = Delivered(slot)
             /\ \E d \in Deliveries :
                  /\ pc[d] = "commit" /\ pc'[d] # "commit"
                  /\ resp[d] = Tell(slot.job, slot.text)
  <2>1. slot # NoPending /\ \A j : slot # Processing(j)
    BY <1>1 DEF NoPending, Processing, PendingRecord
  <2>2. PICK p \in Processes : Commit(p)
    BY <1>1, <2>1, SlotWriters DEF Defer
  <2>3. p \in Deliveries
    BY <1>1, <2>1, <2>2, WorkerWrites DEF Processes
  <2>4. Writing(p, slot', call[p].next) /\ seen[p] \in Pending
    BY <1>1, <2>2, <2>3, CallWritesInTurn DEF AllInv, StreamInv, TypeOK, LocalTypeOK
  <2>5. ~Clearing(p) /\ ~Advancing(p) /\ ~Keeping(p, slot')
    BY <1>1, <2>1, <2>4 DEF Clearing, Advancing, Keeping, Delivered, Pending
\* The text told is that of the record read, or of the offer just kept.
  <2>6. slot' = Delivered(slot) /\ resp[p] = Tell(slot.job, slot.text)
    <3>1. CASE Delivering(p) /\ slot' = Delivered(slot)
               /\ resp[p] = Tell(seen[p].job, seen[p].text)
      BY <3>1 DEF Delivering
    <3>2. CASE Offering(p) /\ slot' = Delivered(slot)
      BY <3>2 DEF Offering
    <3> QED
      BY <2>4, <2>5, <3>1, <3>2 DEF Writing
  <2>7. pc[p] = "commit" /\ pc'[p] = call[p].next
    BY <1>1, <2>2 DEF Commit, Goto, AllInv, StreamInv, TypeOK, ControlTypeOK
  <2>8. call[p].next # "commit"
    BY <1>1, <2>3, <2>7 DEF AllInv, SpeechInv, FitToBeAt, Heading
  <2> QED
    BY <2>3, <2>6, <2>7, <2>8
<1>2. CASE InTurn
  <2>1. AllInv /\ [Next]_vars =>
          [slot.status = "ready" /\ slot' # slot
             => /\ slot' = Delivered(slot)
                /\ \E d \in Deliveries :
                     /\ pc[d] = "commit" /\ pc'[d] # "commit"
                     /\ resp[d] = Tell(slot.job, slot.text)]_vars
    BY <1>1, <1>2
  <2> QED
    BY <1>2, <2>1, TurnCorrect, PTL DEF Spec, ReadyLeavesTold
<1> QED
  BY <1>2

-----------------------------------------------------------------------------
(* One part of an answer is told to one request.                           *)

\* What is owed of the records the store writes.
LEMMA OwedOf ==
  /\ Owed(NoPending) = {}
  /\ \A j \in Jobs :
       /\ Owed(Processing(j)) = AnswersOf(j)
       /\ Owed(ReadyTail(j)) \subseteq {Tell(j, "tail")}
  /\ \A p : Owed(p) \subseteq AnswersOf(p.job)
  /\ \A p \in Pending : p.status = "ready" => Owed(Delivered(p)) \subseteq Owed(p)
  /\ \A p \in Pending : AcceptsOffer(p) /\ ~p.hasTail => Owed(p) = {}
BY DEF Owed, AnswersOf, Tell, NoPending, Processing, ReadyTail, PendingRecord, Pending,
       Tellable, AcceptsOffer, Delivered

\* Answers are told apart by their job and their part.
LEMMA AnswersNamed ==
  /\ \A j, t : t \in {"blank", "head", "tail"} => Tell(j, t) \in AnswersOf(j)
  /\ \A j : \A r \in AnswersOf(j) : r.say = "answer" /\ r.job = j /\ r = Tell(j, r.text)
  /\ \A n \in Notices : \A j : Say(n) \notin AnswersOf(j)
BY NoticesPlain DEF AnswersOf, Tell

\* What a call says is new when it begins to say it, and the record it
\* leaves owes nothing that was told before.
LEMMA CallTold ==
  ASSUME ToldInv, NEW d \in Deliveries,
         \A e \in Deliveries : e # d => pc'[e] = pc[e] /\ resp'[e] = resp[e],
         \A e \in Deliveries : e # d => ~Busy(e),
         UNCHANGED idem, d \in Fresh' => d \in Fresh,
         Owed(slot') \cap Cached = {},
         \A j \in Fresh' : slot'.job # j /\ resp'[d] \notin AnswersOf(j),
         Busy(d)' /\ resp'[d].say = "answer" =>
           /\ resp'[d] \notin Cached
           /\ resp'[d].job = d => AnswersOf(d) \cap Cached = {}
  PROVE  ToldInv'
<1>1. Cached' = Cached /\ Fresh' \subseteq Fresh /\ \A j : AnswersOf(j)' = AnswersOf(j)
  BY DEF Cached, Fresh
<1>2. \A e \in Deliveries : e # d => ~Busy(e)'
  BY DEF Busy
<1>3. Owed(slot)' \cap Cached' = {}
  BY <1>1 DEF Owed
<1>4. ASSUME NEW j \in Fresh'
      PROVE  slot'.job # j /\ AnswersOf(j) \cap (Cached' \cup {resp'[e] : e \in Deliveries}) = {}
  BY <1>1, <1>4 DEF ToldInv
<1>5. \A e \in Deliveries :
        Busy(e)' /\ resp'[e].say = "answer" =>
          /\ resp'[e] \notin Cached'
          /\ resp'[e].job = e => AnswersOf(e)' \cap Cached' = {}
  BY <1>1, <1>2
<1> QED
  BY <1>1, <1>3, <1>4, <1>5 DEF ToldInv

\* A step that neither speaks nor touches the record or the cache.
LEMMA CallQuiet ==
  ASSUME ToldInv, NEW d \in Deliveries, pc[d] \notin {"idle", "enqueue", "done"},
         \A e \in Deliveries : e # d => pc'[e] = pc[e] /\ ~Busy(e),
         UNCHANGED <<slot, idem, resp>>
  PROVE  ToldInv'
<1>1. d \in Fresh' => d \in Fresh
  BY DEF Fresh
<1>2. Fresh' \subseteq Fresh
  BY <1>1 DEF Fresh
<1>3. \A j \in Fresh' : slot'.job # j /\ resp'[d] \notin AnswersOf(j)
  BY <1>2 DEF ToldInv
<1> QED
  BY <1>1, <1>3, CallTold DEF ToldInv, Busy

\* The response a call saves is new to the cache, and what the record still
\* owes is not that.
LEMMA SavedTold ==
  ASSUME AllInv, ToldInv, NEW d \in Deliveries, pc[d] = "save",
         \A e \in Deliveries : e # d => ~Busy(e),
         pc' = [pc EXCEPT ![d] = "done"],
         resp'[d] \in {resp[d], Unavailable},
         \A e \in Deliveries : e # d => resp'[e] = resp[e],
         idem' = [idem EXCEPT ![KeyOf[d]] = resp[d]],
         UNCHANGED slot
  PROVE  ToldInv'
<1>1. /\ slot \in Pending /\ Shaped(slot) /\ CallInTurn(d) /\ FitToBeAt(d, "save")
      /\ idem \in [Deliveries -> Responses] /\ KeyOf[d] \in Deliveries
      /\ pc'[d] = "done" /\ \A e \in Deliveries : e # d => pc'[e] = pc[e]
      /\ resp[d] \in Responses
  BY KeyOfAssumption
     DEF AllInv, StreamInv, TypeOK, RedisTypeOK, ControlTypeOK, LocalTypeOK, SpeechInv,
         TurnInv, Heading, Processes
<1>2. /\ idem'[KeyOf[d]] = resp[d]
      /\ \A k \in Deliveries : k # KeyOf[d] => idem'[k] = idem[k]
      /\ Cached' \subseteq Cached \cup {resp[d]}
  BY <1>1 DEF Cached
<1>3. Busy(d) /\ resp[d] # Unsaid /\ Unavailable # Unsaid
  BY <1>1 DEF Busy, FitToBeAt, Unavailable, Unsaid, Say
<1>4. Fresh' \subseteq Fresh
  BY <1>1, <1>3 DEF Fresh
<1>5. resp[d].say = "answer" => resp[d] \notin Cached
  BY <1>3 DEF ToldInv
<1>6. \A k, l \in Deliveries : idem'[k].say = "answer" /\ idem'[k] = idem'[l] => k = l
  BY <1>2, <1>5 DEF ToldInv, Cached
<1>7. resp[d] \notin Owed(slot)
  <2> SUFFICES ASSUME resp[d] \in Owed(slot) PROVE FALSE
    OBVIOUS
  <2>1. resp[d] \in AnswersOf(slot.job) /\ resp[d].say = "answer"
    BY OwedOf, AnswersNamed
  <2>2. ToldAway(slot, resp[d])
    BY <1>1, <2>1 DEF CallInTurn
  <2>3. CASE slot = NoPending
    BY <2>3, OwedOf
  <2>4. CASE slot = ReadyTail(resp[d].job) /\ resp[d].text = "head"
    <3>1. slot.status = "ready" /\ slot.text = "tail" /\ slot.hasTail = FALSE
      BY <2>4 DEF ReadyTail, PendingRecord
    <3> QED
      BY <2>4, <3>1 DEF Owed
  <2>5. CASE AcceptsOffer(slot)
    <3>1. ~slot.hasTail
      BY <1>1, <2>5 DEF Shaped, AcceptsOffer
    <3> QED
      BY <1>1, <2>5, <3>1, OwedOf
  <2> QED
    BY <2>2, <2>3, <2>4, <2>5 DEF ToldAway
<1>8. Owed(slot)' \cap Cached' = {}
  <2>1. Owed(slot)' = Owed(slot)
    BY DEF Owed
  <2> QED
    BY <1>2, <1>7, <2>1 DEF ToldInv
<1>9. \A e \in Deliveries : ~Busy(e)'
  BY <1>1 DEF Busy
<1>10. ASSUME NEW j \in Fresh'
       PROVE  /\ slot'.job # j
              /\ AnswersOf(j) \cap (Cached' \cup {resp'[e] : e \in Deliveries}) = {}
  <2>1. /\ slot.job # j
        /\ AnswersOf(j) \cap (Cached \cup {resp[e] : e \in Deliveries}) = {}
    BY <1>4, <1>10 DEF ToldInv
  <2>2. Unavailable \notin AnswersOf(j)
    BY AnswersNamed DEF Unavailable, Notices
  <2> QED
    BY <1>2, <2>1, <2>2
<1> QED
  BY <1>6, <1>8, <1>9, <1>10 DEF ToldInv

\* A call that reads the record tells what is owed of it, if anything.
LEMMA LoadTold ==
  ASSUME AllInv, ToldInv, NEW d \in Deliveries, \A e \in Deliveries : e # d => ~Busy(e),
         Load(d)
  PROVE  ToldInv'
<1> DEFINE decision == Handle(kind[KeyOf[d]], slot)
<1>1. /\ slot \in Pending /\ d \in Processes /\ kind[KeyOf[d]] \in Kinds
      /\ pc \in [Processes -> HandlerLabels \cup WorkerLabels]
      /\ resp \in [Deliveries -> Responses] /\ FitToBeAt(d, pc[d])
  BY KeyOfAssumption
     DEF AllInv, StreamInv, TypeOK, RedisTypeOK, ControlTypeOK, LocalTypeOK, Processes,
         SpeechInv, Heading, Load
<1>2. Fits(slot, decision)
  BY <1>1, HandleFits
<1> HIDE DEF decision
<1>3. /\ pc[d] = "load" /\ resp'[d] = decision.response /\ pc'[d] = decision.next
      /\ \A e \in Deliveries : e # d => pc'[e] = pc[e] /\ resp'[e] = resp[e]
      /\ UNCHANGED <<slot, idem>>
  <2>1. /\ pc[d] = "load" /\ resp' = [resp EXCEPT ![d] = decision.response]
        /\ Goto(d, decision.next) /\ UNCHANGED <<slot, idem>>
    BY DEF Load, decision, redisVars
  <2> QED
    BY <1>1, <2>1 DEF Goto, Processes
<1>4. d \in Fresh
  BY <1>1, <1>3 DEF Fresh, FitToBeAt
<1>5. /\ resp'[d].say = "answer" => resp'[d] \in Owed(slot)
      /\ \A j : resp'[d] \in AnswersOf(j) => resp'[d].say = "answer" /\ j = slot.job
  <2>1. resp'[d].say = "answer" => resp'[d] = Tell(slot.job, slot.text) /\ Tellable(slot)
    BY <1>2, <1>3 DEF Fits
  <2>2. Tellable(slot) => slot.text \in {"blank", "head", "tail"}
    BY <1>1 DEF Tellable, Pending
  <2>3. Tellable(slot) => Tell(slot.job, slot.text) \in Owed(slot)
    BY <2>2, AnswersNamed DEF Owed, Tell
  <2> QED
    BY <2>1, <2>3, AnswersNamed DEF Tell
<1>6. Fresh' \subseteq Fresh
  BY <1>3, <1>4 DEF Fresh
<1>7. \A j \in Fresh' : slot'.job # j /\ resp'[d] \notin AnswersOf(j)
  BY <1>3, <1>5, <1>6 DEF ToldInv
<1>8. resp'[d].say = "answer" => resp'[d] \notin Cached /\ resp'[d].job # d
  BY <1>4, <1>5, OwedOf, AnswersNamed DEF ToldInv
<1> QED
  BY <1>3, <1>4, <1>7, <1>8, CallTold DEF ToldInv

\* What a call writes over the record owes nothing new but its own answer.
LEMMA CommitTold ==
  ASSUME AllInv, ToldInv, NEW d \in Deliveries, \A e \in Deliveries : e # d => ~Busy(e),
         Commit(d)
  PROVE  ToldInv'
<1>1. /\ slot \in Pending /\ seen[d] \in Pending /\ d \in Processes
      /\ pc \in [Processes -> HandlerLabels \cup WorkerLabels]
      /\ call[d].next # "enqueue"
  <2>1. TypeOK /\ d \in Processes /\ pc[d] = "commit"
    BY DEF AllInv, StreamInv, Processes, Commit
  <2>2. Writing(d, slot', call[d].next)
    BY CallWritesInTurn
  <2>3. /\ AfterClear(d) # "enqueue"
        /\ seen[d] \in Pending => AfterTelling(seen[d]) # "enqueue"
    BY AfterClearType, AfterTellingType
  <2> QED
    BY <2>1, <2>2, <2>3 DEF Writing, TypeOK, RedisTypeOK, ControlTypeOK, LocalTypeOK
<1>2. /\ pc[d] = "commit" /\ pc'[d] = call[d].next
      /\ \A e \in Deliveries : e # d => pc'[e] = pc[e]
      /\ UNCHANGED <<idem, resp>>
  BY <1>1 DEF Commit, Goto, Processes
<1>3. d \in Fresh' => d \in Fresh
  BY <1>2 DEF Fresh
<1>4. Fresh' \subseteq Fresh
  BY <1>2, <1>3 DEF Fresh
<1>5. \A j \in Fresh' : slot.job # j /\ resp'[d] \notin AnswersOf(j)
  BY <1>2, <1>4 DEF ToldInv
<1>6. Busy(d)
  BY <1>2 DEF Busy
<1>7. ASSUME Owed(slot') \cap Cached = {}, \A j \in Fresh' : slot'.job # j
      PROVE  ToldInv'
  BY <1>2, <1>3, <1>5, <1>6, <1>7, CallTold DEF ToldInv
<1>8. ASSUME Owed(slot') \subseteq Owed(slot), slot'.job = slot.job
      PROVE  ToldInv'
  BY <1>5, <1>7, <1>8 DEF ToldInv
\* mark_delivered, of what is told or of an offer
<1>9. CASE slot' = Delivered(slot) /\ slot.status = "ready"
  <2>1. slot'.job = slot.job
    BY <1>1, <1>9 DEF Delivered, Pending
  <2> QED
    BY <1>1, <1>8, <1>9, <2>1, OwedOf
\* clear_pending
<1>10. CASE slot' = NoPending
  <2>1. \A j \in Deliveries : slot'.job # j
    BY <1>10, NoJobAssumption DEF NoPending, PendingRecord
  <2> QED
    BY <1>7, <1>10, <2>1, OwedOf DEF Fresh
\* mark_ready of the tail
<1>11. CASE slot' = ReadyTail(seen[d].job) /\ Advancing(d) /\ seen[d].hasTail
  <2>1. slot.job = seen[d].job /\ slot.hasTail /\ slot.job \in Jobs
    BY <1>1, <1>11 DEF Advancing, Delivered, Pending, Jobs
  <2>2. slot'.job = slot.job /\ Owed(slot') \subseteq {Tell(slot.job, "tail")}
    BY <1>11, <2>1, OwedOf DEF ReadyTail, PendingRecord
  <2>3. Tell(slot.job, "tail") \in Owed(slot)
    BY <2>1, AnswersNamed DEF Owed, Tell
  <2> QED
    BY <1>8, <2>2, <2>3
\* mark_ready of what a fast answer keeps
<1>12. CASE Keeping(d, slot')
  <2>1. PICK r \in Replies :
          slot' = ImmediateFollowup(d, r) /\ resp[d] = Tell(d, r.text)
    BY <1>12 DEF Keeping
  <2>2. slot'.job = d
    BY <2>1 DEF ImmediateFollowup, ReadyTail, ReadyReply, PendingRecord
  <2>3. resp[d].say = "answer" /\ resp[d].job = d /\ d \notin Fresh
    BY <2>1, NoticesPlain DEF Fresh, Tell
  <2>4. AnswersOf(d) \cap Cached = {}
    BY <1>6, <2>3 DEF ToldInv
  <2>5. Owed(slot') \subseteq AnswersOf(d)
    BY <2>2, OwedOf
  <2> QED
    BY <1>4, <1>7, <2>2, <2>3, <2>4, <2>5
<1> QED
  BY <1>9, <1>10, <1>11, <1>12, CallWritesInTurn DEF Writing, Delivering, Offering

\* A worker's outcome owes no more than its job did.
LEMMA WorkerTold ==
  ASSUME AllInv, ToldInv, NEW w \in Workers,
         WorkerStep(w) \/ WorkerDrop(w) \/ WorkerError(w), slot' = slot \/ Commit(w)
  PROVE  ToldInv'
<1>1. Typed
  BY DEF AllInv, StreamInv, Typed
<1>2. UNCHANGED <<idem, resp>> /\ \A d \in Deliveries : pc'[d] = pc[d]
  BY <1>1, WorkerAside
<1>3. Cached' = Cached /\ Fresh' = Fresh
  BY <1>2 DEF Cached, Fresh
<1>4. slot'.job = slot.job /\ Owed(slot') \subseteq Owed(slot)
  <2>1. CASE Commit(w)
    <3>1. /\ Job(w) \in Jobs /\ slot = Processing(Job(w)) /\ slot'.job = Job(w)
      BY <2>1, WorkerWrites DEF FailedReply, ReadyReply, PendingRecord
    <3>2. Owed(slot') \subseteq AnswersOf(Job(w)) /\ Owed(slot) = AnswersOf(Job(w))
      BY <3>1, OwedOf
    <3> QED
      BY <3>1, <3>2 DEF Processing, PendingRecord
  <2> QED
    BY <2>1
<1>5. Owed(slot)' = Owed(slot') /\ \A j : AnswersOf(j)' = AnswersOf(j)
  BY DEF Owed, AnswersOf
<1> QED
  BY <1>2, <1>3, <1>4, <1>5 DEF ToldInv, Busy

\* Every step of a call.
LEMMA HandlerTold ==
  ASSUME InTurn, AllInv, ToldInv, NEW d \in Deliveries,
         HandlerStep(d) \/ Receive(d) \/ Abort(d) \/ EnqueueFails(d)
  PROVE  ToldInv'
<1> USE DEF localUnchanged, redisVars, boundVars
<1>1. /\ d \in Processes /\ CallInTurn(d)
      /\ pc[d] # "commit" => FitToBeAt(d, pc[d])
      /\ pc \in [Processes -> HandlerLabels \cup WorkerLabels]
      /\ resp \in [Deliveries -> Responses]
      /\ idem \in [Deliveries -> Responses] /\ KeyOf[d] \in Deliveries
  BY KeyOfAssumption
     DEF AllInv, StreamInv, TypeOK, RedisTypeOK, ControlTypeOK, LocalTypeOK, Processes,
         SpeechInv, Heading, TurnInv
<1>2. \A e \in Deliveries : e # d => ~Busy(e)
  <2>1. CASE Receive(d)
    BY <2>1 DEF Receive, InTurn, OnlyFailures, HazardKinds
  <2>2. CASE ~Receive(d)
    <3>1. Busy(d)
      BY <2>2 DEF HandlerStep, Load, Clear, Deliver, Advance, FastReply, FastPathFails,
         Keep, Offer, Defer, Recheck, Enqueue, Commit, Save, Abort, EnqueueFails, Busy
    <3> QED
      BY <3>1 DEF AllInv, CacheInv, OneCall
  <2> QED
    BY <2>1, <2>2
<1>3. /\ \A l : /\ [pc EXCEPT ![d] = l][d] = l
                /\ \A e \in Deliveries : e # d => [pc EXCEPT ![d] = l][e] = pc[e]
      /\ \A r : /\ [resp EXCEPT ![d] = r][d] = r
                /\ \A e \in Deliveries : e # d => [resp EXCEPT ![d] = r][e] = resp[e]
  BY <1>1 DEF Processes
<1>4. \A n \in Notices : \A j : Say(n).say # "answer" /\ Say(n) \notin AnswersOf(j)
  BY NoticesPlain, AnswersNamed
\* The call goes on without a word.
<1>5. ASSUME NEW label, pc' = [pc EXCEPT ![d] = label], UNCHANGED <<slot, idem, resp>>,
             pc[d] \notin {"idle", "enqueue", "done"}
      PROVE  ToldInv'
  BY <1>2, <1>3, <1>5, CallQuiet
\* The call says something that is no answer.
<1>6. ASSUME NEW n \in Notices \ {"unsaid"}, NEW label, pc' = [pc EXCEPT ![d] = label],
             resp' = [resp EXCEPT ![d] = Say(n)], UNCHANGED <<slot, idem>>
      PROVE  ToldInv'
  <2>1. Say(n) # Unsaid
    BY DEF Say, Unsaid
  <2>2. d \notin Fresh' /\ Fresh' \subseteq Fresh
    BY <1>3, <1>6, <2>1 DEF Fresh
  <2>3. \A j \in Fresh' : slot'.job # j /\ resp'[d] \notin AnswersOf(j)
    BY <1>3, <1>4, <1>6, <2>2 DEF ToldInv
  <2>4. /\ resp'[d].say # "answer"
        /\ \A e \in Deliveries : e # d => pc'[e] = pc[e] /\ resp'[e] = resp[e]
    BY <1>3, <1>4, <1>6
  <2> QED
    BY <1>2, <1>6, <2>2, <2>3, <2>4, CallTold DEF ToldInv
<1>7. CASE Receive(d)
  <2>1. PICK label \in {"load", "done"} :
          /\ pc' = [pc EXCEPT ![d] = label]
          /\ label = "load" => idem[KeyOf[d]] = Unsaid
    BY <1>7 DEF Receive, Goto
  <2>2. /\ UNCHANGED <<slot, idem>> /\ resp' = [resp EXCEPT ![d] = idem[KeyOf[d]]]
        /\ pc[d] = "idle"
    BY <1>7 DEF Receive
  <2>3. d \in Fresh
    BY <1>1, <2>2 DEF Fresh, FitToBeAt
  <2>4. Fresh' \subseteq Fresh
    BY <1>3, <2>1, <2>2, <2>3 DEF Fresh
  <2>5. resp'[d] \in Cached
    BY <1>1, <1>3, <2>2 DEF Cached
  <2>6. \A j \in Fresh' : slot'.job # j /\ resp'[d] \notin AnswersOf(j)
    BY <2>2, <2>4, <2>5 DEF ToldInv
  <2>7. ~(Busy(d)' /\ resp'[d].say = "answer")
    <3>1. CASE label = "load"
      BY <1>3, <2>1, <2>2, <3>1, NoticesPlain
    <3>2. CASE label = "done"
      BY <1>3, <2>1, <3>2 DEF Busy
    <3> QED
      BY <3>1, <3>2
  <2> QED
    BY <1>2, <1>3, <2>1, <2>2, <2>3, <2>6, <2>7, CallTold DEF ToldInv
<1>8. CASE Load(d)
  BY <1>2, <1>8, LoadTold
<1>9. ASSUME NEW STATE permitted, NEW STATE payload, NEW STATE next, NEW STATE onSkip,
             ReadThenWrite(d, permitted, payload, next, onSkip),
             pc[d] \in {"clear", "deliver", "advance", "keep", "offer"}
      PROVE  ToldInv'
  <2>1. PICK label : pc' = [pc EXCEPT ![d] = label]
    BY <1>9 DEF ReadThenWrite, Goto
  <2> QED
    BY <1>5, <1>9, <2>1 DEF ReadThenWrite
<1>10. CASE Clear(d) \/ Deliver(d) \/ Advance(d) \/ Keep(d) \/ Offer(d)
  BY <1>9, <1>10 DEF Clear, Deliver, Advance, Keep, Offer
<1>11. ASSUME NEW reply \in Replies, FastReply(d, reply)
       PROVE  ToldInv'
  <2>1. /\ pc[d] = "ask" /\ resp' = [resp EXCEPT ![d] = Tell(d, reply.text)]
        /\ UNCHANGED <<slot, idem>>
    BY <1>11 DEF FastReply
  <2>2. PICK label \in {"save", "keep"} : pc' = [pc EXCEPT ![d] = label]
    BY <1>11 DEF FastReply, Goto
  <2>3. d \in Fresh /\ Tell(d, reply.text) # Unsaid
    BY <1>1, <2>1, NoticesPlain DEF Fresh, FitToBeAt
  <2>4. d \notin Fresh' /\ Fresh' \subseteq Fresh
    BY <1>3, <2>1, <2>2, <2>3 DEF Fresh
  <2>5. resp'[d] \in AnswersOf(d) /\ resp'[d].job = d
    BY <1>3, <2>1, AnswersNamed DEF Replies, Tell
  <2>6. \A j \in Fresh' : slot'.job # j /\ resp'[d] \notin AnswersOf(j)
    BY <2>1, <2>4, <2>5, AnswersNamed DEF ToldInv
  <2>7. AnswersOf(d) \cap Cached = {}
    BY <2>3 DEF ToldInv
  <2> QED
    BY <1>2, <1>3, <2>1, <2>2, <2>4, <2>5, <2>6, <2>7, CallTold DEF ToldInv
<1>12. CASE FastPathFails(d)
  BY <1>5, <1>12 DEF FastPathFails, Goto
<1>13. CASE Defer(d)
  <2>1. /\ pc[d] = "defer" /\ slot' = Processing(d) /\ pc' = [pc EXCEPT ![d] = "enqueue"]
        /\ UNCHANGED <<idem, resp>>
    BY <1>1, <1>13 DEF Defer, Goto, CallInTurn
  <2>2. d \in Fresh /\ resp[d] = Unsaid
    BY <1>1, <2>1 DEF Fresh, FitToBeAt
  <2>3. d \notin Fresh' /\ Fresh' \subseteq Fresh
    BY <1>3, <2>1 DEF Fresh
  <2>4. Owed(slot') \cap Cached = {}
    BY <2>1, <2>2, OwedOf DEF ToldInv, Jobs
  <2>5. slot'.job = d
    BY <2>1 DEF Processing, PendingRecord
  <2>6. \A j \in Fresh' : slot'.job # j /\ resp'[d] \notin AnswersOf(j)
    BY <2>1, <2>3, <2>5 DEF ToldInv
  <2>7. resp'[d].say # "answer"
    BY <2>1, <2>2, NoticesPlain
  <2> QED
    BY <1>2, <1>3, <2>1, <2>3, <2>4, <2>6, <2>7, CallTold
<1>14. CASE Recheck(d)
  BY <1>1, <1>14 DEF Recheck, CallInTurn
<1>15. CASE Enqueue(d)
  BY <1>6, <1>15 DEF Enqueue, Goto, Promise, Notices
<1>16. CASE Commit(d)
  BY <1>2, <1>16, CommitTold
<1>17. CASE Save(d)
  <2>1. /\ pc[d] = "save" /\ pc' = [pc EXCEPT ![d] = "done"]
        /\ idem' = [idem EXCEPT ![KeyOf[d]] = resp[d]] /\ UNCHANGED <<slot, resp>>
    BY <1>17 DEF Save, Goto
  <2> QED
    BY <1>2, <2>1, SavedTold
<1>18. CASE Abort(d)
  <2>1. /\ pc' = [pc EXCEPT ![d] = "done"] /\ resp' = [resp EXCEPT ![d] = Unavailable]
        /\ UNCHANGED slot
        /\ \/ UNCHANGED idem
           \/ pc[d] = "save" /\ idem' = [idem EXCEPT ![KeyOf[d]] = resp[d]]
    BY <1>18 DEF Abort, Goto
  <2>2. CASE UNCHANGED idem
    BY <1>6, <2>1, <2>2 DEF Unavailable, Notices
  <2>3. CASE pc[d] = "save" /\ idem' = [idem EXCEPT ![KeyOf[d]] = resp[d]]
    BY <1>2, <1>3, <2>1, <2>3, SavedTold
  <2> QED
    BY <2>1, <2>2, <2>3
<1>19. CASE EnqueueFails(d)
  BY <1>6, <1>19 DEF EnqueueFails, Goto, Unavailable, Notices
<1> QED
  BY <1>7, <1>8, <1>10, <1>11, <1>12, <1>13, <1>14, <1>15, <1>16, <1>17, <1>18, <1>19
     DEF HandlerStep

\* Nothing has been told at first.
LEMMA InitTold == Init => ToldInv
<1> SUFFICES ASSUME Init PROVE ToldInv
  OBVIOUS
<1>1. slot = NoPending /\ slot.job = NoJob /\ Cached \subseteq {Unsaid}
  BY DEF Init, NoPending, PendingRecord, Cached
<1>2. /\ \A d \in Deliveries : resp[d] = Unsaid /\ ~Busy(d)
      /\ \A k \in Deliveries : idem[k] = Unsaid
  BY DEF Init, Busy, Processes
<1>3. \A j : Unsaid \notin AnswersOf(j)
  BY AnswersNamed DEF Unsaid, Notices
<1> QED
  BY <1>1, <1>2, <1>3, OwedOf, NoticesPlain, NoJobAssumption DEF ToldInv, Fresh

\* Every step keeps what was told apart from what is still to be told.
THEOREM StepTold == InTurn => (AllInv /\ ToldInv /\ [Next]_vars => ToldInv')
<1> SUFFICES ASSUME InTurn, AllInv, ToldInv, [Next]_vars PROVE ToldInv'
  OBVIOUS
<1>1. ~Expire
  BY BoundsAssumption, SMT
     DEF Expire, InTurn, AllInv, StreamInv, TypeOK, LocalTypeOK
<1>2. CASE UNCHANGED vars
  <2>1. Cached' = Cached /\ Fresh' = Fresh /\ Owed(slot)' = Owed(slot)
        /\ \A j : AnswersOf(j)' = AnswersOf(j)
    BY <1>2 DEF Cached, Fresh, Owed, vars, redisVars
  <2> QED
    BY <1>2, <2>1 DEF ToldInv, Busy, vars, redisVars
<1> QED
  BY <1>1, <1>2, HandlerTold, WorkerLeaves, WorkerTold DEF Next

\* What was told and what is still to be told stay apart.
THEOREM ToldInvCorrect == InTurn => (Spec => []ToldInv)
<1>1. CASE InTurn
  <2>1. AllInv /\ ToldInv /\ [Next]_vars => ToldInv'
    BY <1>1, StepTold
  <2> QED
    BY <1>1, <2>1, InitTold, TurnCorrect, PTL DEF Spec
<1> QED
  BY <1>1

\* One part of an answer is told to one request (conversation.py:186-219).
THEOREM ToldCorrect == InTurn => (Spec => []ToldOnce)
<1>1. CASE InTurn
  <2>1. AllInv /\ ToldInv => ToldOnce
    <3> SUFFICES ASSUME AllInv, ToldInv, NEW d \in Deliveries, NEW e \in Deliveries,
                        Said(d), Said(e), resp[d].say = "answer", resp[d] = resp[e]
                 PROVE  KeyOf[d] = KeyOf[e]
      BY DEF ToldOnce
    <3>1. resp[d] # Unavailable /\ KeyOf[d] \in Deliveries /\ KeyOf[e] \in Deliveries
      BY NoticesPlain, KeyOfAssumption DEF Unavailable, Notices
    <3>2. idem[KeyOf[d]] = resp[d] /\ idem[KeyOf[e]] = resp[e]
      BY <3>1 DEF AllInv, CacheInv
    <3> QED
      BY <3>1, <3>2 DEF ToldInv
  <2> QED
    BY <1>1, <2>1, ToldInvCorrect, TurnCorrect, PTL
<1> QED
  BY <1>1

-----------------------------------------------------------------------------
(* The conversation implements ReplyLifecycle.                             *)

Over == {d \in Deliveries : Said(d)}
Part == IF slot.text = "tail" THEN 2 ELSE 1

\* Phase says of the record what its status is.
LEMMA Phases ==
  ASSUME slot \in Pending
  PROVE  /\ slot.status = "absent" => Phase = "none"
         /\ slot.status = "processing" => Phase = "preparing"
         /\ slot.status = "ready" => Phase = "ready"
         /\ slot.status = "delivered" => Phase = "told"
         /\ slot.status = "failed" => Phase = "failed"
BY DEF Phase, Pending

LEMMA PhasesNext ==
  ASSUME slot' \in Pending
  PROVE  /\ slot'.status = "absent" => Phase' = "none"
         /\ slot'.status = "processing" => Phase' = "preparing"
         /\ slot'.status = "ready" => Phase' = "ready"
         /\ slot'.status = "delivered" => Phase' = "told"
         /\ slot'.status = "failed" => Phase' = "failed"
BY DEF Phase, Pending

\* The steps of ReplyLifecycle, in the terms of this module.
LEMMA LifecycleSteps ==
  /\ \A d \in Deliveries :
       Phase = "none" /\ d \notin Over /\ Over' = Over /\ slot'.job = d
         => /\ Phase' = "preparing" /\ Part' = 1 => Lifecycle!Start(d)
            /\ Phase' = "ready" => Lifecycle!KeepFollowup(d)
  /\ \A d \in Deliveries :
       Over' = Over \cup {d} /\ UNCHANGED slot => Lifecycle!Close(d)
  /\ slot'.job = slot.job /\ Over' = Over
       => /\ Phase = "preparing" /\ Phase' \in {"ready", "failed"} /\ Part' = Part
               => Lifecycle!Settle
          /\ Phase = "ready" /\ Phase' = "told" /\ Part' = Part => Lifecycle!Tell
          /\ Phase = "told" /\ Part = 1 /\ Phase' = "ready" /\ Part' = 2
               => Lifecycle!NextPart
  /\ Phase' = "none" /\ slot'.job = NoJob /\ Part' = 1
       => /\ Phase \in {"told", "failed"} /\ Over' = Over => Lifecycle!Forget
          /\ Phase = "preparing" /\ slot.job \notin Over /\ Over' = Over \cup {slot.job}
               => Lifecycle!TakeBack
<1>1. /\ Over = {d \in Deliveries : Said(d)} /\ Over' = {d \in Deliveries : Said(d)}'
      /\ Part = (IF slot.text = "tail" THEN 2 ELSE 1)
      /\ Part' = (IF slot.text = "tail" THEN 2 ELSE 1)'
      /\ Part' \in {1, 2}
  BY DEF Over, Part
<1>2. UNCHANGED slot => UNCHANGED <<Phase, slot.job, Part>>
  BY Zenon DEF Phase, Part
<1>3. ASSUME NEW d \in Deliveries, Phase = "none", d \notin Over, Over' = Over, slot'.job = d
      PROVE  /\ Phase' = "preparing" /\ Part' = 1 => Lifecycle!Start(d)
             /\ Phase' = "ready" => Lifecycle!KeepFollowup(d)
  BY <1>1, <1>3 DEF Lifecycle!Start, Lifecycle!KeepFollowup
<1>4. ASSUME NEW d \in Deliveries, Over' = Over \cup {d}, UNCHANGED slot
      PROVE  Lifecycle!Close(d)
  BY <1>1, <1>2, <1>4 DEF Lifecycle!Close
<1>5. ASSUME slot'.job = slot.job, Over' = Over
      PROVE  /\ Phase = "preparing" /\ Phase' \in {"ready", "failed"} /\ Part' = Part
                  => Lifecycle!Settle
             /\ Phase = "ready" /\ Phase' = "told" /\ Part' = Part => Lifecycle!Tell
             /\ Phase = "told" /\ Part = 1 /\ Phase' = "ready" /\ Part' = 2
                  => Lifecycle!NextPart
  BY <1>1, <1>5 DEF Lifecycle!Settle, Lifecycle!Tell, Lifecycle!NextPart
<1>6. ASSUME Phase' = "none", slot'.job = NoJob, Part' = 1
      PROVE  /\ Phase \in {"told", "failed"} /\ Over' = Over => Lifecycle!Forget
             /\ Phase = "preparing" /\ slot.job \notin Over /\ Over' = Over \cup {slot.job}
                  => Lifecycle!TakeBack
  BY <1>1, <1>6 DEF Lifecycle!Forget, Lifecycle!TakeBack
<1> QED
  BY <1>3, <1>4, <1>5, <1>6

\* A step that leaves the record stutters, or answers call d.
LEMMA SlotKept ==
  ASSUME UNCHANGED slot, NEW d \in Deliveries, pc[d] # "done",
         \A e \in Deliveries : e # d => pc'[e] = pc[e]
  PROVE  [Lifecycle!Next]_Lifecycle!vars
<1>1. CASE pc'[d] = "done"
  <2>1. Over' = Over \cup {d}
    BY <1>1 DEF Over, Said
  <2> QED
    BY <2>1, LifecycleSteps DEF Lifecycle!Next
<1>2. CASE pc'[d] # "done"
  <2>1. {e \in Deliveries : Said(e)}' = {e \in Deliveries : Said(e)}
    BY <1>2 DEF Said
  <2>2. UNCHANGED Phase
    BY Zenon DEF Phase
  <2> QED
    BY <2>1, <2>2 DEF Lifecycle!vars
<1> QED
  BY <1>1, <1>2

\* So does one that leaves all calls where they are.
LEMMA SlotAndCallsKept ==
  ASSUME UNCHANGED slot, \A e \in Deliveries : pc'[e] = pc[e]
  PROVE  UNCHANGED Lifecycle!vars
<1>1. {e \in Deliveries : Said(e)}' = {e \in Deliveries : Said(e)}
  BY DEF Said
<1>2. UNCHANGED Phase
  BY Zenon DEF Phase
<1> QED
  BY <1>1, <1>2 DEF Lifecycle!vars

\* Each SET or DEL of a call is the step of ReplyLifecycle it is for.
LEMMA CommitRefines ==
  ASSUME AllInv, NEW d \in Deliveries, Commit(d), slot' \in Pending
  PROVE  Lifecycle!Next
<1>1. /\ slot \in Pending /\ seen[d] \in Pending /\ d \in Processes /\ pc[d] = "commit"
      /\ pc'[d] = call[d].next /\ \A e \in Deliveries : e # d => pc'[e] = pc[e]
      /\ UNCHANGED resp /\ FitToBeAt(d, call[d].next) /\ Shaped(seen[d])
      /\ Writing(d, slot', call[d].next)
  <2>1. d \in Processes /\ pc \in [Processes -> HandlerLabels \cup WorkerLabels]
    BY DEF AllInv, StreamInv, TypeOK, ControlTypeOK, Processes
  <2> QED
    BY <2>1, CallWritesInTurn
       DEF Commit, Goto, AllInv, StreamInv, TypeOK, RedisTypeOK, LocalTypeOK, SpeechInv,
           Heading, Processes
<1>2. d \notin Over
  BY <1>1 DEF Over, Said
<1>3. call[d].next # "done" => Over' = Over
  BY <1>1 DEF Over, Said
<1>4. call[d].next = "done" => Over' = Over \cup {d}
  BY <1>1 DEF Over, Said
\* clear_pending
<1>5. CASE slot' = NoPending /\ call[d].next = AfterClear(d) /\ Clearing(d)
  <2>1. Phase' = "none" /\ slot'.job = NoJob /\ Part' = 1
    BY <1>5, PhasesNext DEF NoPending, PendingRecord, Part
  <2>2. CASE resp[d] = Unavailable
    <3>1. call[d].next = "done"
      <4>1. Unavailable # Unsaid
        BY DEF Unavailable, Unsaid, Say
      <4> QED
        BY <1>5, <2>2, <4>1, Zenon DEF AfterClear
    <3>2. slot = Processing(d) /\ slot.status = "processing" /\ slot.job = d
      BY <1>5, <2>2 DEF Clearing, Processing, PendingRecord
    <3> QED
      BY <1>1, <1>2, <1>4, <2>1, <3>1, <3>2, Phases, LifecycleSteps DEF Lifecycle!Next
  <2>3. CASE resp[d] # Unavailable
    <3>1. call[d].next # "done"
      BY <1>5, <2>3, AfterClearType
    <3>2. slot.status \in {"failed", "delivered"}
      BY <1>5, <2>3 DEF Clearing
    <3> QED
      BY <1>1, <1>3, <2>1, <3>1, <3>2, Phases, LifecycleSteps DEF Lifecycle!Next
  <2> QED
    BY <2>2, <2>3
\* mark_delivered, of what is told or of an offer
<1>6. CASE slot' = Delivered(slot) /\ slot.status = "ready" /\ call[d].next # "done"
  <2>1. slot'.status = "delivered" /\ slot'.job = slot.job /\ slot'.text = slot.text
    BY <1>1, <1>6 DEF Delivered, Pending
  <2>2. Part' = Part
    BY <2>1 DEF Part
  <2> QED
    BY <1>1, <1>3, <1>6, <2>1, <2>2, Phases, PhasesNext, LifecycleSteps
       DEF Lifecycle!Next
\* mark_ready of the tail
<1>7. CASE /\ slot' = ReadyTail(seen[d].job) /\ call[d].next = "save"
           /\ Advancing(d) /\ seen[d].hasTail
  <2>1. slot.status = "delivered" /\ slot.job = seen[d].job /\ slot.text = "head"
    BY <1>1, <1>7 DEF Advancing, Delivered, Pending, Shaped
  <2>2. slot'.status = "ready" /\ slot'.job = slot.job /\ slot'.text = "tail"
    BY <1>7, <2>1 DEF ReadyTail, PendingRecord
  <2>3. Part = 1 /\ Part' = 2
    BY <2>1, <2>2 DEF Part
  <2> QED
    BY <1>1, <1>3, <1>7, <2>1, <2>2, <2>3, Phases, PhasesNext, LifecycleSteps
       DEF Lifecycle!Next
\* mark_ready of what a fast answer keeps
<1>8. CASE /\ call[d].next = IF slot'.mode = "deferred_offer" THEN "offer" ELSE "save"
           /\ Keeping(d, slot')
  <2>1. slot'.status = "ready" /\ slot'.job = d
    BY <1>8 DEF Keeping, ImmediateFollowup, ReadyTail, ReadyReply, PendingRecord
  <2>2. slot.status = "absent"
    BY <1>8 DEF Keeping, NoPending, PendingRecord
  <2> QED
    BY <1>1, <1>2, <1>3, <1>8, <2>1, <2>2, Phases, PhasesNext, LifecycleSteps
       DEF Lifecycle!Next
<1> QED
  BY <1>1, <1>5, <1>6, <1>7, <1>8, AfterTellingType DEF Writing, Delivering, Offering

\* SET NX starts a reply.
LEMMA DeferRefines ==
  ASSUME AllInv, NEW d \in Deliveries, Defer(d), slot' # slot, slot' \in Pending
  PROVE  Lifecycle!Next
<1>1. /\ slot = NoPending /\ slot' = Processing(d) /\ pc[d] = "defer"
      /\ pc' = [pc EXCEPT ![d] = "enqueue"] /\ slot \in Pending
  BY DEF Defer, Goto, AllInv, StreamInv, TypeOK, RedisTypeOK
<1>2. d \notin Over /\ Over' = Over
  BY <1>1 DEF Over, Said, AllInv, StreamInv, TypeOK, ControlTypeOK, Processes
<1>3. /\ slot.status = "absent" /\ slot'.status = "processing" /\ slot'.job = d
      /\ slot'.text = "unset"
  BY <1>1 DEF NoPending, Processing, PendingRecord
<1>4. Part' = 1
  BY <1>3 DEF Part
<1> QED
  BY <1>1, <1>2, <1>3, <1>4, Phases, PhasesNext, LifecycleSteps DEF Lifecycle!Next

\* The SET of a worker settles the reply being prepared.
LEMMA WorkerRefines ==
  ASSUME AllInv, NEW w \in Workers, Commit(w), slot' \in Pending
  PROVE  Lifecycle!Next
<1>1. /\ slot = Processing(Job(w)) /\ slot \in Pending
      /\ \/ slot' = FailedReply(Job(w))
         \/ \E r \in Replies : slot' = ReadyReply(Job(w), r)
  BY WorkerWrites DEF AllInv, StreamInv, TypeOK, RedisTypeOK
<1>2. /\ slot.status = "processing" /\ slot'.status \in {"ready", "failed"}
      /\ slot'.job = slot.job /\ slot.text # "tail" /\ slot'.text # "tail"
  BY <1>1 DEF Processing, FailedReply, ReadyReply, PendingRecord, Replies
<1>3. Part' = Part
  BY <1>2 DEF Part
<1>4. Over' = Over
  BY WorkersAssumption
     DEF Commit, Goto, Over, Said, AllInv, StreamInv, TypeOK, ControlTypeOK, Processes
<1> QED
  BY <1>1, <1>2, <1>3, <1>4, Phases, PhasesNext, LifecycleSteps DEF Lifecycle!Next

LEMMA InitRefines == Init => Lifecycle!Init
<1> SUFFICES ASSUME Init PROVE Lifecycle!Init
  OBVIOUS
<1>1. slot = NoPending /\ slot \in Pending
  BY RecordTypes DEF Init
<1>2. Phase = "none" /\ slot.job = NoJob /\ slot.text = "unset"
  BY <1>1, Phases DEF NoPending, PendingRecord
<1>3. {d \in Deliveries : Said(d)} = {}
  BY DEF Init, Said, Processes
<1> QED
  BY <1>2, <1>3 DEF Lifecycle!Init

\* Every step is a step of ReplyLifecycle, or a stutter.
LEMMA StepRefines ==
  ASSUME InTurn, AllInv, [Next]_vars, slot' \in Pending
  PROVE  [Lifecycle!Next]_Lifecycle!vars
<1>1. CASE slot' # slot
  <2>1. CASE \E p \in Processes : Commit(p)
    BY <2>1, CommitRefines, WorkerRefines DEF Processes
  <2>2. CASE \E d \in Deliveries : Defer(d)
    BY <1>1, <2>2, DeferRefines
  <2> QED
    BY <1>1, <2>1, <2>2, SlotWriters
<1>2. CASE slot' = slot
  <2>1. Typed /\ \A d \in Deliveries : d \in Processes
    BY DEF AllInv, StreamInv, Typed, Processes
  <2>2. ASSUME NEW d \in Deliveries,
               Receive(d) \/ HandlerStep(d) \/ Abort(d) \/ EnqueueFails(d)
        PROVE  pc[d] # "done" /\ \A e \in Deliveries : e # d => pc'[e] = pc[e]
    <3>1. pc[d] # "done"
      BY <2>2 DEF Receive, HandlerStep, Load, Clear, Deliver, Advance, FastReply,
         FastPathFails, Keep, Offer, Defer, Recheck, Enqueue, Commit, Save, Abort,
         EnqueueFails, Busy
    <3>2. PICK label : pc' = [pc EXCEPT ![d] = label]
      BY <2>2 DEF Receive, HandlerStep, Load, Clear, Deliver, Advance, FastReply,
         FastPathFails, Keep, Offer, Defer, Recheck, Enqueue, Commit, Save, Abort,
         EnqueueFails, ReadThenWrite, Goto
    <3> QED
      BY <2>1, <3>1, <3>2 DEF Typed, TypeOK, ControlTypeOK
  <2>3. ASSUME NEW w \in Workers, WorkerStep(w) \/ WorkerDrop(w) \/ WorkerError(w)
        PROVE  UNCHANGED Lifecycle!vars
    BY <1>2, <2>1, <2>3, WorkerAside, SlotAndCallsKept
  <2>4. CASE UNCHANGED vars
    BY <1>2, <2>4, SlotAndCallsKept DEF vars
  <2>5. ~Expire
    BY BoundsAssumption, <2>1, SMT DEF Expire, InTurn, Typed, TypeOK, LocalTypeOK
  <2> QED
    BY <1>2, <2>2, <2>3, <2>4, <2>5, SlotKept DEF Next
<1> QED
  BY <1>1, <1>2

\* The pending reply goes through the life ReplyLifecycle describes, whatever
\* the calls and workers of the conversation do (stores.py:95-224).
THEOREM LifecycleCorrect == InTurn => (Spec => ImplementsLifecycle)
<1>1. CASE InTurn
  <2>1. AllInv /\ AllInv' /\ [Next]_vars => [Lifecycle!Next]_Lifecycle!vars
    BY <1>1, StepRefines DEF AllInv, StreamInv, TypeOK, RedisTypeOK
  <2> QED
    BY <1>1, <2>1, InitRefines, TurnCorrect, PTL
       DEF Spec, ImplementsLifecycle, Lifecycle!Spec
<1> QED
  BY <1>1

=============================================================================

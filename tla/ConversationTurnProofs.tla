------------------------ MODULE ConversationTurnProofs ------------------------
(***************************************************************************)
(* Proofs about Conversation when its calls are served one after another   *)
(* and entries are not redelivered before their time, for every number of  *)
(* calls and workers: the steps of calls and workers on the record fit     *)
(* together (TurnInv), with at most one failure and no expiry of the key.  *)
(***************************************************************************)
EXTENDS ConversationSpeechProofs

\* Workers still run beside the calls and each other.  After a second failure
\* a redelivered job can fail over its own answer, and once the key expires a
\* late worker can write over the next one: TLC finds AckedJobIsSettled,
\* PromiseIsQueued, ReadyLeavesTold and the refinement broken by either.
OnlyFailures == Hazards \subseteq {"failure"}
InTurn == OnlyFailures /\ MaxFaults <= 1 /\ MaxExpiries = 0

Working(w) == pc[w] \in {"generate", "publish", "fail", "commit"}

-----------------------------------------------------------------------------
(* What a step leaves alone.                                               *)

\* A call that has not begun, or has ended, asks nothing of the record.
LEMMA RestInTurn ==
  ASSUME NEW d \in Deliveries, ~Busy(d)'
  PROVE  CallInTurn(d)'
BY DEF CallInTurn, Busy

\* A worker's entry is in the stream, and its job is one that was queued.
LEMMA HeldJob ==
  ASSUME Typed, NEW w \in Workers, pc[w] # "idle"
  PROVE  /\ held[w] \in 1..cursor /\ held[w] \in 1..Len(log) /\ Job(w) = log[held[w]]
         /\ Job(w) \in Queued /\ Job(w) \in Deliveries /\ Job(w) \in Jobs
<1>1. held[w] \in 1..cursor /\ held[w] \in 1..Len(log)
  BY SMT DEF Typed, TypeOK, RedisTypeOK, HeldEntryIsGiven
<1> QED
  BY <1>1 DEF Job, Queued, Jobs, Typed, TypeOK, RedisTypeOK

\* Two workers with the same job are one.
LEMMA OneWorker ==
  ASSUME Typed, StreamInTurn, NEW v \in Workers, NEW w \in Workers,
         pc[v] # "idle", pc[w] # "idle", Processing(Job(v)) = Processing(Job(w))
  PROVE  v = w
<1>1. Job(v) = Job(w)
  BY HeldJob, ProcessingNames
<1> QED
  BY <1>1, HeldJob DEF StreamInTurn

\* While the record is no queued job's, a call may write it as it likes.
LEMMA FreeWrite ==
  ASSUME Typed, StreamInTurn, \A w \in Workers : WorkerInTurn(w),
         \A j \in Queued : slot # Processing(j),
         UNCHANGED <<log, cursor, pel, held, settled, faults, expiries>>,
         \A w \in Workers : pc'[w] = pc[w] /\ call'[w] = call[w]
  PROVE  StreamInTurn' /\ \A w \in Workers : WorkerInTurn(w)'
<1>1. Queued' = Queued
  BY DEF Queued
<1>2. StreamInTurn'
  <2>1. expiries = 0 => \A i \in 1..Len(log) : ~(i > cursor)
    BY DEF StreamInTurn, Queued
  <2> QED
    BY <1>1, <2>1 DEF StreamInTurn
<1>3. ASSUME NEW w \in Workers
      PROVE  WorkerInTurn(w)'
  <2>1. ~Working(w) /\ ~(pc[w] = "check" /\ faults = 0 /\ expiries = 0)
    BY HeldJob DEF WorkerInTurn, Working
  <2> QED
    BY <2>1 DEF WorkerInTurn, Working
<1> QED
  BY <1>2, <1>3

\* What is kept for workers and the stream when a call leaves the record.
LEMMA KeptForWorkers ==
  ASSUME Typed, StreamInTurn, \A w \in Workers : WorkerInTurn(w),
         UNCHANGED <<slot, log, cursor, pel, held, settled, expiries>>,
         faults' = faults \/ faults' # 0,
         \A w \in Workers : pc'[w] = pc[w] /\ call'[w] = call[w]
  PROVE  StreamInTurn' /\ \A w \in Workers : WorkerInTurn(w)'
<1>1. Queued' = Queued
  BY DEF Queued
<1>2. StreamInTurn'
  BY <1>1 DEF StreamInTurn
<1>3. ASSUME NEW w \in Workers
      PROVE  WorkerInTurn(w)'
  <2>1. Job(w)' = Job(w)
    BY DEF Job
  <2> QED
    BY <2>1 DEF WorkerInTurn
<1> QED
  BY <1>2, <1>3

\* What is kept for a call when neither it nor the record and the stream
\* change.
LEMMA KeptForCall ==
  ASSUME NEW d \in Deliveries, CallInTurn(d),
         pc'[d] = pc[d], call'[d] = call[d], seen'[d] = seen[d], resp'[d] = resp[d],
         kind' = kind, slot' = slot, Queued' = Queued
  PROVE  CallInTurn(d)'
<1>1. AfterClear(d)' = AfterClear(d)
  BY Zenon DEF AfterClear
<1>2. /\ Clearing(d)' = Clearing(d) /\ Delivering(d)' = Delivering(d)
      /\ Advancing(d)' = Advancing(d) /\ Offering(d)' = Offering(d)
      /\ Keeping(d, call[d].write)' = Keeping(d, call[d].write)
  BY DEF Clearing, Delivering, Advancing, Offering, Keeping
<1>3. Writing(d, call[d].write, call[d].next)' <=> Writing(d, call[d].write, call[d].next)
  BY <1>1, <1>2 DEF Writing
<1>4. ToldAway(slot, resp[d])' = ToldAway(slot, resp[d])
  BY DEF ToldAway
<1> QED
  BY <1>2, <1>3, <1>4 DEF CallInTurn

\* While a worker's job is PROCESSING no call depends on the record.
LEMMA CallsAside ==
  ASSUME Typed, NEW d \in Deliveries, CallInTurn(d),
         NEW j \in Queued, slot = Processing(j),
         pc'[d] = pc[d], resp'[d] = resp[d]
  PROVE  CallInTurn(d)'
<1>1. /\ slot.status = "processing" /\ slot # NoPending /\ j \in Jobs
      /\ \A p \in Pending : slot # Delivered(p)
      /\ d \notin Queued => slot # Processing(d)
      /\ \A i : slot # ReadyTail(i)
  BY ProcessingNames
     DEF Processing, NoPending, Delivered, Pending, ReadyTail, PendingRecord, Queued, Jobs,
         Typed, TypeOK, RedisTypeOK
<1>2. /\ ~Clearing(d) /\ ~Delivering(d) /\ ~Advancing(d) /\ ~Offering(d)
      /\ ~Keeping(d, call[d].write)
  BY <1>1 DEF Clearing, Delivering, Advancing, Offering, Keeping, Typed, TypeOK, LocalTypeOK
<1>3. ~Writing(d, call[d].write, call[d].next)
  BY <1>2 DEF Writing
<1>4. ~ToldAway(slot, resp[d])
  BY <1>1 DEF ToldAway, AcceptsOffer
<1>5. pc[d] \notin {"recheck", "ask", "defer", "clear", "deliver", "advance", "keep",
                    "offer", "enqueue", "commit"}
      /\ (pc[d] = "save" => resp[d].say # "answer")
  BY <1>1, <1>2, <1>3, <1>4 DEF CallInTurn
<1> QED
  BY <1>5 DEF CallInTurn

\* Who is promised an answer stays among those who have queued a question.
LEMMA PromisesKept ==
  ASSUME PromisesInTurn, Queued \subseteq Queued',
         \A d \in Deliveries : \/ resp'[d] = resp[d] \/ resp'[d] # Promise
                               \/ resp'[d] = idem[KeyOf[d]] \/ d \in Queued',
         \A k \in Deliveries : \/ idem'[k] = idem[k]
                               \/ \E d \in Deliveries : KeyOf[d] = k /\ idem'[k] = resp[d]
  PROVE  PromisesInTurn'
BY KeyOfAssumption DEF PromisesInTurn

-----------------------------------------------------------------------------
(* The steps of a call.                                                    *)

\* Call d is served and takes a step that leaves the other processes alone.
CallAlone(d) ==
  /\ \A e \in Deliveries : e # d => ~Busy(e)
  /\ \A q \in Processes : q # d => pc'[q] = pc[q] /\ call'[q] = call[q]
  /\ \A e \in Deliveries : e # d => resp'[e] = resp[e]
  /\ UNCHANGED <<cursor, pel, held, settled, kind>>

\* What call d now asks of the record is all there is to check when the
\* stream and the promises are right.
LEMMA CallTurns ==
  ASSUME NEW d \in Deliveries, CallAlone(d), CallInTurn(d)',
         StreamInTurn', \A w \in Workers : WorkerInTurn(w)', PromisesInTurn'
  PROVE  TurnInv'
<1>1. \A e \in Deliveries : e # d => ~Busy(e)'
  BY DEF CallAlone, Busy, Processes
<1> QED
  BY <1>1, RestInTurn DEF TurnInv

\* A step that leaves the record and the stream.
LEMMA CallLeavesRecord ==
  ASSUME Typed, TurnInv, NEW d \in Deliveries, CallAlone(d), CallInTurn(d)',
         UNCHANGED <<slot, log, expiries>>, faults' = faults \/ faults' # 0,
         \/ resp'[d] = resp[d] \/ resp'[d] # Promise \/ resp'[d] = idem[KeyOf[d]],
         \A k \in Deliveries : idem'[k] = idem[k] \/ (k = KeyOf[d] /\ idem'[k] = resp[d])
  PROVE  TurnInv'
<1>1. \A w \in Workers : pc'[w] = pc[w] /\ call'[w] = call[w]
  BY WorkersAssumption DEF CallAlone, Processes
<1>2. StreamInTurn' /\ \A w \in Workers : WorkerInTurn(w)'
  BY <1>1, KeptForWorkers DEF TurnInv, CallAlone
<1>3. Queued' = Queued
  BY DEF Queued
<1>4. PromisesInTurn'
  BY <1>3, PromisesKept DEF TurnInv, CallAlone
<1> QED
  BY <1>2, <1>4, CallTurns

\* A step that writes the record, which is no queued job's.
LEMMA CallWrites ==
  ASSUME Typed, TurnInv, NEW d \in Deliveries, CallAlone(d), CallInTurn(d)',
         UNCHANGED <<log, resp, idem, faults, expiries>>, \A j \in Queued : slot # Processing(j)
  PROVE  TurnInv'
<1>1. \A w \in Workers : pc'[w] = pc[w] /\ call'[w] = call[w]
  BY WorkersAssumption DEF CallAlone, Processes
<1>2. StreamInTurn' /\ \A w \in Workers : WorkerInTurn(w)'
  BY <1>1, FreeWrite DEF TurnInv, CallAlone
<1>3. Queued' = Queued
  BY DEF Queued
<1>4. PromisesInTurn'
  BY <1>3, PromisesKept DEF TurnInv
<1> QED
  BY <1>2, <1>4, CallTurns

\* The read of a store call, whose guard holds.
LEMMA CallReads ==
  ASSUME Typed, TurnInv, NEW d \in Deliveries, \A e \in Deliveries : e # d => ~Busy(e),
         NEW STATE permitted, NEW STATE payload, NEW STATE next, NEW STATE onSkip,
         permitted, Writing(d, payload, next),
         ReadThenWrite(d, permitted, payload, next, onSkip)
  PROVE  TurnInv'
<1>1. UNCHANGED <<redisVars, seen, resp, held, kind, settled, boundVars>>
  BY DEF ReadThenWrite
<1>2. pc'[d] = "commit" /\ call'[d] = [write |-> payload, next |-> next]
  BY DEF ReadThenWrite, Goto, Typed, TypeOK, ControlTypeOK, CallTypeOK, Processes
<1>3. \A q \in Processes : q # d => pc'[q] = pc[q] /\ call'[q] = call[q]
  BY DEF ReadThenWrite, Goto, Typed, TypeOK, ControlTypeOK, CallTypeOK, Processes
<1>4. Queued' = Queued
  BY <1>1 DEF Queued, redisVars
<1>5. AfterClear(d)' = AfterClear(d)
  BY <1>1, Zenon DEF AfterClear
<1>6. /\ Clearing(d)' = Clearing(d) /\ Delivering(d)' = Delivering(d)
      /\ Advancing(d)' = Advancing(d) /\ Offering(d)' = Offering(d)
  BY <1>1, <1>4 DEF Clearing, Delivering, Advancing, Offering, redisVars
<1>7. Writing(d, call[d].write, call[d].next)'
  BY <1>1, <1>2, <1>5, <1>6 DEF Writing, Keeping, redisVars
<1>8. CallInTurn(d)'
  BY <1>2, <1>7 DEF CallInTurn
<1> QED
  BY <1>1, <1>3, <1>8, CallLeavesRecord DEF CallAlone, redisVars, boundVars

\* The SET or DEL of a call is the one its label promises, and leaves the
\* record as the next label expects it.
LEMMA CommitTurns ==
  ASSUME StreamInv, SpeechInv, CacheInv, TurnInv, NEW d \in Deliveries,
         \A e \in Deliveries : e # d => ~Busy(e), Commit(d)
  PROVE  TurnInv'
<1>1. /\ Typed /\ d \in Processes /\ slot \in Pending /\ seen[d] \in Pending
      /\ FitToBeAt(d, call[d].next) /\ Shaped(seen[d]) /\ Shaped(slot)
  BY DEF StreamInv, Typed, TypeOK, LocalTypeOK, RedisTypeOK, Processes, SpeechInv,
         Heading, Commit
<1>2. /\ slot' = call[d].write /\ pc'[d] = call[d].next
      /\ \A q \in Processes : q # d => pc'[q] = pc[q] /\ call'[q] = call[q]
      /\ UNCHANGED <<idem, log, cursor, pel, seen, resp, held, kind, boundVars, settled>>
  BY <1>1, WorkersAssumption
     DEF Commit, Goto, Typed, TypeOK, ControlTypeOK, CallTypeOK, Processes
<1>3. ASSUME CallInTurn(d)', \A j \in Queued : slot # Processing(j)
      PROVE  TurnInv'
  BY <1>1, <1>2, <1>3, CallWrites DEF CallAlone, boundVars
<1>4. /\ \A j \in Jobs : Processing(j).status = "processing"
      /\ NoPending.status = "absent"
      /\ \A p \in Pending : Delivered(p) = [p EXCEPT !.status = "delivered"]
  BY RecordStatus DEF Delivered
<1>5. Queued \subseteq Jobs
  BY <1>1 DEF Queued, Jobs, Typed, TypeOK, RedisTypeOK
<1>6. pc[d] = "commit" /\ Writing(d, call[d].write, call[d].next)
  BY DEF Commit, TurnInv, CallInTurn
\* clear_pending
<1>7. CASE call[d].write = NoPending /\ call[d].next = AfterClear(d) /\ Clearing(d)
  <2>1. AfterClear(d) \in {"done", "save", "defer", "ask"}
    BY AfterClearType
  <2>2. CallInTurn(d)'
    BY <1>2, <1>7, <2>1 DEF CallInTurn, ToldAway
  <2>3. \A j \in Queued : slot # Processing(j)
    BY <1>4, <1>5, <1>7, ProcessingNames DEF Clearing, Jobs
  <2> QED
    BY <1>3, <2>2, <2>3
\* mark_delivered of what is told
<1>8. CASE /\ call[d].write = Delivered(slot) /\ call[d].next = AfterTelling(seen[d])
           /\ Delivering(d) /\ resp[d] = Tell(seen[d].job, seen[d].text)
  <2>1. /\ slot' = Delivered(seen[d]) /\ seen[d].status = "ready" /\ slot = seen[d]
        /\ slot'.status = "delivered" /\ slot'.job = seen[d].job
        /\ slot'.mode = seen[d].mode
    BY <1>1, <1>2, <1>8 DEF Delivering, Delivered, Pending
  <2>2. CallInTurn(d)'
    <3>1. AfterTelling(seen[d]) \in {"advance", "save", "clear"}
      BY <1>1, AfterTellingType
    <3>2. CASE AfterTelling(seen[d]) = "advance"
      BY <1>2, <1>8, <2>1, <3>2 DEF CallInTurn, Advancing
    <3>3. CASE AfterTelling(seen[d]) = "clear"
      <4>1. resp[d] # Unavailable
        BY <1>8 DEF Tell, Unavailable, Say
      <4> QED
        BY <1>2, <1>8, <2>1, <3>3, <4>1 DEF CallInTurn, Clearing
    <3>4. CASE AfterTelling(seen[d]) = "save"
      <4>1. seen[d].mode = "deferred_offer"
        BY <1>1, <3>4 DEF AfterTelling, Pending
      <4> QED
        BY <1>2, <1>8, <2>1, <3>4, <4>1 DEF CallInTurn, ToldAway, AcceptsOffer
    <3> QED
      BY <3>1, <3>2, <3>3, <3>4
  <2> QED
    BY <1>3, <1>4, <1>5, <2>1, <2>2
\* mark_ready of the tail
<1>9. CASE /\ call[d].write = ReadyTail(seen[d].job) /\ call[d].next = "save"
           /\ Advancing(d) /\ seen[d].hasTail
           /\ resp[d] = Tell(seen[d].job, seen[d].text)
  <2>1. resp[d].job = seen[d].job /\ resp[d].text = "head"
    BY <1>1, <1>9 DEF Tell, Shaped
  <2>2. CallInTurn(d)'
    BY <1>2, <1>9, <2>1 DEF CallInTurn, ToldAway
  <2>3. slot.status = "delivered"
    BY <1>1, <1>9 DEF Advancing, Delivered, Pending
  <2> QED
    BY <1>3, <1>4, <1>5, <2>2, <2>3
\* mark_ready of what a fast answer keeps
<1>10. CASE /\ call[d].next = IF call[d].write.mode = "deferred_offer" THEN "offer" ELSE "save"
            /\ Keeping(d, call[d].write)
  <2>1. PICK r \in Replies :
          /\ r.mode # "none" /\ call[d].write = ImmediateFollowup(d, r)
          /\ resp[d] = Tell(d, r.text)
    BY <1>10 DEF Keeping
  <2>2. CallInTurn(d)'
    <3>1. CASE r.mode = "deferred_offer"
      <4>1. /\ call[d].write.mode = "deferred_offer" /\ call[d].write.status = "ready"
            /\ call[d].write.job = d /\ call[d].write.text = r.text
        BY <2>1, <3>1 DEF ImmediateFollowup, ReadyReply, PendingRecord
      <4> QED
        BY <1>2, <1>10, <2>1, <4>1 DEF CallInTurn, Offering
    <3>2. CASE r.mode = "ready_tail"
      <4>1. /\ call[d].write = ReadyTail(d) /\ call[d].write.mode = "ready_tail"
            /\ resp[d] = Tell(d, "head")
        BY <2>1, <3>2 DEF ImmediateFollowup, ReadyTail, PendingRecord, Replies
      <4>2. resp[d].job = d /\ resp[d].text = "head"
        BY <4>1 DEF Tell
      <4> QED
        BY <1>2, <1>10, <4>1, <4>2 DEF CallInTurn, ToldAway
    <3> QED
      BY <2>1, <3>1, <3>2 DEF Replies
  <2> QED
    BY <1>3, <1>4, <1>5, <1>10, <2>2 DEF Keeping
\* mark_delivered of the offer just kept
<1>11. CASE call[d].write = Delivered(slot) /\ call[d].next = "save" /\ Offering(d)
  <2>1. AcceptsOffer(slot')
    BY <1>1, <1>2, <1>11 DEF Offering, AcceptsOffer, Delivered, Pending
  <2>2. CallInTurn(d)'
    BY <1>2, <1>11, <2>1 DEF CallInTurn, ToldAway
  <2> QED
    BY <1>3, <1>4, <1>5, <1>11, <2>2 DEF Offering
<1> QED
  BY <1>6, <1>7, <1>8, <1>9, <1>10, <1>11 DEF Writing

\* Reading the record, a call finds one of the cases its next step expects.
LEMMA LoadTurns ==
  ASSUME StreamInv, SpeechInv, CacheInv, TurnInv, NEW d \in Deliveries,
         \A e \in Deliveries : e # d => ~Busy(e), Load(d)
  PROVE  TurnInv'
<1> DEFINE decision == Handle(kind[KeyOf[d]], slot)
<1>1. /\ Typed /\ d \in Processes /\ slot \in Pending /\ Shaped(slot)
  BY DEF StreamInv, Typed, TypeOK, RedisTypeOK, Processes, SpeechInv
<1>2. Fits(slot, decision) /\ decision.response # Unavailable
  BY <1>1, HandleFits, HandleType, KeyOfAssumption
     DEF Typed, TypeOK, LocalTypeOK, Decisions
<1> HIDE DEF decision
<1>3. /\ resp'[d] = decision.response /\ pc'[d] = decision.next /\ seen'[d] = slot
      /\ \A q \in Processes : q # d => pc'[q] = pc[q]
      /\ \A e \in Deliveries : e # d => resp'[e] = resp[e]
      /\ UNCHANGED <<redisVars, call, held, kind, settled, boundVars>>
  <2>1. /\ resp' = [resp EXCEPT ![d] = decision.response] /\ Goto(d, decision.next)
        /\ seen' = [seen EXCEPT ![d] = slot]
        /\ UNCHANGED <<redisVars, call, held, kind, settled, boundVars>>
    BY DEF Load, decision, localUnchanged
  <2> QED
    BY <1>1, <2>1 DEF Goto, Typed, TypeOK, ControlTypeOK, LocalTypeOK
<1>4. CallInTurn(d)'
  <2> USE DEF redisVars
  <2>1. CASE decision.next = "ask"
    BY <1>1, <1>2, <1>3, <2>1 DEF Fits, Shaped, CallInTurn
  <2>2. CASE decision.next = "save"
    BY <1>2, <1>3, <2>2 DEF Fits, CallInTurn
  <2>3. CASE decision.next = "clear"
    BY <1>2, <1>3, <2>3 DEF Fits, CallInTurn, Clearing
  <2>4. CASE decision.next = "deliver"
    BY <1>2, <1>3, <2>4 DEF Fits, CallInTurn, Delivering
  <2>5. CASE decision.next = "advance"
    <3>1. slot.status = "delivered" /\ slot = Delivered(slot)
      BY <1>1, <1>2, <2>5 DEF Fits, Delivered, Pending
    <3> QED
      BY <1>3, <2>5, <3>1 DEF CallInTurn, Advancing
  <2> QED
    BY <1>2, <2>1, <2>2, <2>3, <2>4, <2>5 DEF Fits
<1> QED
  BY <1>1, <1>2, <1>3, <1>4, CallLeavesRecord DEF CallAlone, redisVars, boundVars, Fits

\* XADD: the new entry is of the job being prepared, and all others are over.
LEMMA EnqueueTurns ==
  ASSUME Typed, TurnInv, NEW d \in Deliveries,
         \A e \in Deliveries : e # d => ~Busy(e), Enqueue(d)
  PROVE  TurnInv'
<1>1. /\ log' = Append(log, d) /\ resp' = [resp EXCEPT ![d] = Promise]
      /\ Goto(d, "save")
      /\ UNCHANGED <<slot, idem, cursor, pel, seen, call, held, kind, settled, boundVars>>
  BY DEF Enqueue, localUnchanged
<1>2. slot = Processing(d) /\ d \notin Queued /\ d \in Jobs /\ Queued \subseteq Jobs
  BY DEF Enqueue, TurnInv, CallInTurn, Queued, Jobs, Typed, TypeOK, RedisTypeOK
<1>3. \A j \in Queued : slot # Processing(j)
  BY <1>2, ProcessingNames
<1>4. /\ Queued' = Queued \cup {d} /\ Len(log') = Len(log) + 1 /\ Len(log) \in Nat
      /\ \A i \in 1..Len(log) : log'[i] = log[i]
      /\ log'[Len(log) + 1] = d
      /\ \A i \in 1..Len(log') : i \in 1..Len(log) \/ i = Len(log) + 1
  <2>1. log \in Seq(Deliveries)
    BY DEF Typed, TypeOK, RedisTypeOK
  <2>2. Queued' = Queued \cup {d}
    BY <1>1, <2>1, QueuedAppend
  <2> QED
    BY <1>1, <2>1, <2>2, SMT
<1>5. \A i \in 1..Len(log) : log[i] \in Queued
  BY DEF Queued
<1>6. StreamInTurn'
  <2>1. \A i, j \in 1..Len(log') : log'[i] = log'[j] => i = j
    BY <1>2, <1>4, <1>5 DEF TurnInv, StreamInTurn
  <2>2. expiries = 0 => \A i \in 1..Len(log) : ~(i > cursor)
    BY <1>3, <1>5 DEF TurnInv, StreamInTurn
  <2>3. expiries = 0 => \A i \in 1..Len(log') : i > cursor => slot = Processing(log'[i])
    BY <1>2, <1>4, <2>2
  <2>4. expiries = 0 => \A j \in Queued' : slot = Processing(j) \/ j \in settled
    BY <1>2, <1>4 DEF TurnInv, StreamInTurn
  <2>5. \A w \in Workers : pc'[w] = pc[w]
    BY <1>1, WorkersAssumption DEF Goto, Typed, TypeOK, ControlTypeOK, Processes
  <2> QED
    BY <1>1, <2>1, <2>3, <2>4, <2>5 DEF TurnInv, StreamInTurn, boundVars
<1>7. ASSUME NEW w \in Workers
      PROVE  WorkerInTurn(w)'
  <2>1. pc'[w] = pc[w] /\ call'[w] = call[w]
    BY <1>1, WorkersAssumption DEF Goto, Typed, TypeOK, ControlTypeOK, Processes
  <2>2. pc[w] # "idle" => Job(w)' = Job(w)
    BY <1>1, <1>4, HeldJob DEF Job
  <2> QED
    BY <1>1, <2>1, <2>2 DEF TurnInv, WorkerInTurn, boundVars
<1>8. /\ pc'[d] = "save" /\ resp'[d] = Promise /\ Promise.say # "answer"
      /\ \A e \in Deliveries : e # d => resp'[e] = resp[e]
      /\ \A q \in Processes : q # d => pc'[q] = pc[q]
  BY <1>1 DEF Goto, Promise, Say, Typed, TypeOK, ControlTypeOK, LocalTypeOK, Processes
<1>9. CallInTurn(d)'
  BY <1>8 DEF CallInTurn
<1>10. PromisesInTurn'
  BY <1>1, <1>4, <1>8, PromisesKept DEF TurnInv
<1> QED
  BY <1>1, <1>6, <1>7, <1>8, <1>9, <1>10, CallTurns DEF CallAlone

\* Every step of a call fits those of the others.
LEMMA HandlerTurns ==
  ASSUME OnlyFailures, StreamInv, SpeechInv, CacheInv, TurnInv, NEW d \in Deliveries,
         HandlerStep(d) \/ Receive(d) \/ Abort(d) \/ EnqueueFails(d)
  PROVE  TurnInv'
<1> USE DEF localUnchanged, redisVars, boundVars
<1>1. /\ Typed /\ d \in Processes /\ slot \in Pending /\ seen[d] \in Pending
      /\ CallInTurn(d) /\ Shaped(slot) /\ Shaped(seen[d])
      /\ pc[d] # "commit" => FitToBeAt(d, pc[d])
  BY DEF StreamInv, Typed, TypeOK, LocalTypeOK, RedisTypeOK, Processes, SpeechInv,
         Heading, TurnInv
<1>2. \A e \in Deliveries : e # d => ~Busy(e)
  <2>1. CASE Receive(d)
    BY <2>1 DEF Receive, OnlyFailures, HazardKinds
  <2>2. CASE ~Receive(d)
    <3>1. Busy(d)
      BY <2>2 DEF HandlerStep, Load, Clear, Deliver, Advance, FastReply, FastPathFails,
         Keep, Offer, Defer, Recheck, Enqueue, Commit, Save, Abort, EnqueueFails, Busy
    <3> QED
      BY <3>1 DEF CacheInv, OneCall
  <2> QED
    BY <2>1, <2>2
<1>3. /\ \A l : /\ [pc EXCEPT ![d] = l][d] = l
                /\ \A q \in Processes : q # d => [pc EXCEPT ![d] = l][q] = pc[q]
      /\ \A r : /\ [resp EXCEPT ![d] = r][d] = r
                /\ \A e \in Deliveries : e # d => [resp EXCEPT ![d] = r][e] = resp[e]
      /\ \A c : /\ [call EXCEPT ![d] = c][d] = c
                /\ \A q \in Processes : q # d => [call EXCEPT ![d] = c][q] = call[q]
  BY <1>1 DEF Typed, TypeOK, ControlTypeOK, LocalTypeOK, CallTypeOK
<1>4. faults' = faults + 1 => faults' # 0
  BY <1>1, SMT DEF Typed, TypeOK, LocalTypeOK
<1>5. CASE Receive(d)
  <2>1. PICK label \in {"load", "done"} : pc' = [pc EXCEPT ![d] = label]
    BY <1>5 DEF Receive, Goto
  <2>2. /\ UNCHANGED <<redisVars, seen, call, held, kind, settled, boundVars>>
        /\ resp' = [resp EXCEPT ![d] = idem[KeyOf[d]]]
    BY <1>5 DEF Receive
  <2>3. CallInTurn(d)'
    BY <1>3, <2>1 DEF CallInTurn
  <2> QED
    BY <1>1, <1>2, <1>3, <2>1, <2>2, <2>3, CallLeavesRecord DEF CallAlone
<1>6. CASE Load(d)
  BY <1>2, <1>6, LoadTurns
<1>7. CASE Clear(d)
  <2>1. Clearing(d)
    BY <1>1, <1>7 DEF Clear, CallInTurn
  <2>2. Owns(slot, IF resp[d] = Unavailable THEN d ELSE seen[d].job)
    BY <2>1 DEF Clearing, Owns, Processing, PendingRecord
  <2>3. Writing(d, NoPending, AfterClear(d))
    BY <2>1 DEF Writing
  <2> QED
    BY <1>1, <1>2, <1>7, <2>2, <2>3, CallReads DEF Clear
<1>8. CASE Deliver(d)
  <2>1. Delivering(d) /\ resp[d] = Tell(seen[d].job, seen[d].text)
    BY <1>1, <1>8 DEF Deliver, CallInTurn, FitToBeAt
  <2>2. Owns(slot, seen[d].job) /\ Writing(d, Delivered(slot), AfterTelling(seen[d]))
    BY <2>1 DEF Delivering, Owns, Writing
  <2> QED
    BY <1>1, <1>2, <1>8, <2>2, CallReads DEF Deliver
<1>9. CASE Advance(d)
  <2>1. /\ Advancing(d) /\ seen[d].hasTail
        /\ resp[d] = Tell(seen[d].job, seen[d].text)
    BY <1>1, <1>9 DEF Advance, CallInTurn, FitToBeAt
  <2>2. MayMark(slot, seen[d].job)
    BY <1>1, <2>1 DEF Advancing, Delivered, MayMark, Pending
  <2>3. Writing(d, ReadyTail(seen[d].job), "save")
    BY <2>1 DEF Writing
  <2> QED
    BY <1>1, <1>2, <1>9, <2>2, <2>3, CallReads DEF Advance
<1>10. ASSUME NEW reply \in Replies, FastReply(d, reply)
       PROVE  TurnInv'
  <2>1. /\ pc[d] = "ask" /\ resp' = [resp EXCEPT ![d] = Tell(d, reply.text)]
        /\ UNCHANGED <<redisVars, seen, held, kind, settled, boundVars>>
        /\ Tell(d, reply.text) # Promise
    BY <1>10, NoticesPlain DEF FastReply
  <2>2. slot = NoPending
    BY <1>1, <2>1 DEF CallInTurn
  <2>3. \A q \in Processes : q # d => call'[q] = call[q]
    BY <1>1, <1>10 DEF FastReply, Typed, TypeOK, CallTypeOK
  <2>4. CASE reply.mode = "none"
    <3>1. pc' = [pc EXCEPT ![d] = "save"]
      BY <1>10, <2>4 DEF FastReply, Goto
    <3>2. CallInTurn(d)'
      BY <1>3, <2>1, <2>2, <3>1 DEF CallInTurn, ToldAway
    <3> QED
      BY <1>1, <1>2, <1>3, <2>1, <2>3, <3>1, <3>2, CallLeavesRecord DEF CallAlone
  <2>5. CASE reply.mode # "none"
    <3>1. /\ pc' = [pc EXCEPT ![d] = "keep"]
          /\ call'[d].write = ImmediateFollowup(d, reply)
      BY <1>1, <1>10, <2>5 DEF FastReply, Goto, Typed, TypeOK, CallTypeOK
    <3>2. Keeping(d, call[d].write)'
      BY <1>3, <2>1, <2>2, <2>5, <3>1 DEF Keeping
    <3>3. CallInTurn(d)'
      BY <1>3, <3>1, <3>2 DEF CallInTurn
    <3> QED
      BY <1>1, <1>2, <1>3, <2>1, <2>3, <3>1, <3>3, CallLeavesRecord DEF CallAlone
  <2> QED
    BY <2>4, <2>5
<1>11. CASE FastPathFails(d)
  <2>1. /\ slot = NoPending /\ pc' = [pc EXCEPT ![d] = "defer"]
        /\ UNCHANGED <<redisVars, seen, resp, call, held, kind, settled, boundVars>>
    BY <1>1, <1>11 DEF FastPathFails, Goto, CallInTurn
  <2>2. CallInTurn(d)'
    BY <1>3, <2>1 DEF CallInTurn
  <2> QED
    BY <1>1, <1>2, <1>3, <2>1, <2>2, CallLeavesRecord DEF CallAlone
<1>12. CASE Keep(d)
  <2>1. Keeping(d, call[d].write) /\ MayMark(slot, d)
    BY <1>1, <1>12 DEF Keep, CallInTurn, Keeping, MayMark, NoPending, PendingRecord
  <2>2. Writing(d, call[d].write,
                IF call[d].write.mode = "deferred_offer" THEN "offer" ELSE "save")
    BY <2>1 DEF Writing
  <2> QED
    BY <1>1, <1>2, <1>12, <2>1, <2>2, CallReads DEF Keep
<1>13. CASE Offer(d)
  <2>1. Offering(d) /\ Owns(slot, d)
    BY <1>1, <1>13 DEF Offer, CallInTurn, Offering, Owns
  <2>2. Writing(d, Delivered(slot), "save")
    BY <2>1 DEF Writing
  <2> QED
    BY <1>1, <1>2, <1>13, <2>1, <2>2, CallReads DEF Offer
<1>14. CASE Defer(d)
  <2>1. /\ pc[d] = "defer" /\ slot = NoPending /\ slot' = Processing(d)
        /\ pc' = [pc EXCEPT ![d] = "enqueue"]
        /\ UNCHANGED <<idem, log, cursor, pel, seen, resp, call, held, kind, settled, boundVars>>
    BY <1>1, <1>14 DEF Defer, Goto, CallInTurn
  <2>2. d \notin Queued
    <3>1. resp[d] = Unsaid /\ Unsaid # Unavailable
      BY <1>1, <2>1 DEF FitToBeAt, Unsaid, Unavailable, Say
    <3> QED
      BY <2>1, <3>1 DEF StreamInv, StreamedJobIsStarted
  <2>3. Queued' = Queued /\ \A j \in Queued : slot # Processing(j)
    BY <2>1 DEF Queued, NoPending, Processing, PendingRecord
  <2>4. CallInTurn(d)'
    BY <1>3, <2>1, <2>2, <2>3 DEF CallInTurn
  <2> QED
    BY <1>1, <1>2, <1>3, <2>1, <2>3, <2>4, CallWrites DEF CallAlone
<1>15. CASE Recheck(d)
  BY <1>1, <1>15 DEF Recheck, CallInTurn
<1>16. CASE Enqueue(d)
  BY <1>1, <1>2, <1>16, EnqueueTurns
<1>17. CASE Commit(d)
  BY <1>2, <1>17, CommitTurns
<1>18. CASE Save(d)
  <2>1. /\ pc' = [pc EXCEPT ![d] = "done"]
        /\ idem' = [idem EXCEPT ![KeyOf[d]] = resp[d]]
        /\ UNCHANGED <<slot, log, cursor, pel, seen, resp, call, held, kind, settled, boundVars>>
    BY <1>18 DEF Save, Goto
  <2>2. \A k \in Deliveries : idem'[k] = idem[k] \/ (k = KeyOf[d] /\ idem'[k] = resp[d])
    BY <1>1, <2>1 DEF Typed, TypeOK, RedisTypeOK
  <2>3. CallInTurn(d)'
    BY <1>3, <2>1 DEF CallInTurn
  <2> QED
    BY <1>1, <1>2, <1>3, <2>1, <2>2, <2>3, CallLeavesRecord DEF CallAlone
<1>19. CASE Abort(d)
  <2>1. /\ pc' = [pc EXCEPT ![d] = "done"] /\ resp' = [resp EXCEPT ![d] = Unavailable]
        /\ call' = [call EXCEPT ![d] = NoCall] /\ faults' # 0 /\ Unavailable # Promise
        /\ UNCHANGED <<slot, log, cursor, pel, seen, held, kind, settled, expiries>>
    BY <1>4, <1>19 DEF Abort, Fault, Goto, Unavailable, Promise, Say
  <2>2. \A k \in Deliveries : idem'[k] = idem[k] \/ (k = KeyOf[d] /\ idem'[k] = resp[d])
    BY <1>1, <1>19 DEF Abort, Typed, TypeOK, RedisTypeOK
  <2>3. CallInTurn(d)'
    BY <1>3, <2>1 DEF CallInTurn
  <2> QED
    BY <1>1, <1>2, <1>3, <2>1, <2>2, <2>3, CallLeavesRecord DEF CallAlone
<1>20. CASE EnqueueFails(d)
  <2>1. /\ pc' = [pc EXCEPT ![d] = "clear"] /\ resp' = [resp EXCEPT ![d] = Unavailable]
        /\ faults' # 0 /\ Unavailable # Promise /\ pc[d] = "enqueue"
        /\ UNCHANGED <<slot, log, idem, cursor, pel, seen, call, held, kind, settled,
                        expiries>>
    BY <1>4, <1>20 DEF EnqueueFails, Fault, Goto, OnlyFailures, Unavailable, Promise, Say
  <2>2. Clearing(d)'
    <3>1. Queued' = Queued
      BY <2>1 DEF Queued
    <3> QED
      BY <1>1, <1>3, <2>1, <3>1 DEF Clearing, CallInTurn
  <2>3. CallInTurn(d)'
    BY <1>3, <2>1, <2>2 DEF CallInTurn
  <2> QED
    BY <1>1, <1>2, <1>3, <2>1, <2>3, CallLeavesRecord DEF CallAlone
<1> QED
  BY <1>5, <1>6, <1>7, <1>8, <1>9, <1>10, <1>11, <1>12, <1>13, <1>14, <1>15, <1>16,
     <1>17, <1>18, <1>19, <1>20 DEF HandlerStep

-----------------------------------------------------------------------------
(* The steps of a worker.                                                  *)

\* The step of a worker that leaves the record.
LEMMA WorkerLeavesRecord ==
  ASSUME Typed, TurnInv, NEW w \in Workers, WorkerStep(w) \/ WorkerDrop(w) \/ WorkerError(w),
         UNCHANGED slot, faults' = faults \/ faults' # 0,
         \A v \in Workers : v # w => held'[v] = held[v],
         WorkerInTurn(w)', StreamInTurn'
  PROVE  TurnInv'
<1>1. /\ \A q \in Processes : q # w => pc'[q] = pc[q] /\ call'[q] = call[q]
      /\ \A d \in Deliveries : pc'[d] = pc[d] /\ call'[d] = call[d]
      /\ UNCHANGED <<idem, log, seen, resp, kind, expiries>>
  BY WorkerAside
<1>2. Queued' = Queued
  BY <1>1 DEF Queued
<1>3. \A d \in Deliveries : CallInTurn(d)'
  BY <1>1, <1>2, KeptForCall DEF TurnInv
<1>4. ASSUME NEW v \in Workers, v # w
      PROVE  WorkerInTurn(v)'
  <2>1. Job(v)' = Job(v)
    BY <1>1, <1>4 DEF Job
  <2>2. pc'[v] = pc[v] /\ call'[v] = call[v]
    BY <1>1, <1>4 DEF Processes
  <2> QED
    BY <1>1, <2>1, <2>2 DEF TurnInv, WorkerInTurn
<1>5. PromisesInTurn'
  BY <1>1, <1>2, PromisesKept DEF TurnInv
<1> QED
  BY <1>3, <1>4, <1>5 DEF TurnInv

\* A worker that goes on with its entry.
LEMMA WorkerGoesOn ==
  ASSUME Typed, TurnInv, NEW w \in Workers, WorkerStep(w) \/ WorkerError(w),
         UNCHANGED <<slot, cursor, pel, held, settled>>, faults' = faults \/ faults' # 0,
         pc[w] # "idle", pc'[w] # "idle", WorkerInTurn(w)'
  PROVE  TurnInv'
<1>1. /\ \A q \in Processes : q # w => pc'[q] = pc[q]
      /\ UNCHANGED <<log, expiries>>
  BY WorkerAside
<1>2. \A v \in Workers : pc'[v] = "idle" <=> pc[v] = "idle"
  BY <1>1 DEF Processes
<1>3. StreamInTurn'
  BY <1>1, <1>2 DEF TurnInv, StreamInTurn, Queued
<1> QED
  BY <1>3, WorkerLeavesRecord

\* The outcome of a job replaces its PROCESSING record, and no other worker
\* or call is concerned.
LEMMA WorkerCommits ==
  ASSUME Typed, TurnInv, NEW w \in Workers, Commit(w)
  PROVE  TurnInv'
<1>1. /\ \A q \in Processes : q # w => pc'[q] = pc[q] /\ call'[q] = call[q]
      /\ \A d \in Deliveries : pc'[d] = pc[d] /\ call'[d] = call[d]
      /\ UNCHANGED <<idem, log, seen, resp, kind>>
      /\ UNCHANGED <<cursor, pel, held, boundVars>>
      /\ pc[w] = "commit" /\ settled' = settled \cup {Job(w)}
      /\ pc'[w] = call[w].next
  <2>1. WorkerStep(w) /\ w \in Processes
    BY DEF WorkerStep, Processes
  <2>2. /\ \A q \in Processes : q # w => pc'[q] = pc[q] /\ call'[q] = call[q]
        /\ \A d \in Deliveries : pc'[d] = pc[d] /\ call'[d] = call[d]
        /\ UNCHANGED <<idem, log, seen, resp, kind>>
    BY <2>1, WorkerAside
  <2> QED
    BY <2>1, <2>2 DEF Commit, Goto, Typed, TypeOK, ControlTypeOK
<1>2. slot = Processing(Job(w)) /\ call[w].next = "ack"
  BY <1>1 DEF TurnInv, WorkerInTurn
<1>3. Job(w) \in Queued /\ held[w] \in 1..cursor /\ held[w] \in 1..Len(log)
      /\ Job(w) = log[held[w]] /\ Job(w) \in Jobs
  BY <1>1, HeldJob
<1>4. \A d \in Deliveries : CallInTurn(d)'
  BY <1>1, <1>2, <1>3, CallsAside DEF TurnInv
<1>5. ASSUME NEW v \in Workers
      PROVE  WorkerInTurn(v)'
  <2>1. CASE v = w
    BY <1>1, <1>2, <2>1 DEF WorkerInTurn
  <2>2. CASE v # w
    <3>1. pc'[v] = pc[v]
      BY <1>1, <2>2 DEF Processes
    <3>2. ~Working(v) /\ ~(pc[v] = "check" /\ faults = 0 /\ expiries = 0)
      BY <1>1, <1>2, <2>2, OneWorker DEF TurnInv, WorkerInTurn, Working
    <3> QED
      BY <1>1, <3>1, <3>2 DEF WorkerInTurn, Working, boundVars
  <2> QED
    BY <2>1, <2>2
<1>6. StreamInTurn'
  <2>1. expiries = 0 => \A i \in 1..Len(log) : ~(i > cursor)
    <3> SUFFICES ASSUME expiries = 0, NEW i \in 1..Len(log), i > cursor PROVE FALSE
      OBVIOUS
    <3>1. log[i] \in Jobs /\ Processing(log[i]) = Processing(Job(w))
      BY <1>2 DEF TurnInv, StreamInTurn, Jobs, Typed, TypeOK, RedisTypeOK
    <3>2. log[i] = log[held[w]]
      BY <1>3, <3>1, ProcessingNames
    <3>3. i = held[w] /\ cursor \in Nat
      BY <1>3, <3>2 DEF TurnInv, StreamInTurn, Typed, TypeOK, RedisTypeOK
    <3> QED
      BY <1>3, <3>3, SMT
  <2>2. ASSUME expiries = 0, NEW j \in Queued
        PROVE  j \in settled'
    <3>1. j \in Jobs
      BY DEF Queued, Jobs, Typed, TypeOK, RedisTypeOK
    <3> QED
      BY <1>1, <1>2, <1>3, <2>2, <3>1, ProcessingNames DEF TurnInv, StreamInTurn
  <2>3. \A v \in Workers : pc'[v] = "idle" <=> pc[v] = "idle"
    BY <1>1, <1>2 DEF Processes
  <2>4. Queued' = Queued
    BY <1>1 DEF Queued
  <2> QED
    BY <1>1, <2>1, <2>2, <2>3, <2>4 DEF TurnInv, StreamInTurn, boundVars
<1>7. PromisesInTurn'
  <2>1. Queued' = Queued
    BY <1>1 DEF Queued
  <2> QED
    BY <1>1, <2>1, PromisesKept DEF TurnInv
<1> QED
  BY <1>4, <1>5, <1>6, <1>7 DEF TurnInv

\* A worker takes the next entry, or one whose worker has gone.
LEMMA TakeTurns ==
  ASSUME OnlyFailures, Typed, TurnInv, NEW w \in Workers,
         Read(w) \/ \E i \in 1..Len(log) : Reclaim(w, i)
  PROVE  TurnInv'
<1>1. PICK i \in Nat :
        /\ Take(w, i)
        /\ \/ cursor < Len(log) /\ i = cursor + 1 /\ cursor' = cursor + 1
               /\ pel' = pel \cup {i}
           \/ i \in pel /\ UNCHANGED <<cursor, pel>> /\ \A v \in Workers : held[v] # i
  BY SMT DEF Read, Reclaim, OnlyFailures, Typed, TypeOK, RedisTypeOK
<1>2. /\ pc[w] = "idle" /\ pc'[w] = "check" /\ held'[w] = i
      /\ \A v \in Workers : v # w => pc'[v] = pc[v] /\ held'[v] = held[v]
      /\ UNCHANGED <<slot, idem, log, seen, resp, call, kind, settled, boundVars>>
  BY <1>1 DEF Take, Goto, Typed, TypeOK, ControlTypeOK, LocalTypeOK, Processes
<1>3. /\ cursor \in Nat /\ pel \subseteq 1..cursor /\ cursor <= Len(log) /\ Len(log) \in Nat
      /\ \A v \in Workers : pc[v] # "idle" => held[v] \in 1..cursor
  BY SMT DEF Typed, TypeOK, RedisTypeOK, HeldEntryIsGiven
<1>4. WorkerStep(w)
  BY DEF WorkerStep
\* Before anything has gone wrong every entry given is at its worker.
<1>5. faults = 0 /\ expiries = 0 => i = cursor + 1 /\ slot = Processing(log[i])
  <2>1. CASE i \in pel /\ \A v \in Workers : held[v] # i
    BY <2>1 DEF TurnInv, StreamInTurn
  <2>2. CASE cursor < Len(log) /\ i = cursor + 1
    <3>1. i \in 1..Len(log) /\ i > cursor
      BY <1>3, <2>2, SMT
    <3> QED
      BY <2>2, <3>1 DEF TurnInv, StreamInTurn
  <2> QED
    BY <1>1, <2>1, <2>2
<1>6. WorkerInTurn(w)'
  <2>1. Job(w)' = log[i]
    BY <1>2 DEF Job
  <2> QED
    BY <1>2, <1>5, <2>1 DEF WorkerInTurn, boundVars
<1>7. \A v \in Workers : v # w /\ pc[v] # "idle" => held[v] # i
  BY <1>1, <1>3, SMT
<1>8. StreamInTurn'
  <2>1. \A v, u \in Workers :
          pc'[v] # "idle" /\ pc'[u] # "idle" /\ held'[v] = held'[u] => v = u
    <3> SUFFICES ASSUME NEW v \in Workers, NEW u \in Workers, pc'[v] # "idle",
                        pc'[u] # "idle", held'[v] = held'[u], v # u
                 PROVE  FALSE
      OBVIOUS
    <3>1. CASE v = w
      BY <1>2, <1>7, <3>1
    <3>2. CASE u = w
      BY <1>2, <1>7, <3>2
    <3>3. CASE v # w /\ u # w
      BY <1>2, <3>3 DEF TurnInv, StreamInTurn
    <3> QED
      BY <3>1, <3>2, <3>3
  <2>2. faults = 0 => \A k \in pel' : \E v \in Workers : pc'[v] # "idle" /\ held'[v] = k
    <3> SUFFICES ASSUME faults = 0, NEW k \in pel'
                 PROVE  \E v \in Workers : pc'[v] # "idle" /\ held'[v] = k
      OBVIOUS
    <3>1. CASE k = i
      BY <1>2, <3>1
    <3>2. CASE k # i
      <4>1. k \in pel
        BY <1>1, <3>2
      <4>2. PICK v \in Workers : pc[v] # "idle" /\ held[v] = k
        BY <4>1 DEF TurnInv, StreamInTurn
      <4> QED
        BY <1>2, <4>2
    <3> QED
      BY <3>1, <3>2
  <2>3. \A k \in 1..Len(log) : k > cursor' => k > cursor
    BY <1>1, <1>3, SMT
  <2>4. Queued' = Queued
    BY <1>2 DEF Queued
  <2> QED
    BY <1>2, <2>1, <2>2, <2>3, <2>4 DEF TurnInv, StreamInTurn, boundVars
<1> QED
  BY <1>2, <1>4, <1>6, <1>8, WorkerLeavesRecord DEF boundVars

\* A worker that puts its entry down, acknowledged or by dying.
LEMMA PutDownTurns ==
  ASSUME Typed, TurnInv, NEW w \in Workers, Ack(w) \/ WorkerDrop(w)
  PROVE  TurnInv'
<1>1. /\ pc'[w] = "idle" /\ UNCHANGED <<slot, log, cursor, settled, expiries>>
      /\ \A v \in Workers : v # w => pc'[v] = pc[v] /\ held'[v] = held[v]
      /\ \/ pel' = pel \ {held[w]} /\ faults' = faults
         \/ pel' = pel /\ faults' # 0
  <2>1. faults \in Nat
    BY BoundsAssumption, SMT DEF Typed, TypeOK, LocalTypeOK
  <2>2. /\ pc' = [pc EXCEPT ![w] = "idle"] /\ held' = [held EXCEPT ![w] = 0]
        /\ UNCHANGED <<slot, log, cursor, settled, expiries>>
        /\ \/ pel' = pel \ {held[w]} /\ faults' = faults
           \/ pel' = pel /\ faults' = faults + 1
    BY DEF Ack, WorkerDrop, Fault, Goto, redisVars, boundVars
  <2>3. faults + 1 # 0
    BY <2>1, SMT
  <2> QED
    BY <2>2, <2>3 DEF Typed, TypeOK, ControlTypeOK, LocalTypeOK, Processes
<1>2. WorkerStep(w) \/ WorkerDrop(w)
  BY DEF WorkerStep
<1>3. WorkerInTurn(w)'
  BY <1>1 DEF WorkerInTurn
<1>4. StreamInTurn'
  <2>1. \A v, u \in Workers :
          pc'[v] # "idle" /\ pc'[u] # "idle" /\ held'[v] = held'[u] => v = u
    BY <1>1 DEF TurnInv, StreamInTurn
  <2>2. faults' = 0 => \A k \in pel' : \E v \in Workers : pc'[v] # "idle" /\ held'[v] = k
    <3> SUFFICES ASSUME faults' = 0, NEW k \in pel'
                 PROVE  \E v \in Workers : pc'[v] # "idle" /\ held'[v] = k
      OBVIOUS
    <3>1. k \in pel /\ k # held[w] /\ faults = 0
      BY <1>1
    <3>2. PICK v \in Workers : pc[v] # "idle" /\ held[v] = k
      BY <3>1 DEF TurnInv, StreamInTurn
    <3> QED
      BY <1>1, <3>1, <3>2
  <2>3. Queued' = Queued
    BY <1>1 DEF Queued
  <2> QED
    BY <1>1, <2>1, <2>2, <2>3 DEF TurnInv, StreamInTurn
<1> QED
  BY <1>1, <1>2, <1>3, <1>4, WorkerLeavesRecord

\* Every step of a worker fits those of the others, up to the first failure.
LEMMA WorkerTurns ==
  ASSUME OnlyFailures, Typed, TurnInv, faults' = 0 \/ faults' + expiries' < 2,
         NEW w \in Workers,
         WorkerStep(w) \/ WorkerDrop(w) \/ WorkerError(w)
  PROVE  TurnInv'
<1> USE DEF workerMoves, redisVars, boundVars
<1>1. w \in Processes /\ WorkerInTurn(w)
  BY DEF Processes, TurnInv
<1>2. \A l : [pc EXCEPT ![w] = l][w] = l
  BY <1>1 DEF Typed, TypeOK, ControlTypeOK
<1>3. UNCHANGED <<log, held>> => Job(w)' = Job(w)
  BY DEF Job
\* The worker comes to a label that only asks for the job's record.
<1>4. ASSUME NEW label \in {"generate", "fail", "ack"}, WorkerStep(w) \/ WorkerError(w),
             Goto(w, label), pc[w] # "idle",
             UNCHANGED <<slot, log, cursor, pel, held, settled>>,
             faults' = faults \/ faults' # 0,
             label # "ack" => slot = Processing(Job(w))
      PROVE  TurnInv'
  <2>1. pc'[w] = label
    BY <1>2, <1>4 DEF Goto
  <2>2. WorkerInTurn(w)'
    BY <1>3, <1>4, <2>1 DEF WorkerInTurn
  <2> QED
    BY <1>4, <2>1, <2>2, WorkerGoesOn
<1>5. CASE Read(w) \/ \E i \in 1..Len(log) : Reclaim(w, i)
  BY <1>5, TakeTurns
<1>6. CASE Check(w)
  <2>1. WorkerStep(w) /\ pc[w] # "idle"
        /\ UNCHANGED <<slot, log, cursor, pel, held, settled, faults>>
    BY <1>6 DEF Check, WorkerStep
  <2> QED
    BY <1>4, <1>6, <2>1 DEF Check
<1>7. ASSUME NEW reply \in Replies, Generate(w, reply)
      PROVE  TurnInv'
  <2>1. /\ pc[w] = "generate" /\ pc'[w] = "publish" /\ WorkerStep(w)
        /\ call'[w].write = ReadyReply(Job(w), reply)
        /\ UNCHANGED <<slot, log, cursor, pel, held, settled, faults>>
    BY <1>1, <1>2, <1>7 DEF Generate, Goto, WorkerStep, Typed, TypeOK, CallTypeOK
  <2>2. Job(w)' = Job(w) /\ slot = Processing(Job(w))
    BY <1>1, <1>3, <2>1 DEF WorkerInTurn
  <2>3. WorkerInTurn(w)'
    BY <2>1, <2>2 DEF WorkerInTurn
  <2> QED
    BY <2>1, <2>3, WorkerGoesOn
<1>8. CASE GenerateFails(w)
  <2>1. WorkerStep(w) /\ pc[w] = "generate"
        /\ UNCHANGED <<slot, log, cursor, pel, held, settled, faults>>
    BY <1>8 DEF GenerateFails, WorkerStep
  <2> QED
    BY <1>1, <1>4, <1>8, <2>1 DEF GenerateFails, WorkerInTurn
\* The reads of mark_ready and mark_failed.
<1>9. ASSUME NEW STATE payload, pc[w] # "idle", slot = Processing(Job(w)), WorkerStep(w),
             payload = FailedReply(Job(w)) \/ \E r \in Replies : payload = ReadyReply(Job(w), r),
             ReadThenWrite(w, MayMark(slot, Job(w)), payload, "ack", "ack")
      PROVE  TurnInv'
  <2>1. MayMark(slot, Job(w))
    BY <1>9 DEF MayMark, Processing, PendingRecord
  <2>2. /\ pc'[w] = "commit" /\ call'[w] = [write |-> payload, next |-> "ack"]
        /\ UNCHANGED <<slot, log, cursor, pel, held, settled, faults>>
    BY <1>1, <1>9, <2>1
       DEF ReadThenWrite, Goto, Typed, TypeOK, ControlTypeOK, CallTypeOK
  <2>3. WorkerInTurn(w)'
    BY <1>3, <1>9, <2>2 DEF WorkerInTurn
  <2> QED
    BY <1>9, <2>2, <2>3, WorkerGoesOn
<1>10. CASE Publish(w)
  BY <1>1, <1>9, <1>10 DEF Publish, WorkerInTurn, WorkerStep
<1>11. CASE Fail(w)
  BY <1>1, <1>9, <1>11 DEF Fail, WorkerInTurn, WorkerStep
<1>12. CASE Commit(w)
  BY <1>12, WorkerCommits
<1>13. CASE Ack(w) \/ WorkerDrop(w)
  BY <1>13, PutDownTurns
<1>14. CASE WorkerError(w)
  <2>1. /\ Goto(w, "fail") /\ pc[w] # "idle" /\ faults = 0 /\ expiries = 0 /\ faults' # 0
        /\ UNCHANGED <<slot, log, cursor, pel, held, settled>>
    <3>1. faults = 0 /\ expiries = 0
      BY <1>14, BoundsAssumption, SMT DEF WorkerError, Fault, Typed, TypeOK, LocalTypeOK
    <3> QED
      BY <1>14, <3>1, SMT DEF WorkerError, Fault, OnlyFailures
  <2>2. slot = Processing(Job(w))
    BY <1>1, <1>14, <2>1 DEF WorkerError, WorkerInTurn
  <2> QED
    BY <1>4, <1>14, <2>1, <2>2
<1> QED
  BY <1>5, <1>6, <1>7, <1>8, <1>10, <1>11, <1>12, <1>13, <1>14 DEF WorkerStep

-----------------------------------------------------------------------------
(* The invariant.                                                          *)

\* Nobody is at work at first.
LEMMA InitTurn == Init => TurnInv
<1> SUFFICES ASSUME Init PROVE TurnInv
  OBVIOUS
<1>1. /\ \A p \in Processes : pc[p] = "idle"
      /\ \A d \in Deliveries : d \in Processes
      /\ \A w \in Workers : w \in Processes
  BY DEF Init, Processes
<1>2. Len(log) = 0 /\ Queued = {} /\ \A i \in 1..Len(log) : FALSE
  BY SMT DEF Init, Queued
<1>3. \A d \in Deliveries : CallInTurn(d)
  BY <1>1 DEF CallInTurn
<1>4. \A w \in Workers : WorkerInTurn(w)
  BY <1>1 DEF WorkerInTurn
<1>5. StreamInTurn
  BY <1>1, <1>2 DEF Init, StreamInTurn
<1>6. PromisesInTurn
  BY NoticesPlain DEF Init, PromisesInTurn
<1> QED
  BY <1>3, <1>4, <1>5, <1>6 DEF TurnInv

\* A stuttering step changes nothing.
LEMMA StutterTurn ==
  ASSUME TurnInv, UNCHANGED vars
  PROVE  TurnInv'
<1>1. Queued' = Queued
  BY DEF vars, redisVars, Queued
<1>2. \A d \in Deliveries : CallInTurn(d)'
  BY <1>1, KeptForCall DEF TurnInv, vars, redisVars
<1>3. \A w \in Workers : WorkerInTurn(w)'
  BY DEF TurnInv, WorkerInTurn, Job, vars, redisVars, boundVars
<1>4. StreamInTurn' /\ PromisesInTurn'
  BY <1>1 DEF TurnInv, StreamInTurn, PromisesInTurn, vars, redisVars, boundVars
<1> QED
  BY <1>2, <1>3, <1>4 DEF TurnInv

AllInv == StreamInv /\ SpeechInv /\ CacheInv /\ TurnInv

\* Every step, of whatever process, leaves the others what they rely on.
THEOREM StepTurn == InTurn => (AllInv /\ [Next]_vars => TurnInv')
<1> SUFFICES ASSUME InTurn, AllInv, [Next]_vars PROVE TurnInv'
  OBVIOUS
<1>1. Typed
  BY DEF AllInv, StreamInv, Typed
<1>2. ~Expire
  BY <1>1, BoundsAssumption, SMT DEF Expire, InTurn, Typed, TypeOK, LocalTypeOK
<1>3. faults' \in 0..MaxFaults /\ expiries' \in 0..MaxExpiries
  BY StepStream DEF AllInv, StreamInv, TypeOK, LocalTypeOK
<1>4. faults' + expiries' < 2
  <2>1. faults' \in {0, 1} /\ expiries' = 0
    BY <1>3, BoundsAssumption, SMT DEF InTurn
  <2>2. \A n \in {0, 1} : n + 0 < 2
    BY SMT
  <2> QED
    BY <2>1, <2>2, Zenon
<1> QED
  BY <1>1, <1>2, <1>4, HandlerTurns, WorkerTurns, StutterTurn DEF Next, AllInv, InTurn

THEOREM TurnCorrect == InTurn => (Spec => []AllInv)
<1>1. CASE InTurn
  <2>1. "overlap" \notin Hazards
    BY <1>1 DEF InTurn, OnlyFailures
  <2>2. Spec => []CacheInv
    BY <2>1, CacheCorrect
  <2>3. Init => TurnInv
    BY InitTurn
  <2>4. StreamInv /\ SpeechInv /\ CacheInv /\ TurnInv /\ [Next]_vars => TurnInv'
    BY <1>1, StepTurn DEF AllInv
  <2> QED
    BY <2>2, <2>3, <2>4, StreamCorrect, SpeechCorrect, PTL DEF Spec, AllInv
<1> QED
  BY <1>1

=============================================================================

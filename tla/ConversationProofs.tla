------------------------- MODULE ConversationProofs -------------------------
(***************************************************************************)
(* Proofs about Conversation, for every number of webhook calls and        *)
(* workers, every set of hazards and every bound on faults.                *)
(***************************************************************************)
EXTENDS Conversation, TLAPS

USE WorkersAssumption

-----------------------------------------------------------------------------
(* Lemmas about the vocabulary.                                            *)

Jobs == Deliveries \cup {NoJob}

\* The records the store writes are pending records.
LEMMA RecordTypes ==
  /\ NoPending \in Pending
  /\ \A j \in Jobs :
       /\ Processing(j) \in Pending /\ FailedReply(j) \in Pending
       /\ ReadyTail(j) \in Pending
       /\ \A r \in Replies :
            ReadyReply(j, r) \in Pending /\ ImmediateFollowup(j, r) \in Pending
  /\ \A p \in Pending : Delivered(p) \in Pending
BY DEF NoPending, Pending, PendingRecord, Processing, FailedReply, ReadyTail,
       ReadyReply, ImmediateFollowup, Delivered, Replies, Modes, Jobs

\* None of them is PROCESSING, but the one of start_pending.
LEMMA RecordStatus ==
  /\ NoPending.status = "absent"
  /\ \A j \in Jobs :
       /\ Processing(j).status = "processing"
       /\ FailedReply(j).status = "failed"
       /\ ReadyTail(j).status = "ready"
       /\ \A r \in Replies : /\ ReadyReply(j, r).status = "ready"
                             /\ ImmediateFollowup(j, r).status = "ready"
  /\ \A p \in Pending : Delivered(p).status = "delivered"
BY DEF NoPending, Pending, PendingRecord, Processing, FailedReply, ReadyTail,
       ReadyReply, ImmediateFollowup, Delivered

\* Every response the handlers put together is one of Responses.
LEMMA ResponseTypes ==
  /\ \A n \in Notices : Say(n) \in Responses
  /\ Unsaid \in Responses /\ Unavailable \in Responses /\ Promise \in Responses
  /\ \A j \in Deliveries \cup {NoJob}, t \in {"unset", "blank", "head", "tail"} :
       Tell(j, t) \in Responses
BY DEF Say, Unsaid, Unavailable, Promise, Tell, Responses, Notices

\* A decision never is the apology, and leads to one of five steps.
Decisions == [response : Responses \ {Unavailable},
              next : {"save", "clear", "deliver", "advance", "ask"}]

\* What follows a told part is one of three things.
LEMMA AfterTellingType ==
  ASSUME NEW p \in Pending
  PROVE  AfterTelling(p) \in {"advance", "save", "clear"}
BY DEF AfterTelling, Pending, Modes

\* A decision on "continue" is well typed, and no decision is the apology.
LEMMA HandleContinueType ==
  ASSUME NEW p \in Pending
  PROVE  HandleContinue(p) \in Decisions
<1>1. \A n \in Notices \ {"unavailable"} : Say(n) \in Responses \ {Unavailable}
  BY ResponseTypes DEF Say, Unavailable
<1>2. Unsaid \in Responses \ {Unavailable}
  BY <1>1 DEF Unsaid, Notices
<1>3. Tell(p.job, p.text) \in Responses \ {Unavailable}
  BY ResponseTypes DEF Tell, Unavailable, Say, Pending
<1> QED
  BY <1>1, <1>2, <1>3, AfterTellingType
     DEF HandleContinue, Decision, Decisions, Notices, Pending

\* The same of every utterance.
LEMMA HandleType ==
  ASSUME NEW p \in Pending, NEW k \in Kinds
  PROVE  Handle(k, p) \in Decisions
<1>1. \A n \in Notices \ {"unavailable"} : Say(n) \in Responses \ {Unavailable}
  BY ResponseTypes DEF Say, Unavailable
<1>2. Unsaid \in Responses \ {Unavailable}
  BY <1>1 DEF Unsaid, Notices
<1>3. HandleQuestion(p) \in Decisions
  BY <1>1, <1>2 DEF HandleQuestion, Decision, Decisions, Notices, Pending
<1>4. Decision(Say("say_again"), "save") \in Decisions
  BY <1>1 DEF Decision, Decisions, Notices
<1> QED
  BY <1>3, <1>4, HandleContinueType DEF Handle

-----------------------------------------------------------------------------
(* Type correctness.                                                       *)

Typed == TypeOK /\ HeldEntryIsGiven

\* The initial states are well typed, and no worker is at an entry.
THEOREM InitTyped == Init => Typed
BY RecordTypes, ResponseTypes, UtterancesAssumption, BoundsAssumption, SMT
   DEF Init, Typed, TypeOK, RedisTypeOK, ControlTypeOK, CallTypeOK, LocalTypeOK,
       HeldEntryIsGiven, Processes, NoCall, HandlerLabels, WorkerLabels

\* A part of the state that a step leaves alone keeps its type.
LEMMA Frame ==
  /\ RedisTypeOK /\ UNCHANGED redisVars => RedisTypeOK'
  /\ ControlTypeOK /\ UNCHANGED pc => ControlTypeOK'
  /\ CallTypeOK /\ UNCHANGED call => CallTypeOK'
  /\ LocalTypeOK /\ UNCHANGED <<seen, resp, held, kind, settled, boundVars>>
       => LocalTypeOK'
BY DEF RedisTypeOK, ControlTypeOK, CallTypeOK, LocalTypeOK, redisVars, boundVars

\* A process moves to a label of its own kind.
LabelOf(p, label) ==
  /\ p \in Deliveries => label \in HandlerLabels
  /\ p \in Workers => label \in WorkerLabels

\* A process that goes to a label of its kind keeps the control state typed.
LEMMA GotoTyped ==
  ASSUME ControlTypeOK, NEW p \in Processes, NEW STATE label, LabelOf(p, label),
         Goto(p, label)
  PROVE  ControlTypeOK'
BY SMT DEF ControlTypeOK, Processes, LabelOf, Goto

\* So does one that holds a payload and a return label of its kind.
LEMMA CallTyped ==
  ASSUME CallTypeOK, NEW p \in Processes, NEW STATE write, NEW STATE next,
         write \in Pending, LabelOf(p, next),
         call' = [call EXCEPT ![p] = [write |-> write, next |-> next]]
  PROVE  CallTypeOK'
<1>1. next \in HandlerLabels \cup WorkerLabels
  BY DEF LabelOf, Processes
<1>2. call' \in [Processes -> [write: Pending, next: HandlerLabels \cup WorkerLabels]]
  BY <1>1, SMT DEF CallTypeOK
<1>3. \A q \in Processes : call'[q].next = IF q = p THEN next ELSE call[q].next
  BY SMT DEF CallTypeOK
<1> QED
  BY <1>2, <1>3 DEF CallTypeOK, LabelOf, Processes

\* A payload is put together before the store call that writes it.
LEMMA DraftTyped ==
  ASSUME CallTypeOK, NEW p \in Processes, NEW STATE write, write \in Pending,
         call' = [call EXCEPT ![p].write = write]
  PROVE  CallTypeOK'
<1>1. call' = [call EXCEPT ![p] = [write |-> write, next |-> call[p].next]]
  <2>1. call[p] \in [write: Pending, next: HandlerLabels \cup WorkerLabels]
    BY DEF CallTypeOK
  <2>2. [call[p] EXCEPT !.write = write] = [write |-> write, next |-> call[p].next]
    BY <2>1
  <2>3. call' = [call EXCEPT ![p] = [call[p] EXCEPT !.write = write]]
    OBVIOUS
  <2> QED
    BY <2>2, <2>3
<1>2. LabelOf(p, call[p].next)
  BY DEF CallTypeOK, LabelOf
<1> QED
  BY <1>1, <1>2, CallTyped

\* And one that drops its payload.
LEMMA NoCallTyped ==
  ASSUME CallTypeOK, NEW p \in Processes, call' = [call EXCEPT ![p] = NoCall]
  PROVE  CallTypeOK'
BY CallTyped, RecordTypes DEF NoCall, LabelOf, HandlerLabels, WorkerLabels

\* A worker keeps its entry while it is busy, and entries stay given.
LEMMA HeldKept ==
  ASSUME Typed, NEW p \in Processes, pc[p] # "idle" \/ p \in Deliveries,
         NEW STATE label, Goto(p, label), UNCHANGED held, UNCHANGED cursor
  PROVE  HeldEntryIsGiven'
BY SMT DEF Typed, TypeOK, ControlTypeOK, HeldEntryIsGiven, Processes, Goto

\* The read of a store call keeps the types.
LEMMA ReadTyped ==
  ASSUME Typed, NEW p \in Processes, pc[p] # "idle",
         NEW STATE permitted, NEW STATE payload, NEW STATE next, NEW STATE onSkip,
         permitted => payload \in Pending,
         LabelOf(p, next), LabelOf(p, onSkip),
         ReadThenWrite(p, permitted, payload, next, onSkip)
  PROVE  Typed'
<1> USE DEF Typed, TypeOK
<1>1. LabelOf(p, "commit")
  BY DEF LabelOf, HandlerLabels, WorkerLabels
<1>2. CallTypeOK'
  BY CallTyped, NoCallTyped DEF ReadThenWrite
<1>3. ControlTypeOK' /\ HeldEntryIsGiven'
  BY <1>1, GotoTyped, HeldKept DEF ReadThenWrite, redisVars
<1> QED
  BY <1>2, <1>3, Frame DEF ReadThenWrite

\* The SET or DEL of a store call keeps the types.
LEMMA CommitTyped ==
  ASSUME Typed, NEW p \in Processes, Commit(p)
  PROVE  Typed'
<1> USE DEF Typed, TypeOK
<1>1. LabelOf(p, call[p].next)
  BY DEF CallTypeOK, LabelOf
<1>2. ControlTypeOK' /\ CallTypeOK' /\ HeldEntryIsGiven'
  BY <1>1, GotoTyped, NoCallTyped, HeldKept DEF Commit
<1>3. RedisTypeOK'
  BY DEF Commit, RedisTypeOK, CallTypeOK
<1>4. p \in Workers => Job(p) \in Deliveries
  BY SMT DEF Commit, Job, HeldEntryIsGiven, RedisTypeOK
<1>5. LocalTypeOK'
  BY <1>4 DEF Commit, LocalTypeOK, boundVars
<1> QED
  BY <1>2, <1>3, <1>5

\* Every step of a webhook call keeps the types.
LEMMA HandlerTyped ==
  ASSUME Typed, NEW d \in Deliveries, HandlerStep(d) \/ Receive(d)
  PROVE  Typed'
<1> USE DEF Typed, TypeOK
<1>1. d \in Processes
  BY DEF Processes
<1>2. \A label \in HandlerLabels : LabelOf(d, label)
  BY DEF LabelOf
<1>3. CASE Receive(d)
  <2>1. ControlTypeOK' /\ HeldEntryIsGiven'
    BY <1>1, <1>2, <1>3, GotoTyped, HeldKept
       DEF Receive, HandlerLabels, redisVars, localUnchanged
  <2>2. LocalTypeOK'
    BY <1>3, KeyOfAssumption DEF Receive, LocalTypeOK, RedisTypeOK, localUnchanged, boundVars
  <2> QED
    BY <1>3, <2>1, <2>2, Frame, KeyOfAssumption DEF Receive
<1>4. CASE Load(d)
  <2>1. Handle(kind[KeyOf[d]], slot) \in Decisions
    BY HandleType, KeyOfAssumption DEF LocalTypeOK, RedisTypeOK
  <2> DEFINE decision == Handle(kind[KeyOf[d]], slot)
  <2>2. decision.next \in HandlerLabels /\ decision.response \in Responses
    BY <2>1 DEF Decisions, HandlerLabels
  <2>3. ControlTypeOK' /\ HeldEntryIsGiven'
    BY <1>1, <1>2, <1>4, <2>2, GotoTyped, HeldKept
       DEF Load, redisVars, localUnchanged
  <2>4. LocalTypeOK'
    BY <1>4, <2>2 DEF Load, LocalTypeOK, RedisTypeOK, localUnchanged, boundVars
  <2> QED
    BY <1>4, <2>3, <2>4, Frame DEF Load
<1>5. CASE Clear(d)
  <2>1. AfterClear(d) \in HandlerLabels
    BY SMT DEF AfterClear, HandlerLabels
  <2> QED
    BY <1>1, <1>2, <1>5, <2>1, ReadTyped, RecordTypes DEF Clear
<1>6. CASE Deliver(d)
  <2>1. seen[d] \in Pending /\ slot \in Pending
    BY DEF LocalTypeOK, RedisTypeOK
  <2>2. AfterTelling(seen[d]) \in HandlerLabels
    BY <2>1, AfterTellingType DEF HandlerLabels
  <2> QED
    BY <1>1, <1>2, <1>6, <2>1, <2>2, ReadTyped, RecordTypes DEF Deliver
<1>7. CASE Advance(d)
  <2>1. seen[d].job \in Jobs
    BY DEF LocalTypeOK, Jobs, Pending
  <2> QED
    BY <1>1, <1>2, <1>7, <2>1, ReadTyped, RecordTypes DEF Advance, HandlerLabels
<1>8. ASSUME NEW reply \in Replies, FastReply(d, reply)
      PROVE  Typed'
  <2>1. Tell(d, reply.text) \in Responses
    BY ResponseTypes DEF Replies
  <2>2. ImmediateFollowup(d, reply) \in Pending
    BY RecordTypes DEF Jobs
  <2>3. ControlTypeOK' /\ HeldEntryIsGiven'
    BY <1>1, <1>2, <1>8, GotoTyped, HeldKept
       DEF FastReply, HandlerLabels, redisVars, localUnchanged
  <2>4. LocalTypeOK'
    BY <1>8, <2>1 DEF FastReply, LocalTypeOK, localUnchanged, boundVars
  <2>5. CallTypeOK'
    BY <1>1, <1>8, <2>2, DraftTyped, Frame DEF FastReply
  <2> QED
    BY <1>8, <2>3, <2>4, <2>5, Frame DEF FastReply
<1>9. CASE FastPathFails(d)
  BY <1>1, <1>2, <1>9, GotoTyped, HeldKept, Frame
     DEF FastPathFails, HandlerLabels, redisVars, localUnchanged
<1>10. CASE Keep(d)
  <2>1. call[d].write \in Pending
    BY <1>1 DEF CallTypeOK
  <2> QED
    BY <1>1, <1>2, <1>10, <2>1, ReadTyped DEF Keep, HandlerLabels
<1>11. CASE Offer(d)
  BY <1>1, <1>2, <1>11, ReadTyped, RecordTypes DEF Offer, HandlerLabels, RedisTypeOK
<1>12. CASE Defer(d)
  <2>1. ControlTypeOK' /\ HeldEntryIsGiven'
    BY <1>1, <1>2, <1>12, GotoTyped, HeldKept
       DEF Defer, HandlerLabels, localUnchanged
  <2>2. RedisTypeOK'
    BY <1>12, RecordTypes DEF Defer, RedisTypeOK, Jobs
  <2> QED
    BY <1>12, <2>1, <2>2, Frame DEF Defer, localUnchanged
<1>13. CASE Recheck(d)
  <2>1. ControlTypeOK' /\ HeldEntryIsGiven'
    BY <1>1, <1>2, <1>13, GotoTyped, HeldKept
       DEF Recheck, HandlerLabels, redisVars, localUnchanged
  <2>2. LocalTypeOK'
    BY <1>13, ResponseTypes DEF Recheck, LocalTypeOK, localUnchanged, boundVars
  <2> QED
    BY <1>13, <2>1, <2>2, Frame DEF Recheck
<1>14. CASE Enqueue(d)
  <2>1. ControlTypeOK' /\ HeldEntryIsGiven'
    BY <1>1, <1>2, <1>14, GotoTyped, HeldKept
       DEF Enqueue, HandlerLabels, localUnchanged
  <2>2. LocalTypeOK'
    BY <1>14, ResponseTypes DEF Enqueue, LocalTypeOK, localUnchanged, boundVars
  <2>3. RedisTypeOK'
    BY <1>14, SMT DEF Enqueue, RedisTypeOK
  <2> QED
    BY <1>14, <2>1, <2>2, <2>3, Frame DEF Enqueue
<1>15. CASE Commit(d)
  BY <1>1, <1>15, CommitTyped
<1>16. CASE Save(d)
  <2>1. ControlTypeOK' /\ HeldEntryIsGiven'
    BY <1>1, <1>2, <1>16, GotoTyped, HeldKept
       DEF Save, HandlerLabels, localUnchanged
  <2>2. RedisTypeOK'
    BY <1>16 DEF Save, RedisTypeOK, LocalTypeOK
  <2> QED
    BY <1>16, <2>1, <2>2, Frame DEF Save, localUnchanged
<1> QED
  BY <1>3, <1>4, <1>5, <1>6, <1>7, <1>8, <1>9, <1>10, <1>11, <1>12, <1>13,
     <1>14, <1>15, <1>16 DEF HandlerStep

\* Every step of a worker keeps the types.
LEMMA WorkerTyped ==
  ASSUME Typed, NEW w \in Workers, WorkerStep(w)
  PROVE  Typed'
<1> USE DEF Typed, TypeOK
<1>1. w \in Processes
  BY DEF Processes
<1>2. \A label \in WorkerLabels : LabelOf(w, label)
  BY DEF LabelOf
<1>3. pc[w] # "idle" => Job(w) \in Deliveries
  BY SMT DEF Job, HeldEntryIsGiven, RedisTypeOK
<1>4. ASSUME NEW i \in Nat, Take(w, i), cursor' \in Nat, cursor <= cursor', i \in 1..cursor'
      PROVE  ControlTypeOK' /\ LocalTypeOK' /\ CallTypeOK' /\ HeldEntryIsGiven'
  <2>1. ControlTypeOK'
    BY <1>1, <1>2, <1>4, GotoTyped DEF Take, WorkerLabels
  <2>2. LocalTypeOK'
    BY <1>4 DEF Take, LocalTypeOK, boundVars
  <2>3. HeldEntryIsGiven'
    BY <1>4, SMT DEF Take, Goto, HeldEntryIsGiven, ControlTypeOK, LocalTypeOK,
                     RedisTypeOK, Processes
  <2> QED
    BY <1>4, <2>1, <2>2, <2>3, Frame DEF Take
<1>5. CASE Read(w)
  <2>1. cursor + 1 \in 1..Len(log) /\ cursor \in Nat
    BY <1>5, SMT DEF Read, RedisTypeOK
  <2>2. RedisTypeOK'
    BY <1>5, <2>1, SMT DEF Read, Take, RedisTypeOK
  <2> QED
    BY <1>4, <1>5, <2>1, <2>2, SMT DEF Read
<1>6. ASSUME NEW i \in 1..Len(log), Reclaim(w, i)
      PROVE  Typed'
  <2>1. i \in 1..cursor /\ cursor \in Nat
    BY <1>6, SMT DEF Reclaim, RedisTypeOK
  <2>2. RedisTypeOK'
    BY <1>6, Frame DEF Reclaim, Take, redisVars
  <2> QED
    BY <1>4, <1>6, <2>1, <2>2, SMT DEF Reclaim
<1>7. CASE Check(w)
  BY <1>1, <1>2, <1>7, GotoTyped, HeldKept, Frame
     DEF Check, WorkerLabels, workerMoves, redisVars
<1>8. ASSUME NEW reply \in Replies, Generate(w, reply)
      PROVE  Typed'
  <2>1. ReadyReply(Job(w), reply) \in Pending
    BY <1>3, <1>8, RecordTypes DEF Generate, Jobs
  <2>2. CallTypeOK'
    BY <1>1, <1>8, <2>1, DraftTyped DEF Generate
  <2> QED
    BY <1>1, <1>2, <1>8, <2>2, GotoTyped, HeldKept, Frame
       DEF Generate, WorkerLabels, workerMoves, redisVars
<1>9. CASE GenerateFails(w)
  BY <1>1, <1>2, <1>9, GotoTyped, HeldKept, Frame
     DEF GenerateFails, WorkerLabels, workerMoves, redisVars
<1>10. CASE Publish(w)
  <2>1. call[w].write \in Pending
    BY <1>1 DEF CallTypeOK
  <2> QED
    BY <1>1, <1>2, <1>10, <2>1, ReadTyped DEF Publish, WorkerLabels
<1>11. CASE Fail(w)
  BY <1>1, <1>2, <1>3, <1>11, ReadTyped, RecordTypes DEF Fail, WorkerLabels, Jobs
<1>12. CASE Commit(w)
  BY <1>1, <1>12, CommitTyped
<1>13. CASE Ack(w)
  <2>1. ControlTypeOK'
    BY <1>1, <1>2, <1>13, GotoTyped DEF Ack, WorkerLabels
  <2>2. RedisTypeOK'
    BY <1>13 DEF Ack, RedisTypeOK
  <2>3. LocalTypeOK'
    BY <1>13 DEF Ack, LocalTypeOK, boundVars
  <2>4. HeldEntryIsGiven'
    BY <1>1, <1>13 DEF Ack, HeldEntryIsGiven, Goto, ControlTypeOK, LocalTypeOK, Processes
  <2> QED
    BY <1>13, <2>1, <2>2, <2>3, <2>4, Frame DEF Ack
<1> QED
  BY <1>5, <1>6, <1>7, <1>8, <1>9, <1>10, <1>11, <1>12, <1>13 DEF WorkerStep

\* Every failure, and the expiry of the key, keeps the types.
LEMMA FaultTyped ==
  ASSUME Typed,
         \/ \E d \in Deliveries : Abort(d) \/ EnqueueFails(d)
         \/ \E w \in Workers : WorkerDrop(w) \/ WorkerError(w)
         \/ Expire
  PROVE  Typed'
<1> USE DEF Typed, TypeOK
<1>1. \A n \in 0..MaxFaults : n < MaxFaults => n + 1 \in 0..MaxFaults
  BY BoundsAssumption, SMT
<1>2. ASSUME NEW d \in Deliveries, Abort(d)
      PROVE  Typed'
  <2>1. d \in Processes /\ pc[d] # "idle" /\ LabelOf(d, "done")
    BY <1>2 DEF Processes, Abort, Busy, LabelOf, HandlerLabels
  <2>2. ControlTypeOK' /\ CallTypeOK' /\ HeldEntryIsGiven'
    BY <1>2, <2>1, GotoTyped, NoCallTyped, HeldKept DEF Abort
  <2>3. LocalTypeOK'
    BY <1>1, <1>2, ResponseTypes DEF Abort, Fault, LocalTypeOK
  <2>4. RedisTypeOK'
    BY <1>2 DEF Abort, RedisTypeOK, LocalTypeOK
  <2> QED
    BY <2>2, <2>3, <2>4
<1>3. ASSUME NEW d \in Deliveries, EnqueueFails(d)
      PROVE  Typed'
  <2>1. d \in Processes /\ pc[d] # "idle" /\ LabelOf(d, "clear")
    BY <1>3 DEF Processes, EnqueueFails, LabelOf, HandlerLabels
  <2>2. ControlTypeOK' /\ CallTypeOK' /\ HeldEntryIsGiven'
    BY <1>3, <2>1, GotoTyped, Frame, HeldKept DEF EnqueueFails
  <2>3. LocalTypeOK'
    BY <1>1, <1>3, ResponseTypes DEF EnqueueFails, Fault, LocalTypeOK
  <2>4. RedisTypeOK'
    BY <1>3, SMT DEF EnqueueFails, RedisTypeOK
  <2> QED
    BY <2>2, <2>3, <2>4
<1>4. ASSUME NEW w \in Workers, WorkerDrop(w)
      PROVE  Typed'
  <2>1. w \in Processes /\ LabelOf(w, "idle")
    BY DEF Processes, LabelOf, WorkerLabels
  <2>2. ControlTypeOK' /\ CallTypeOK' /\ RedisTypeOK'
    BY <1>4, <2>1, GotoTyped, NoCallTyped, Frame DEF WorkerDrop
  <2>3. LocalTypeOK'
    BY <1>1, <1>4 DEF WorkerDrop, Fault, LocalTypeOK
  <2>4. HeldEntryIsGiven'
    BY <1>4, <2>1 DEF WorkerDrop, HeldEntryIsGiven, Goto, ControlTypeOK, LocalTypeOK,
                      Processes, redisVars
  <2> QED
    BY <2>2, <2>3, <2>4
<1>5. ASSUME NEW w \in Workers, WorkerError(w)
      PROVE  Typed'
  <2>1. w \in Processes /\ pc[w] # "idle" /\ LabelOf(w, "fail")
    BY <1>5 DEF Processes, WorkerError, LabelOf, WorkerLabels
  <2>2. ControlTypeOK' /\ CallTypeOK' /\ HeldEntryIsGiven'
    BY <1>5, <2>1, GotoTyped, NoCallTyped, HeldKept DEF WorkerError
  <2>3. Job(w) \in Deliveries
    BY <2>1, SMT DEF Job, HeldEntryIsGiven, RedisTypeOK
  <2>4. LocalTypeOK'
    BY <1>1, <1>5, <2>3 DEF WorkerError, Fault, LocalTypeOK
  <2>5. RedisTypeOK'
    BY <1>5, <2>1 DEF WorkerError, RedisTypeOK, CallTypeOK
  <2> QED
    BY <2>2, <2>4, <2>5
<1>6. CASE Expire
  <2>1. RedisTypeOK'
    BY <1>6, RecordTypes DEF Expire, RedisTypeOK
  <2>2. LocalTypeOK'
    BY <1>6, BoundsAssumption, SMT DEF Expire, LocalTypeOK
  <2>3. HeldEntryIsGiven'
    BY <1>6 DEF Expire, HeldEntryIsGiven
  <2> QED
    BY <1>6, <2>1, <2>2, <2>3, Frame DEF Expire
<1> QED
  BY <1>2, <1>3, <1>4, <1>5, <1>6

\* A stuttering step keeps the types.
LEMMA StutterTyped == Typed /\ UNCHANGED vars => Typed'
BY Frame DEF Typed, TypeOK, HeldEntryIsGiven, vars, redisVars

\* All together: the types are inductive.
LEMMA StepTyped == Typed /\ [Next]_vars => Typed'
BY HandlerTyped, WorkerTyped, FaultTyped, StutterTyped DEF Next

\* Every variable keeps its type: the labels of the two kinds of process do
\* not mix, and a worker that is not idle is at an entry of the stream
\* (deferred_worker.py:30-69).
THEOREM TypeCorrect == Spec => []TypeOK
BY InitTyped, StepTyped, PTL DEF Spec, Typed

-----------------------------------------------------------------------------
(* The job stream: StreamInv is inductive.                                 *)

\* The part of it that is not typing.
Jobflow ==
  /\ StreamedJobIsStarted /\ FailedCallEnds /\ OnlyStartWritesProcessing
  /\ ReadyToAck /\ NoAckWhileProcessing /\ OrphanOnlyByFailure

\* The invariant is the typing and the flow of jobs.
LEMMA StreamInvParts == StreamInv <=> Typed /\ Jobflow
BY DEF StreamInv, Typed, Jobflow

\* No job exists initially, so nothing about jobs can be wrong.
THEOREM InitStream == Init => StreamInv
<1> SUFFICES ASSUME Init PROVE Jobflow
  BY InitTyped, StreamInvParts
<1>1. Queued = {} /\ Len(log) = 0
  BY SMT DEF Init, Queued
<1>2. \A j \in Deliveries : slot # Processing(j)
  BY RecordStatus DEF Init, Jobs
<1>3. Unsaid # Unavailable
  BY DEF Unsaid, Unavailable, Say
<1> QED
  BY <1>1, <1>2, <1>3, RecordStatus, SMT
     DEF Init, Jobflow, StreamedJobIsStarted, FailedCallEnds, NoCall,
         OnlyStartWritesProcessing, ReadyToAck, NoAckWhileProcessing,
         OrphanOnlyByFailure, Processes

\* A job that enters the stream joins the queued ones.
LEMMA QueuedAppend ==
  ASSUME log \in Seq(Deliveries), NEW d \in Deliveries, log' = Append(log, d)
  PROVE  /\ Queued' = Queued \cup {d}
         /\ Len(log') = Len(log) + 1
         /\ \A i \in 1..Len(log) : log'[i] = log[i]
<1>1. /\ Len(log') = Len(log) + 1 /\ Len(log) \in Nat
      /\ \A i \in 1..Len(log) : log'[i] = log[i]
      /\ log'[Len(log) + 1] = d
  BY SMT
<1> QED
  BY <1>1, SMT DEF Queued

\* What an unchanged record, stream and acknowledgement say stays said.
streamVars == <<slot, log, cursor, pel>>

\* PROCESSING records name their job.
LEMMA ProcessingNames ==
  \A j, k \in Jobs : Processing(j) = Processing(k) => j = k
BY DEF Processing, PendingRecord

\* A step of a webhook call that moves it on and leaves the stream and the
\* record alone, as long as a failed call does not come back to life.
LEMMA HandlerMove ==
  ASSUME Typed, Jobflow, NEW d \in Deliveries, NEW STATE label,
         pc[d] \notin {"enqueue", "done"},
         Goto(d, label), UNCHANGED streamVars, UNCHANGED held,
         \A e \in Deliveries : e # d => resp'[e] = resp[e],
         resp[d] = Unavailable => resp'[d] = Unavailable,
         \A q \in Processes : q # d => call'[q] = call[q],
         call'[d].write.status # "processing",
         d \notin Queued \/ label \in {"save", "done"} \/ resp'[d] = Unavailable,
         resp'[d] = Unavailable =>
           \/ label \in {"clear", "done"}
           \/ label = "commit" /\ call'[d].next = "done"
  PROVE  Jobflow'
<1> USE DEF Jobflow, Goto, streamVars
<1>1. /\ pc'[d] = label
      /\ \A q \in Processes : q # d => pc'[q] = pc[q]
      /\ \A w \in Workers : pc'[w] = pc[w]
  BY DEF Typed, TypeOK, ControlTypeOK, Processes
<1>2. Queued' = Queued
  BY DEF Queued
<1>3. StreamedJobIsStarted'
  BY <1>1, <1>2 DEF StreamedJobIsStarted, Processes, Queued, Typed, TypeOK, RedisTypeOK
<1>4. FailedCallEnds'
  BY <1>1 DEF FailedCallEnds, Processes
<1>5. OnlyStartWritesProcessing'
  BY DEF OnlyStartWritesProcessing
<1>6. ReadyToAck'
  BY <1>1 DEF ReadyToAck, Job
<1>7. NoAckWhileProcessing'
  BY DEF NoAckWhileProcessing, Acked
<1>8. OrphanOnlyByFailure'
  BY <1>1, <1>2 DEF OrphanOnlyByFailure, Processes
<1> QED
  BY <1>3, <1>4, <1>5, <1>6, <1>7, <1>8

\* A step of a worker that does the same.
LEMMA WorkerMove ==
  ASSUME Typed, Jobflow, NEW w \in Workers, NEW STATE label,
         Goto(w, label), UNCHANGED <<slot, log, resp>>,
         cursor' \in Nat, cursor <= cursor',
         \A v \in Workers : v # w => held'[v] = held[v],
         \A q \in Processes : q # w => call'[q] = call[q],
         call'[w].write.status # "processing",
         label = "ack" => held'[w] = held[w] /\ slot # Processing(Job(w)),
         \A i \in 1..Len(log) :
           Acked(i)' => Acked(i) \/ slot # Processing(log[i])
  PROVE  Jobflow'
<1> USE DEF Jobflow, Goto
<1>1. /\ pc'[w] = label
      /\ \A q \in Processes : q # w => pc'[q] = pc[q]
      /\ \A d \in Deliveries : pc'[d] = pc[d] /\ call'[d] = call[d]
  BY DEF Typed, TypeOK, ControlTypeOK, Processes
<1>2. Queued' = Queued
  BY DEF Queued
<1>3. StreamedJobIsStarted'
  BY <1>1, <1>2 DEF StreamedJobIsStarted, Queued, Typed, TypeOK, RedisTypeOK
<1>4. FailedCallEnds'
  BY <1>1 DEF FailedCallEnds
<1>5. OnlyStartWritesProcessing'
  BY DEF OnlyStartWritesProcessing
<1>6. ReadyToAck'
  BY <1>1 DEF ReadyToAck, Job, Processes
<1>7. NoAckWhileProcessing'
  BY DEF NoAckWhileProcessing
<1>8. OrphanOnlyByFailure'
  BY <1>1, <1>2 DEF OrphanOnlyByFailure
<1> QED
  BY <1>3, <1>4, <1>5, <1>6, <1>7, <1>8

\* The SET or DEL of a store call never writes PROCESSING, so afterwards no
\* job's record says so.
LEMMA CommitJobflow ==
  ASSUME Typed, Jobflow, NEW p \in Processes, Commit(p)
  PROVE  Jobflow'
<1> USE DEF Jobflow, Commit, Goto
<1>1. slot'.status # "processing"
  BY DEF OnlyStartWritesProcessing
<1>2. \A j \in Jobs : slot' # Processing(j)
  BY <1>1, RecordStatus
<1>3. /\ pc'[p] = call[p].next
      /\ \A q \in Processes : q # p => pc'[q] = pc[q] /\ call'[q] = call[q]
      /\ call'[p] = NoCall
  BY DEF Typed, TypeOK, ControlTypeOK, CallTypeOK
<1>4. Queued' = Queued /\ Queued \subseteq Deliveries
  BY DEF Queued, Typed, TypeOK, RedisTypeOK
<1>5. \A i \in 1..Len(log) : log[i] \in Deliveries
  BY DEF Typed, TypeOK, RedisTypeOK
<1>6. \A w \in Workers : pc'[w] # "idle" => Job(w)' \in Deliveries
  BY <1>5, CommitTyped, SMT DEF Job, Typed, TypeOK, HeldEntryIsGiven, RedisTypeOK
<1>7. StreamedJobIsStarted' /\ FailedCallEnds'
  BY <1>3, <1>4 DEF StreamedJobIsStarted, FailedCallEnds, Processes
<1>8. OnlyStartWritesProcessing'
  BY <1>3, RecordStatus DEF OnlyStartWritesProcessing, NoCall
<1>9. NoAckWhileProcessing' /\ OrphanOnlyByFailure'
  BY <1>2, <1>5 DEF NoAckWhileProcessing, OrphanOnlyByFailure, Jobs
<1>10. ReadyToAck'
  BY <1>2, <1>6 DEF ReadyToAck, Jobs
<1> QED
  BY <1>7, <1>8, <1>9, <1>10

\* The GET of a store call of a webhook call.
LEMMA ReadJobflow ==
  ASSUME Typed, Jobflow, NEW d \in Deliveries,
         pc[d] \notin {"idle", "enqueue", "save", "done", "commit"},
         NEW STATE permitted, NEW STATE payload, NEW STATE next, NEW STATE onSkip,
         permitted => payload.status # "processing",
         resp[d] = Unavailable => next = "done" /\ onSkip = "done",
         ReadThenWrite(d, permitted, payload, next, onSkip)
  PROVE  Jobflow'
<1>1. /\ \A q \in Processes : q # d => call'[q] = call[q]
      /\ call'[d].write.status # "processing"
      /\ permitted => call'[d].next = next
  BY RecordStatus DEF ReadThenWrite, NoCall, Typed, TypeOK, CallTypeOK, Processes
<1>2. d \notin Queued \/ resp[d] = Unavailable
  BY DEF Jobflow, StreamedJobIsStarted
<1>3. UNCHANGED streamVars /\ UNCHANGED <<held, resp>>
  BY DEF ReadThenWrite, redisVars, streamVars
<1>4. CASE permitted
  <2>1. Goto(d, "commit")
    BY <1>4 DEF ReadThenWrite
  <2> QED
    BY <1>1, <1>2, <1>3, <1>4, <2>1, HandlerMove
<1>5. CASE ~permitted
  <2>1. Goto(d, onSkip)
    BY <1>5 DEF ReadThenWrite
  <2> QED
    BY <1>1, <1>2, <1>3, <1>5, <2>1, HandlerMove
<1> QED
  BY <1>4, <1>5

\* The GET of a store call of a worker: when it is refused the record is not
\* the job's.
LEMMA WorkerReadJobflow ==
  ASSUME Typed, Jobflow, NEW w \in Workers, pc[w] # "idle",
         NEW STATE payload, payload.status # "processing",
         ReadThenWrite(w, MayMark(slot, Job(w)), payload, "ack", "ack")
  PROVE  Jobflow'
<1>1. /\ \A q \in Processes : q # w => call'[q] = call[q]
      /\ call'[w].write.status # "processing"
  BY RecordStatus DEF ReadThenWrite, NoCall, Typed, TypeOK, CallTypeOK, Processes
<1>2. /\ UNCHANGED <<slot, log, resp, cursor, pel, held>>
      /\ cursor \in Nat
  BY SMT DEF ReadThenWrite, redisVars, Typed, TypeOK, RedisTypeOK
<1>3. \A i \in 1..Len(log) : Acked(i)' => Acked(i)
  BY <1>2 DEF Acked
<1>4. ASSUME MayMark(slot, Job(w))
      PROVE  Jobflow'
  <2>1. Goto(w, "commit")
    BY <1>4 DEF ReadThenWrite
  <2> QED
    BY <1>1, <1>2, <1>3, <2>1, WorkerMove, SMT
<1>5. ASSUME ~MayMark(slot, Job(w))
      PROVE  Jobflow'
  <2>1. Goto(w, "ack")
    BY <1>5 DEF ReadThenWrite
  <2>2. slot # Processing(Job(w))
    BY <1>5 DEF MayMark, Processing, PendingRecord
  <2> QED
    BY <1>1, <1>2, <1>3, <2>1, <2>2, WorkerMove, SMT
<1> QED
  BY <1>4, <1>5

\* SET NX: the job that becomes PROCESSING is new to the stream.
LEMMA DeferJobflow ==
  ASSUME Typed, Jobflow, NEW d \in Deliveries, Defer(d)
  PROVE  Jobflow'
<1>1. pc[d] = "defer" /\ d \in Processes /\ d \notin Queued
  <2>1. resp[d] # Unavailable
    BY DEF Defer, Jobflow, FailedCallEnds
  <2> QED
    BY <2>1 DEF Defer, Processes, Jobflow, StreamedJobIsStarted
<1>2. CASE slot # NoPending
  <2>1. resp[d] # Unavailable
    BY <1>1 DEF Jobflow, FailedCallEnds
  <2> QED
    BY <1>1, <1>2, <2>1, HandlerMove
       DEF Defer, localUnchanged, streamVars, Jobflow, OnlyStartWritesProcessing
<1>3. CASE slot = NoPending
  <2> USE DEF Jobflow, Defer, Goto, localUnchanged
  <2>1. NoPending # Processing(d)
    BY DEF NoPending, Processing, PendingRecord
  <2>2. /\ slot' = Processing(d) /\ pc'[d] = "enqueue"
        /\ \A q \in Processes : q # d => pc'[q] = pc[q]
        /\ \A w \in Workers : pc'[w] = pc[w]
        /\ UNCHANGED <<log, resp, call, cursor, pel, held>>
    BY <1>1, <1>3, <2>1 DEF Typed, TypeOK, ControlTypeOK, Processes
  <2>3. Queued' = Queued /\ Queued \subseteq Deliveries
    BY <2>2 DEF Queued, Typed, TypeOK, RedisTypeOK
  <2>4. \A i \in 1..Len(log) : log[i] \in Deliveries /\ log[i] # d
    BY <1>1 DEF Queued, Typed, TypeOK, RedisTypeOK
  <2>5. StreamedJobIsStarted' /\ OnlyStartWritesProcessing'
    BY <1>1, <2>2, <2>3 DEF StreamedJobIsStarted, OnlyStartWritesProcessing, Processes
  <2>6. FailedCallEnds'
    BY <1>1, <2>2 DEF FailedCallEnds, Processes
  <2>7. NoAckWhileProcessing'
    BY <2>2, <2>4, ProcessingNames DEF NoAckWhileProcessing, Jobs
  <2>8. OrphanOnlyByFailure'
    BY <2>2, <2>3, ProcessingNames DEF OrphanOnlyByFailure, Jobs
  <2>9. ASSUME NEW w \in Workers, pc'[w] = "ack"
        PROVE  slot' # Processing(Job(w)')
    <3>1. Job(w)' = Job(w) /\ held[w] \in 1..Len(log)
      BY <2>2, <2>9, SMT DEF Job, Typed, TypeOK, RedisTypeOK, HeldEntryIsGiven
    <3> QED
      BY <2>2, <2>4, <3>1, ProcessingNames DEF Job, Jobs
  <2> QED
    BY <2>5, <2>6, <2>7, <2>8, <2>9 DEF ReadyToAck
<1> QED
  BY <1>2, <1>3

\* XADD: an entry at the end of the stream, of a call at its end.
LEMMA AppendJobflow ==
  ASSUME Typed, Jobflow, NEW d \in Deliveries, NEW label \in {"save", "clear"},
         NEW r \in {Promise, Unavailable},
         label = "clear" <=> r = Unavailable,
         pc[d] = "enqueue", Goto(d, label), resp' = [resp EXCEPT ![d] = r],
         \/ log' = Append(log, d)
         \/ UNCHANGED log /\ r = Unavailable,
         UNCHANGED <<slot, cursor, pel, call, held>>
  PROVE  Jobflow'
<1> USE DEF Jobflow, Goto
<1>1. /\ pc'[d] = label /\ resp'[d] = r
      /\ \A q \in Processes : q # d => pc'[q] = pc[q]
      /\ \A w \in Workers : pc'[w] = pc[w]
      /\ \A e \in Deliveries : e # d => resp'[e] = resp[e] /\ pc'[e] = pc[e]
  BY DEF Typed, TypeOK, ControlTypeOK, LocalTypeOK, Processes
<1>2. /\ Queued \subseteq Queued' /\ Queued' \subseteq Queued \cup {d}
      /\ r = Promise => d \in Queued'
      /\ Queued \subseteq Deliveries
      /\ Len(log) \in Nat /\ Len(log) <= Len(log')
      /\ \A i \in 1..Len(log) : log'[i] = log[i]
  <2>1. CASE log' = Append(log, d)
    BY <2>1, QueuedAppend, SMT DEF Queued, Typed, TypeOK, RedisTypeOK
  <2>2. CASE UNCHANGED log /\ r = Unavailable
    <3>1. Promise # Unavailable
      BY DEF Promise, Unavailable, Say
    <3> QED
      BY <2>2, <3>1, SMT DEF Queued, Typed, TypeOK, RedisTypeOK
  <2> QED
    BY <2>1, <2>2
<1>3. cursor <= Len(log) /\ cursor \in Nat
  BY SMT DEF Typed, TypeOK, RedisTypeOK
<1>4. StreamedJobIsStarted'
  BY <1>1, <1>2 DEF StreamedJobIsStarted
<1>5. FailedCallEnds'
  BY <1>1 DEF FailedCallEnds
<1>6. OnlyStartWritesProcessing'
  BY DEF OnlyStartWritesProcessing
<1>7. NoAckWhileProcessing'
  BY <1>2, <1>3, SMT DEF NoAckWhileProcessing, Acked
<1>8. OrphanOnlyByFailure'
  BY <1>1, <1>2 DEF OrphanOnlyByFailure
<1>9. ASSUME NEW w \in Workers, pc'[w] = "ack"
      PROVE  slot' # Processing(Job(w)')
  <2>1. pc[w] = "ack" /\ held[w] \in 1..Len(log)
    BY <1>1, <1>3, <1>9, SMT DEF Typed, HeldEntryIsGiven
  <2> QED
    BY <1>2, <2>1 DEF ReadyToAck, Job
<1> QED
  BY <1>4, <1>5, <1>6, <1>7, <1>8, <1>9 DEF ReadyToAck

\* Enqueue is such a call.
LEMMA EnqueueJobflow ==
  ASSUME Typed, Jobflow, NEW d \in Deliveries, Enqueue(d)
  PROVE  Jobflow'
<1>1. Promise # Unavailable
  BY DEF Promise, Unavailable, Say
<1> QED
  BY <1>1, AppendJobflow DEF Enqueue, localUnchanged

\* Every step of a webhook call keeps the flow of jobs.
LEMMA HandlerJobflow ==
  ASSUME Typed, Jobflow, NEW d \in Deliveries, HandlerStep(d) \/ Receive(d)
  PROVE  Jobflow'
<1>1. /\ d \in Processes
      /\ pc[d] \notin {"save", "done"} => d \notin Queued \/ resp[d] = Unavailable
      /\ resp[d] = Unavailable => pc[d] \in {"clear", "done", "commit"}
      /\ call[d].write.status # "processing"
  BY DEF Processes, Jobflow, StreamedJobIsStarted, FailedCallEnds,
         OnlyStartWritesProcessing
<1>2. /\ Unsaid # Unavailable /\ Promise # Unavailable
      /\ \A j, t : Tell(j, t) # Unavailable
  BY DEF Unsaid, Promise, Tell, Say, Unavailable
<1>3. \A r : [resp EXCEPT ![d] = r][d] = r
  BY DEF Typed, TypeOK, LocalTypeOK
<1>4. \A r : \A e \in Deliveries : e # d => [resp EXCEPT ![d] = r][e] = resp[e]
  BY DEF Typed, TypeOK, LocalTypeOK
<1> USE DEF localUnchanged, redisVars, streamVars
<1>5. CASE Receive(d)
  BY <1>1, <1>2, <1>3, <1>4, <1>5, HandlerMove DEF Receive
<1>6. CASE Load(d)
  <2>1. Handle(kind[KeyOf[d]], slot) \in Decisions
    BY HandleType, KeyOfAssumption DEF Typed, TypeOK, LocalTypeOK, RedisTypeOK
  <2> QED
    BY <1>1, <1>3, <1>4, <1>6, <2>1, HandlerMove DEF Load, Decisions
<1>7. CASE Clear(d)
  <2>1. resp[d] = Unavailable => AfterClear(d) = "done"
    BY <1>2 DEF AfterClear
  <2> QED
    BY <1>7, <2>1, ReadJobflow, RecordStatus DEF Clear
<1>8. CASE Deliver(d)
  BY <1>1, <1>8, ReadJobflow, RecordStatus DEF Deliver, Typed, TypeOK, RedisTypeOK
<1>9. CASE Advance(d)
  <2>1. seen[d].job \in Jobs
    BY DEF Typed, TypeOK, LocalTypeOK, Jobs, Pending
  <2> QED
    BY <1>1, <1>9, <2>1, ReadJobflow, RecordStatus DEF Advance
<1>10. ASSUME NEW reply \in Replies, FastReply(d, reply)
       PROVE  Jobflow'
  <2>1. /\ \A q \in Processes : q # d => call'[q] = call[q]
        /\ call'[d].write.status # "processing"
    BY <1>1, <1>10, RecordStatus
       DEF FastReply, Jobs, Typed, TypeOK, CallTypeOK
  <2> QED
    BY <1>1, <1>2, <1>3, <1>4, <1>10, <2>1, HandlerMove DEF FastReply
<1>11. CASE FastPathFails(d)
  BY <1>1, <1>11, HandlerMove DEF FastPathFails
<1>12. CASE Keep(d)
  BY <1>1, <1>12, ReadJobflow DEF Keep
<1>13. CASE Offer(d)
  BY <1>1, <1>13, ReadJobflow, RecordStatus DEF Offer, Typed, TypeOK, RedisTypeOK
<1>14. CASE Recheck(d)
  <2>1. CASE slot = NoPending
    BY <1>1, <1>14, <2>1, HandlerMove DEF Recheck
  <2>2. CASE slot # NoPending
    <3>1. /\ resp' = [resp EXCEPT ![d] = Promise]
          /\ Goto(d, "save") /\ pc[d] = "recheck"
          /\ UNCHANGED <<streamVars, held, call>>
      BY <1>14, <2>2 DEF Recheck
    <3>2. /\ resp'[d] = Promise
          /\ \A e \in Deliveries : e # d => resp'[e] = resp[e]
      BY <3>1, <1>3, <1>4
    <3> QED
      BY <1>1, <1>2, <3>1, <3>2, HandlerMove
  <2> QED
    BY <2>1, <2>2
<1>15. CASE Commit(d)
  BY <1>1, <1>15, CommitJobflow
<1>16. CASE Save(d)
  BY <1>1, <1>16, HandlerMove DEF Save
<1>17. CASE Defer(d)
  BY <1>17, DeferJobflow
<1>18. CASE Enqueue(d)
  BY <1>18, EnqueueJobflow
<1> QED
  BY <1>5, <1>6, <1>7, <1>8, <1>9, <1>10, <1>11, <1>12, <1>13, <1>14, <1>15,
     <1>16, <1>17, <1>18 DEF HandlerStep

\* Every step of a worker keeps the flow of jobs.
LEMMA WorkerJobflow ==
  ASSUME Typed, Jobflow, NEW w \in Workers, WorkerStep(w)
  PROVE  Jobflow'
<1>1. /\ w \in Processes /\ cursor \in Nat
      /\ call[w].write.status # "processing"
      /\ \A i \in Int : i <= cursor + 1 => i <= cursor \/ i = cursor + 1
  BY SMT DEF Processes, Jobflow, OnlyStartWritesProcessing, Typed, TypeOK, RedisTypeOK
<1>2. \A i \in 1..Len(log) :
        cursor' = cursor /\ pel' = pel => (Acked(i)' => Acked(i))
  BY DEF Acked
<1>3. pc[w] # "idle" => Job(w) \in Deliveries
  BY SMT DEF Job, Typed, TypeOK, HeldEntryIsGiven, RedisTypeOK
<1> USE DEF workerMoves, redisVars
<1>4. CASE Read(w)
  <2>1. \A i \in 1..Len(log) : Acked(i)' => Acked(i)
    BY <1>1, <1>4, SMT DEF Read, Take, Acked
  <2>2. \A v \in Workers : v # w => held'[v] = held[v]
    BY <1>4 DEF Read, Take, Typed, TypeOK, LocalTypeOK
  <2>3. cursor' \in Nat /\ cursor <= cursor'
    BY <1>1, <1>4, SMT DEF Read
  <2> QED
    BY <1>1, <1>4, <2>1, <2>2, <2>3, WorkerMove DEF Read, Take
<1>5. ASSUME NEW i \in 1..Len(log), Reclaim(w, i)
      PROVE  Jobflow'
  <2>1. \A v \in Workers : v # w => held'[v] = held[v]
    BY <1>5 DEF Reclaim, Take, Typed, TypeOK, LocalTypeOK
  <2>2. cursor' \in Nat /\ cursor <= cursor'
    BY <1>1, <1>5, SMT DEF Reclaim
  <2> QED
    BY <1>1, <1>2, <1>5, <2>1, <2>2, WorkerMove DEF Reclaim, Take
<1>6. CASE Check(w)
  <2>1. PICK label \in {"generate", "ack"} :
          /\ Goto(w, label)
          /\ label = "ack" => slot # Processing(Job(w))
    BY <1>6 DEF Check
  <2>2. cursor' \in Nat /\ cursor <= cursor'
    BY <1>1, <1>6, SMT DEF Check
  <2> QED
    BY <1>1, <1>2, <1>6, <2>1, <2>2, WorkerMove DEF Check
<1>7. ASSUME NEW reply \in Replies, Generate(w, reply)
      PROVE  Jobflow'
  <2>1. /\ \A q \in Processes : q # w => call'[q] = call[q]
        /\ call'[w].write.status # "processing"
    BY <1>1, <1>3, <1>7, RecordStatus
       DEF Generate, Jobs, Typed, TypeOK, CallTypeOK
  <2>2. cursor' \in Nat /\ cursor <= cursor'
    BY <1>1, <1>7, SMT DEF Generate
  <2> QED
    BY <1>2, <1>7, <2>1, <2>2, WorkerMove DEF Generate
<1>8. CASE GenerateFails(w)
  <2>1. cursor' \in Nat /\ cursor <= cursor'
    BY <1>1, <1>8, SMT DEF GenerateFails
  <2> QED
    BY <1>1, <1>2, <1>8, <2>1, WorkerMove DEF GenerateFails
<1>9. CASE Publish(w)
  BY <1>1, <1>9, WorkerReadJobflow DEF Publish
<1>10. CASE Fail(w)
  BY <1>3, <1>10, WorkerReadJobflow, RecordStatus DEF Fail, Jobs
<1>11. CASE Commit(w)
  BY <1>1, <1>11, CommitJobflow
<1>12. CASE Ack(w)
  \* The record was not PROCESSING when the worker came to "ack", and only
  \* SET NX by the job's own call could have made it so.
  <2>1. slot # Processing(log[held[w]])
    BY <1>12 DEF Ack, Jobflow, ReadyToAck, Job
  <2>2. \A i \in 1..Len(log) : Acked(i)' => Acked(i) \/ slot # Processing(log[i])
    BY <1>12, <2>1 DEF Ack, Acked
  <2>3. \A v \in Workers : v # w => held'[v] = held[v]
    BY <1>12 DEF Ack, Typed, TypeOK, LocalTypeOK
  <2>4. cursor' \in Nat /\ cursor <= cursor'
    BY <1>1, <1>12, SMT DEF Ack
  <2> QED
    BY <1>1, <1>12, <2>2, <2>3, <2>4, WorkerMove DEF Ack
<1> QED
  BY <1>4, <1>5, <1>6, <1>7, <1>8, <1>9, <1>10, <1>11, <1>12 DEF WorkerStep

\* Every failure, and the expiry of the key, keeps the flow of jobs.
LEMMA FaultJobflow ==
  ASSUME Typed, Jobflow,
         \/ \E d \in Deliveries : Abort(d) \/ EnqueueFails(d)
         \/ \E w \in Workers : WorkerDrop(w) \/ WorkerError(w)
         \/ Expire
  PROVE  Jobflow'
<1>1. cursor \in Nat
  BY SMT DEF Typed, TypeOK, RedisTypeOK
<1>2. ASSUME NEW d \in Deliveries, Abort(d)
      PROVE  Jobflow'
  <2> USE DEF Jobflow, Abort, Goto
  <2>1. /\ pc'[d] = "done" /\ resp'[d] = Unavailable /\ call'[d] = NoCall
        /\ \A q \in Processes : q # d => pc'[q] = pc[q] /\ call'[q] = call[q]
        /\ \A w \in Workers : pc'[w] = pc[w] /\ w # d
        /\ \A e \in Deliveries : e # d => resp'[e] = resp[e] /\ e \in Processes
    BY <1>2 DEF Typed, TypeOK, ControlTypeOK, CallTypeOK, LocalTypeOK, Processes
  <2>2. Queued' = Queued
    BY <1>2 DEF Queued
  <2>3. StreamedJobIsStarted' /\ FailedCallEnds'
    BY <1>2, <2>1, <2>2
       DEF StreamedJobIsStarted, FailedCallEnds, Queued, Typed, TypeOK, RedisTypeOK
  <2>4. OnlyStartWritesProcessing'
    BY <1>2, <2>1, RecordStatus DEF OnlyStartWritesProcessing, NoCall
  <2>5. ReadyToAck' /\ NoAckWhileProcessing'
    BY <1>2, <2>1 DEF ReadyToAck, Job, NoAckWhileProcessing, Acked
  <2>6. OrphanOnlyByFailure'
    BY <1>2, <2>1, <2>2 DEF OrphanOnlyByFailure
  <2> QED
    BY <2>3, <2>4, <2>5, <2>6
<1>3. ASSUME NEW d \in Deliveries, EnqueueFails(d)
      PROVE  Jobflow'
  <2>1. Promise # Unavailable
    BY DEF Promise, Unavailable, Say
  <2> QED
    BY <1>3, <2>1, AppendJobflow DEF EnqueueFails
<1>4. ASSUME NEW w \in Workers, WorkerDrop(w)
      PROVE  Jobflow'
  <2>1. /\ \A q \in Processes : q # w => call'[q] = call[q]
        /\ call'[w].write.status # "processing"
        /\ \A v \in Workers : v # w => held'[v] = held[v]
    BY <1>4, RecordStatus
       DEF WorkerDrop, NoCall, Typed, TypeOK, CallTypeOK, LocalTypeOK, Processes
  <2>2. cursor' \in Nat /\ cursor <= cursor'
    BY <1>1, <1>4, SMT DEF WorkerDrop, redisVars
  <2> QED
    BY <1>4, <2>1, <2>2, WorkerMove DEF WorkerDrop, redisVars, Acked
<1>5. ASSUME NEW w \in Workers, WorkerError(w)
      PROVE  Jobflow'
  <2>1. /\ \A q \in Processes : q # w => call'[q] = call[q]
        /\ call'[w].write.status # "processing"
    BY <1>5, RecordStatus
       DEF WorkerError, NoCall, Typed, TypeOK, CallTypeOK, Processes
  <2>2. cursor' \in Nat /\ cursor <= cursor'
    BY <1>1, <1>5, SMT DEF WorkerError
  <2>3. CASE UNCHANGED slot
    BY <1>5, <2>1, <2>2, <2>3, WorkerMove DEF WorkerError, Acked
  <2>4. CASE slot' = call[w].write
    <3> USE DEF Jobflow, WorkerError, Goto
    <3>1. \A j \in Jobs : slot' # Processing(j)
      BY <2>4, RecordStatus DEF OnlyStartWritesProcessing, Processes
    <3>2. /\ pc'[w] = "fail"
          /\ \A q \in Processes : q # w => pc'[q] = pc[q]
          /\ \A d \in Deliveries : pc'[d] = pc[d] /\ call'[d] = call[d]
      BY <1>5 DEF Typed, TypeOK, ControlTypeOK, CallTypeOK, Processes
    <3>3. Queued' = Queued
      BY <1>5 DEF Queued
    <3>4. StreamedJobIsStarted' /\ FailedCallEnds'
      BY <1>5, <3>2, <3>3
         DEF StreamedJobIsStarted, FailedCallEnds, Queued, Typed, TypeOK, RedisTypeOK
    <3>5. OnlyStartWritesProcessing'
      BY <2>1 DEF OnlyStartWritesProcessing
    <3>6. NoAckWhileProcessing' /\ OrphanOnlyByFailure'
      BY <1>5, <3>1
         DEF NoAckWhileProcessing, OrphanOnlyByFailure, Jobs, Typed, TypeOK, RedisTypeOK
    <3>7. ASSUME NEW v \in Workers, pc'[v] = "ack"
          PROVE  slot' # Processing(Job(v)')
      <4>1. Job(v)' \in Deliveries
        BY <1>5, <3>2, <3>7, SMT
           DEF Job, Typed, TypeOK, HeldEntryIsGiven, RedisTypeOK, Processes
      <4> QED
        BY <3>1, <4>1 DEF Jobs
    <3> QED
      BY <3>4, <3>5, <3>6, <3>7 DEF ReadyToAck
  <2> QED
    BY <1>5, <2>3, <2>4 DEF WorkerError
<1>6. CASE Expire
  <2> USE DEF Jobflow, Expire
  <2>1. \A j \in Jobs : slot' # Processing(j)
    BY <1>6 DEF NoPending, Processing, PendingRecord
  <2>2. Queued' = Queued
    BY <1>6 DEF Queued
  <2>3. StreamedJobIsStarted' /\ FailedCallEnds' /\ OnlyStartWritesProcessing'
    BY <1>6, <2>2 DEF StreamedJobIsStarted, FailedCallEnds, OnlyStartWritesProcessing
  <2>4. NoAckWhileProcessing' /\ OrphanOnlyByFailure'
    BY <1>6, <2>1
       DEF NoAckWhileProcessing, OrphanOnlyByFailure, Jobs, Typed, TypeOK, RedisTypeOK
  <2>5. \A w \in Workers : pc[w] = "ack" => Job(w) \in Deliveries
    BY SMT DEF Job, Typed, TypeOK, HeldEntryIsGiven, RedisTypeOK
  <2>6. ReadyToAck'
    BY <1>6, <2>1, <2>5 DEF ReadyToAck, Job, Jobs
  <2> QED
    BY <2>3, <2>4, <2>6
<1> QED
  BY <1>2, <1>3, <1>4, <1>5, <1>6

\* A stuttering step keeps the flow of jobs.
LEMMA StutterJobflow == Jobflow /\ UNCHANGED vars => Jobflow'
BY DEF Jobflow, StreamedJobIsStarted, FailedCallEnds, OnlyStartWritesProcessing,
       ReadyToAck, NoAckWhileProcessing, OrphanOnlyByFailure, Queued, Acked, Job,
       vars, redisVars

\* Every step, of whatever process, preserves the whole invariant.
THEOREM StepStream == StreamInv /\ [Next]_vars => StreamInv'
<1> SUFFICES ASSUME Typed, Jobflow, [Next]_vars PROVE Jobflow'
  BY StepTyped, StreamInvParts DEF StreamInv, Typed, Jobflow
<1> QED
  BY HandlerJobflow, WorkerJobflow, FaultJobflow, StutterJobflow DEF Next

\* The whole invariant, whatever overlaps, is reclaimed, fails or expires.
THEOREM StreamCorrect == Spec => []StreamInv
BY InitStream, StepStream, PTL DEF Spec

\* No job is acknowledged while the user is still told that it is being
\* prepared (deferred_worker.py:41-45).
THEOREM NoAckCorrect == Spec => []NoAckWhileProcessing
<1>1. StreamInv => NoAckWhileProcessing
  BY DEF StreamInv
<1> QED
  BY <1>1, StreamCorrect, PTL

\* A PROCESSING record outside the stream is about to be queued or belongs to
\* a call that failed (conversation.py:358-364).
THEOREM OrphanCorrect == Spec => []OrphanOnlyByFailure
<1>1. StreamInv => OrphanOnlyByFailure
  BY DEF StreamInv
<1> QED
  BY <1>1, StreamCorrect, PTL

=============================================================================

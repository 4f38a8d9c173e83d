----------------------- MODULE ConversationRecordsProofs -----------------------
(***************************************************************************)
(* Theorems about ConversationRecords, for any calls, workers and bounds.  *)
(* The writes of the records take nothing away from what ConversationProofs*)
(* says of the stream, and RecordsInv is inductive beside StreamInv; then  *)
(* MemoryInv, SettledInv, FailureInv and, where calls take turns,          *)
(* TogetherInv.                                                            *)
(***************************************************************************)
EXTENDS ConversationRecordsInvariants, ConversationTurnProofs, SequenceTheorems

\* A failed write touches nothing of the conversation but the fault count.
LEMMA FaultCountStream ==
  ASSUME StreamInv, NEW p \in Processes, WriteFails(p)
  PROVE  StreamInv'
<1>1. /\ UNCHANGED <<slot, idem, log, cursor, pel, pc, seen, resp, call, held, kind,
                     settled, expiries>>
      /\ faults' \in 0..MaxFaults
  <2>1. faults \in 0..MaxFaults /\ MaxFaults \in Nat
    BY BoundsAssumption DEF StreamInv, TypeOK, LocalTypeOK
  <2> QED
    BY <2>1, SMT DEF WriteFails, Fault, redisVars
<1>2. TypeOK'
  BY <1>1 DEF StreamInv, TypeOK, RedisTypeOK, ControlTypeOK, CallTypeOK, LocalTypeOK
<1>3. /\ StreamedJobIsStarted' /\ FailedCallEnds' /\ OnlyStartWritesProcessing'
      /\ HeldEntryIsGiven' /\ ReadyToAck' /\ NoAckWhileProcessing'
      /\ OrphanOnlyByFailure'
  BY <1>1 DEF StreamInv, StreamedJobIsStarted, FailedCallEnds, HeldEntryIsGiven,
       OnlyStartWritesProcessing, ReadyToAck, NoAckWhileProcessing,
       OrphanOnlyByFailure, Queued, Acked, Job
<1> QED
  BY <1>2, <1>3 DEF StreamInv

\* Every step of the composition keeps the invariant of the conversation.
LEMMA RecordsStepStream == StreamInv /\ [RecordsNext]_allVars => StreamInv'
<1> SUFFICES ASSUME StreamInv, [RecordsNext]_allVars PROVE StreamInv'
  OBVIOUS
<1>1. ASSUME NEW d \in Deliveries, CallMoves(d) \/ CallDies(d) PROVE StreamInv'
  BY <1>1, StepStream DEF CallMoves, CallDies, Next
<1>2. ASSUME NEW w \in Workers, WorkerMoves(w) \/ WorkerDies(w) PROVE StreamInv'
  BY <1>2, StepStream DEF WorkerMoves, WorkerDies, Next
<1>3. ASSUME NEW p \in Processes, Write(p) \/ WriteFails(p) PROVE StreamInv'
  BY <1>3, StepStream, FaultCountStream DEF Write
<1>4. CASE SessionExpires \/ PendingExpires
  BY <1>4, StepStream DEF SessionExpires, PendingExpires, Next
<1>5. CASE UNCHANGED allVars
  BY <1>5, StepStream DEF allVars
<1> QED
  BY <1>1, <1>2, <1>3, <1>4, <1>5 DEF RecordsNext

\* What the conversation promises of its stream it promises with the records
\* being written in between (deferred_worker.py:41-45).
THEOREM RecordsKeepStream == RecordsSpec => []StreamInv
<1>1. RecordsInit => StreamInv
  BY InitStream DEF RecordsInit
<1> QED
  BY <1>1, RecordsStepStream, PTL DEF RecordsSpec

-----------------------------------------------------------------------------
(* The records.                                                            *)

\* A call moves no worker and only ever adds to the stream.
LEMMA CallFrame ==
  ASSUME StreamInv, NEW d \in Deliveries,
         Receive(d) \/ HandlerStep(d) \/ EnqueueFails(d) \/ Abort(d)
  PROVE  \A w \in Workers :
           pc'[w] = pc[w] /\ (pc[w] # "idle" => Job(w)' = Job(w))
<1>1. \A w \in Workers : w # d
  BY WorkersAssumption
<1>2. UNCHANGED held /\ (UNCHANGED log \/ log' = Append(log, d))
  BY DEF Receive, HandlerStep, EnqueueFails, Abort, Load, Clear, Deliver, Advance,
       FastReply, FastPathFails, Keep, Offer, Defer, Recheck, Enqueue, Commit, Save,
       ReadThenWrite, localUnchanged, redisVars
<1>3. \A w \in Workers : pc'[w] = pc[w]
  BY <1>1
     DEF Receive, HandlerStep, EnqueueFails, Abort, Load, Clear, Deliver, Advance,
       FastReply, FastPathFails, Keep, Offer, Defer, Recheck, Enqueue, Commit, Save,
       ReadThenWrite, Goto, StreamInv, TypeOK, ControlTypeOK, Processes
<1>4. \A w \in Workers : pc[w] # "idle" => held[w] \in 1..Len(log)
  BY SMT DEF StreamInv, TypeOK, RedisTypeOK, HeldEntryIsGiven
<1>5. \A i \in 1..Len(log) : log'[i] = log[i]
  BY <1>2, SMT DEF StreamInv, TypeOK, RedisTypeOK
<1> QED
  BY <1>2, <1>3, <1>4, <1>5 DEF Job

\* A worker moves no other worker, and the stream stays as it is.
LEMMA WorkerFrame ==
  ASSUME StreamInv, NEW w \in Workers, WorkerStep(w) \/ WorkerDrop(w) \/ WorkerError(w)
  PROVE  /\ \A v \in Workers \ {w} : pc'[v] = pc[v] /\ Job(v)' = Job(v)
         /\ pc[w] # "idle" /\ pc'[w] # "idle" => Job(w)' = Job(w)
<1> USE DEF WorkerStep, WorkerDrop, WorkerError, Read, Reclaim, Take, Check, Generate,
            GenerateFails, Publish, Fail, Commit, Ack, ReadThenWrite, workerMoves,
            redisVars, Goto
<1>1. UNCHANGED log
  OBVIOUS
<1>2. \A v \in Workers \ {w} : pc'[v] = pc[v] /\ held'[v] = held[v]
  BY DEF StreamInv, TypeOK, ControlTypeOK, LocalTypeOK, Processes
<1>3. pc[w] # "idle" /\ pc'[w] # "idle" => held'[w] = held[w]
  BY DEF StreamInv, TypeOK, ControlTypeOK, LocalTypeOK, Processes
<1> QED
  BY <1>1, <1>2, <1>3 DEF Job

\* Whatever a process can owe is a sequence of items.
LEMMA Owing ==
  /\ MirroredExchange \in Seq(Items) /\ Exchange \in Seq(Items)
  /\ <<"assistant", "turns">> \in Seq(Items) /\ <<"assistant">> \in Seq(Items)
  /\ <<"turns", "ok">> \in Seq(Items) /\ <<"ok">> \in Seq(Items)
  /\ <<"error">> \in Seq(Items)
  /\ << >> \in Seq(Items) /\ <<"turns">> \in Seq(Items)
<1>1. /\ "user" \in Items /\ "assistant" \in Items /\ "turns" \in Items
      /\ "ok" \in Items /\ "error" \in Items
  BY DEF Items, Roles
<1>2. \A a \in Items : <<a>> \in Seq(Items)
  OBVIOUS
<1>3. \A a, b \in Items : <<a, b>> \in Seq(Items)
  OBVIOUS
<1>4. \A a, b, c \in Items : <<a, b, c>> \in Seq(Items)
  OBVIOUS
<1> QED
  BY <1>1, <1>2, <1>3, <1>4, EmptySeq DEF Exchange, MirroredExchange

\* LTRIM leaves a sequence of turns.
LEMMA TrimmedType ==
  ASSUME NEW turns \in Seq(Turns)
  PROVE  Trimmed(turns) \in Seq(Turns)
<1>1. CASE TurnLimit = 0 \/ Len(turns) <= TurnLimit
  BY <1>1 DEF Trimmed
<1>2. CASE ~(TurnLimit = 0 \/ Len(turns) <= TurnLimit)
  <2>1. Len(turns) - TurnLimit + 1 \in 1..(Len(turns) + 1)
    BY <1>2, TurnLimitAssumption, SMT
  <2>2. SubSeq(turns, Len(turns) - TurnLimit + 1, Len(turns)) \in Seq(Turns)
    BY <2>1, SubSeqProperties, SMT
  <2> QED
    BY <1>2, <2>2 DEF Trimmed
<1> QED
  BY <1>1, <1>2

\* The records are empty at first.
LEMMA RecordsInitInv == RecordsInit => RecordsInv
<1> SUFFICES ASSUME RecordsInit PROVE RecordsInv
  OBVIOUS
<1>1. RecordsTypeOK
  BY SMT, Owing DEF RecordsInit, RecordsTypeOK
<1>2. OwedInOrder /\ AnsweredRowHasTurns
  BY DEF RecordsInit, OwedInOrder, AnsweredRowHasTurns, Processes
<1> QED
  BY <1>1, <1>2 DEF RecordsInv

\* A write that takes effect keeps the types, and puts on record as answered
\* at most the job it is about.
LEMMA RecordEffect ==
  ASSUME RecordsTypeOK, NEW j \in Deliveries, NEW item \in Items, Record(j, item)
  PROVE  /\ history' \in Seq(Turns) /\ appended' \in Seq(Turns)
         /\ mirrored' \subseteq Deliveries /\ mirrored \subseteq mirrored'
         /\ rows' \in [Deliveries -> {"none", "ok", "error"}]
         /\ item = "turns" => j \in mirrored'
         /\ \A k \in Deliveries :
              rows'[k] = "ok" => rows[k] = "ok" \/ (k = j /\ item = "ok")
<1> USE DEF RecordsTypeOK
<1>1. CASE item \in Roles /\ AppendTurn([job |-> j, role |-> item])
  <2> DEFINE turn == [job |-> j, role |-> item]
  <2>1. turn \in Turns
    BY <1>1 DEF Turns
  <2>2. Append(history, turn) \in Seq(Turns) /\ Append(appended, turn) \in Seq(Turns)
    BY <2>1, AppendProperties
  <2>3. history' \in Seq(Turns) /\ appended' \in Seq(Turns)
    BY <1>1, <2>2, TrimmedType DEF AppendTurn
  <2> QED
    BY <1>1, <2>3 DEF AppendTurn, Roles
<1>2. CASE item = "turns" /\ PersistTurns(j)
  BY <1>2 DEF PersistTurns
<1>3. CASE item \in {"ok", "error"} /\ PersistJobResult(j, item)
  <2>1. rows' \in [Deliveries -> {"none", "ok", "error"}]
    BY <1>3 DEF PersistJobResult
  <2>2. \A k \in Deliveries : rows'[k] = "ok" => rows[k] = "ok" \/ (k = j /\ item = "ok")
    BY <1>3 DEF PersistJobResult
  <2> QED
    BY <1>3, <2>1, <2>2 DEF PersistJobResult
<1> QED
  BY <1>1, <1>2, <1>3 DEF Record

\* What is left to write after a write, done or failed.
LEMMA OwedLeft ==
  /\ Head(MirroredExchange) = "user" /\ Tail(MirroredExchange) = <<"assistant", "turns">>
  /\ AfterFailure(MirroredExchange) = <<"turns">>
  /\ Head(<<"assistant", "turns">>) = "assistant"
  /\ Tail(<<"assistant", "turns">>) = <<"turns">>
  /\ AfterFailure(<<"assistant", "turns">>) = <<"turns">>
  /\ Head(Exchange) = "user" /\ Tail(Exchange) = <<"assistant">>
  /\ AfterFailure(Exchange) = << >>
  /\ Head(<<"turns", "ok">>) = "turns" /\ Tail(<<"turns", "ok">>) = <<"ok">>
  /\ AfterFailure(<<"turns", "ok">>) = << >>
  /\ \A i \in Items : /\ Head(<<i>>) = i /\ Tail(<<i>>) = << >>
                      /\ i # "turns" => AfterFailure(<<i>>) = << >>
  /\ AfterFailure(<<"turns">>) = << >>
BY SMT DEF Exchange, MirroredExchange, AfterFailure, Roles, Items

\* The process that owes a write owes it for a job of its own.
LEMMA OwingJob ==
  ASSUME StreamInv, OwedInOrder, NEW p \in Processes, ~Free(p)
  PROVE  /\ JobOf(p) \in Deliveries
         /\ Head(owed[p]) \in Items
         /\ Head(owed[p]) = "ok" => JobOf(p) \in mirrored
<1>1. CASE p \in Deliveries
  <2>1. owed[p] \in {MirroredExchange, <<"assistant", "turns">>, <<"turns">>}
    BY <1>1 DEF OwedInOrder, Free
  <2> QED
    BY <1>1, <2>1, OwedLeft DEF JobOf, Items, Roles
<1>2. CASE p \in Workers
  <2>1. pc[p] # "idle"
    BY <1>2 DEF OwedInOrder, Free
  <2>2. Job(p) \in Deliveries
    BY <1>2, <2>1, SMT DEF Job, StreamInv, TypeOK, RedisTypeOK, HeldEntryIsGiven
  <2>3. JobOf(p) = Job(p)
    BY <1>2, WorkersAssumption DEF JobOf
  <2>4. /\ owed[p] \in {Exchange, <<"assistant">>, <<"turns", "ok">>, <<"error">>, <<"ok">>}
        /\ owed[p] = <<"ok">> => Job(p) \in mirrored
    <3>1. Head(<<"ok">>) \notin {Head(Exchange), Head(<<"assistant">>),
                                Head(<<"turns", "ok">>), Head(<<"error">>)}
      BY OwedLeft DEF Items, Roles
    <3> QED
      BY <1>2, <3>1 DEF OwedInOrder, Free
  <2>5. Head(owed[p]) \in Items /\ (Head(owed[p]) = "ok" => owed[p] = <<"ok">>)
    BY <2>4, OwedLeft DEF Items, Roles
  <2> QED
    BY <2>2, <2>3, <2>4, <2>5
<1> QED
  BY <1>1, <1>2 DEF Processes

\* A write, done or failed, leaves what is owed in order.
LEMMA WriteOrder ==
  ASSUME RecordsTypeOK, OwedInOrder, NEW p \in Processes, ~Free(p),
         UNCHANGED <<pc, log, held>>, mirrored \subseteq mirrored',
         \/ /\ owed' = [owed EXCEPT ![p] = Tail(@)]
            /\ Head(owed[p]) = "turns" => JobOf(p) \in mirrored'
         \/ owed' = [owed EXCEPT ![p] = AfterFailure(@)]
  PROVE  OwedInOrder' /\ owed' \in [Processes -> Seq(Items)]
<1>1. \A q \in Processes \ {p} : owed'[q] = owed[q]
  BY DEF RecordsTypeOK
<1>2. owed'[p] \in {Tail(owed[p]), AfterFailure(owed[p])}
  BY DEF RecordsTypeOK
<1>3. ASSUME p \in Deliveries
      PROVE  owed'[p] \in {MirroredExchange, <<"assistant", "turns">>, <<"turns">>, << >>}
  <2>1. owed[p] \in {MirroredExchange, <<"assistant", "turns">>, <<"turns">>}
    BY <1>3 DEF OwedInOrder, Free
  <2> QED
    BY <2>1, <1>2, OwedLeft DEF Items
<1>4. ASSUME p \in Workers
      PROVE  \/ owed'[p] = << >>
             \/ pc[p] = "publish" /\ owed'[p] = <<"assistant">>
             \/ pc[p] = "ack" /\ owed'[p] = <<"ok">> /\ Job(p) \in mirrored'
  <2>1. JobOf(p) = Job(p)
    BY <1>4, WorkersAssumption DEF JobOf
  <2>2. CASE pc[p] = "publish" /\ owed[p] \in {Exchange, <<"assistant">>}
    BY <1>2, <2>2, OwedLeft DEF Items, Roles
  <2>3. CASE pc[p] = "ack" /\ owed[p] = <<"turns", "ok">>
    BY <2>1, <2>3, OwedLeft DEF RecordsTypeOK
  <2>4. CASE owed[p] \in {<<"error">>, <<"ok">>}
    <3>1. \A i \in {"error", "ok"} : Tail(<<i>>) = << >> /\ AfterFailure(<<i>>) = << >>
      BY OwedLeft DEF Items
    <3> QED
      BY <1>2, <2>4, <3>1
  <2> QED
    BY <1>4, <2>2, <2>3, <2>4 DEF OwedInOrder, Free
<1>5. OwedInOrder'
  <2>1. \A w \in Workers : pc'[w] = pc[w] /\ Job(w)' = Job(w) /\ w \in Processes
    BY DEF Job, Processes
  <2>2. \A d \in Deliveries : d \in Processes
    BY DEF Processes
  <2>3. ASSUME NEW d \in Deliveries
        PROVE  owed'[d] \in {MirroredExchange, <<"assistant", "turns">>, <<"turns">>, << >>}
    BY <1>1, <1>3, <2>2 DEF OwedInOrder
  <2>4. ASSUME NEW w \in Workers
        PROVE  \/ owed'[w] = << >>
               \/ pc'[w] = "publish" /\ owed'[w] \in {Exchange, <<"assistant">>}
               \/ pc'[w] = "ack" /\ owed'[w] \in {<<"turns", "ok">>, <<"error">>}
               \/ pc'[w] = "ack" /\ owed'[w] = <<"ok">> /\ Job(w)' \in mirrored'
    <3>1. CASE w = p
      BY <1>4, <2>1, <3>1
    <3>2. CASE w # p
      BY <1>1, <2>1, <3>2 DEF OwedInOrder
    <3> QED
      BY <3>1, <3>2
  <2> QED
    BY <2>3, <2>4 DEF OwedInOrder
<1>6. owed'[p] \in Seq(Items)
  BY <1>3, <1>4, Owing DEF Processes
<1>7. owed' = [owed EXCEPT ![p] = owed'[p]]
  BY DEF RecordsTypeOK
<1> QED
  BY <1>5, <1>6, <1>7 DEF RecordsTypeOK

\* Every write keeps the invariant of the records.
LEMMA WriteInv ==
  ASSUME StreamInv, RecordsInv, NEW p \in Processes, Write(p) \/ WriteFails(p)
  PROVE  RecordsInv'
<1> USE DEF RecordsInv
<1>1. ~Free(p) /\ UNCHANGED <<pc, log, held>>
  BY DEF Write, WriteFails, vars, redisVars
<1>2. /\ JobOf(p) \in Deliveries /\ Head(owed[p]) \in Items
      /\ Head(owed[p]) = "ok" => JobOf(p) \in mirrored
  BY <1>1, OwingJob
<1>3. /\ history' \in Seq(Turns) /\ appended' \in Seq(Turns)
      /\ mirrored' \subseteq Deliveries /\ mirrored \subseteq mirrored'
      /\ rows' \in [Deliveries -> {"none", "ok", "error"}]
      /\ \A k \in Deliveries :
           rows'[k] = "ok" => rows[k] = "ok" \/ (k = JobOf(p) /\ Head(owed[p]) = "ok")
  <2>1. CASE Record(JobOf(p), Head(owed[p]))
    BY <1>2, <2>1, RecordEffect
  <2>2. CASE UNCHANGED <<history, appended, mirrored, rows>>
    BY <2>2 DEF RecordsTypeOK
  <2> QED
    BY <2>1, <2>2 DEF Write, WriteFails
<1>4. AnsweredRowHasTurns'
  BY <1>2, <1>3 DEF AnsweredRowHasTurns
<1>5. OwedInOrder' /\ owed' \in [Processes -> Seq(Items)]
  <2>1. CASE Write(p)
    <3>1. Head(owed[p]) = "turns" => JobOf(p) \in mirrored'
      BY <1>2, <2>1, RecordEffect DEF Write
    <3> QED
      BY <1>1, <1>3, <2>1, <3>1, WriteOrder DEF Write
  <2>2. CASE WriteFails(p)
    BY <1>1, <1>3, <2>2, WriteOrder DEF WriteFails
  <2> QED
    BY <2>1, <2>2
<1>6. lost' \subseteq Deliveries
  BY <1>2 DEF Write, WriteFails, RecordsTypeOK
<1> QED
  BY <1>3, <1>4, <1>5, <1>6 DEF RecordsTypeOK

\* A call owes what it owes; nobody else's debts change.
LEMMA CallInv ==
  ASSUME StreamInv, RecordsInv, NEW d \in Deliveries, CallMoves(d) \/ CallDies(d)
  PROVE  RecordsInv'
<1> USE DEF RecordsInv, RecordsTypeOK
<1>1. d \in Processes /\ (\A w \in Workers : w \in Processes /\ w # d)
  BY WorkersAssumption DEF Processes
<1>2. \A w \in Workers : pc'[w] = pc[w] /\ (pc[w] # "idle" => Job(w)' = Job(w))
  BY CallFrame DEF CallMoves, CallDies
<1>3. /\ owed' = [owed EXCEPT ![d] = owed'[d]]
      /\ owed'[d] \in {MirroredExchange, << >>}
  BY <1>1 DEF CallMoves, CallDies, OwedByCall
<1>4. \A q \in Processes \ {d} : owed'[q] = owed[q]
  BY <1>3
<1>5. UNCHANGED <<history, mirrored, rows, appended>> /\ lost' \subseteq Deliveries
  BY DEF CallMoves, CallDies, stored
<1>6. OwedInOrder'
  <2>1. \A e \in Deliveries : e \in Processes
    BY DEF Processes
  <2> QED
    BY <1>1, <1>2, <1>3, <1>4, <1>5, <2>1 DEF OwedInOrder
<1>7. RecordsTypeOK'
  BY <1>3, <1>5, Owing
<1> QED
  BY <1>5, <1>6, <1>7 DEF AnsweredRowHasTurns

\* A worker comes to owe turns at "publish" and rows at "ack".
LEMMA WorkerInv ==
  ASSUME StreamInv, RecordsInv, NEW w \in Workers, WorkerMoves(w) \/ WorkerDies(w)
  PROVE  RecordsInv'
<1> USE DEF RecordsInv, RecordsTypeOK
<1>1. w \in Processes
  BY DEF Processes
<1>2. \A v \in Workers \ {w} : pc'[v] = pc[v] /\ Job(v)' = Job(v)
  BY WorkerFrame DEF WorkerMoves, WorkerDies
<1>3. /\ owed' = [owed EXCEPT ![w] = owed'[w]]
      /\ \/ owed'[w] = << >>
         \/ pc'[w] = "publish" /\ owed'[w] = Exchange
         \/ pc'[w] = "ack" /\ owed'[w] \in {<<"turns", "ok">>, <<"error">>}
  BY <1>1 DEF WorkerMoves, WorkerDies, OwedByWorker, Settles
<1>4. \A q \in Processes \ {w} : owed'[q] = owed[q]
  BY <1>3
<1>5. UNCHANGED <<history, mirrored, rows, appended, lost>>
  BY DEF WorkerMoves, WorkerDies, stored
<1>6. OwedInOrder'
  <2>1. \A d \in Deliveries : d \in Processes /\ d # w
    BY WorkersAssumption DEF Processes
  <2>2. \A v \in Workers : v \in Processes
    BY DEF Processes
  <2>3. ASSUME NEW v \in Workers
        PROVE  \/ owed'[v] = << >>
               \/ pc'[v] = "publish" /\ owed'[v] \in {Exchange, <<"assistant">>}
               \/ pc'[v] = "ack" /\ owed'[v] \in {<<"turns", "ok">>, <<"error">>}
               \/ pc'[v] = "ack" /\ owed'[v] = <<"ok">> /\ Job(v)' \in mirrored'
    <3>1. CASE v = w
      BY <1>3, <3>1
    <3>2. CASE v # w
      BY <1>2, <1>4, <1>5, <2>2, <3>2 DEF OwedInOrder
    <3> QED
      BY <3>1, <3>2
  <2> QED
    BY <1>4, <2>1, <2>3 DEF OwedInOrder
<1>7. RecordsTypeOK'
  BY <1>3, <1>5, Owing
<1> QED
  BY <1>5, <1>6, <1>7 DEF AnsweredRowHasTurns

\* The expiry of a key, or no step at all, leaves every debt as it is.
LEMMA QuietInv ==
  ASSUME StreamInv, RecordsInv,
         SessionExpires \/ PendingExpires \/ UNCHANGED allVars
  PROVE  RecordsInv'
<1>1. UNCHANGED <<pc, held, log, owed, mirrored, rows, appended>>
  BY DEF SessionExpires, PendingExpires, Expire, allVars, vars, redisVars, recordVars
<1>2. history' \in Seq(Turns) /\ lost' \subseteq Deliveries
  <2>1. \A i \in 1..Len(appended) : appended[i].job \in Deliveries
    <3>1. appended \in Seq(Turns)
      BY DEF RecordsInv, RecordsTypeOK
    <3>2. \A i \in 1..Len(appended) : appended[i] \in Turns
      BY <3>1
    <3> QED
      BY <3>2 DEF Turns
  <2> QED
    BY <2>1, EmptySeq
       DEF SessionExpires, PendingExpires, allVars, recordVars, RecordsInv, RecordsTypeOK
<1> QED
  BY <1>1, <1>2
     DEF RecordsInv, RecordsTypeOK, OwedInOrder, AnsweredRowHasTurns, Job

\* Every variable of the records keeps its type, debts are paid in order, and
\* a job on record as answered has its turns on record (conversation.py:391-411).
THEOREM RecordsCorrect == RecordsSpec => []RecordsInv
<1>1. StreamInv /\ RecordsInv /\ [RecordsNext]_allVars => RecordsInv'
  BY WriteInv, CallInv, WorkerInv, QuietInv DEF RecordsNext
<1> QED
  BY <1>1, RecordsInitInv, RecordsKeepStream, PTL DEF RecordsSpec

\* The part of it a reader of the database relies on.
THEOREM AnsweredRowCorrect == RecordsSpec => []AnsweredRowHasTurns
<1>1. RecordsInv => AnsweredRowHasTurns
  BY DEF RecordsInv
<1> QED
  BY <1>1, RecordsCorrect, PTL

-----------------------------------------------------------------------------
(* Where answers go.                                                       *)

\* No record and no response but an answer carries an answer.
LEMMA AnswersCarried ==
  /\ AnswerIn(NoPending) = {} /\ AnswerIn(NoCall.write) = {}
  /\ \A j \in Jobs : AnswerIn(Processing(j)) = {} /\ AnswerIn(FailedReply(j)) = {}
  /\ \A j, r : AnswerIn(ReadyReply(j, r)) \subseteq {j}
               /\ AnswerIn(ReadyTail(j)) \subseteq {j}
               /\ AnswerIn(ImmediateFollowup(j, r)) \subseteq {j}
  /\ \A p \in Pending : AnswerIn(Delivered(p)) = AnswerIn(p)
  /\ \A n \in Notices : AnswerOf(Say(n)) = {}
  /\ \A j, t : AnswerOf(Tell(j, t)) = {j}
BY NoticesPlain
   DEF AnswerIn, AnswerOf, NoPending, NoCall, Processing, FailedReply, ReadyReply, ReadyTail,
       ImmediateFollowup, Delivered, PendingRecord, Pending, Tell

LEMMA ShelfGrows ==
  ASSUME NEW S, AnswerIn(slot') \subseteq S,
         \A d \in Deliveries : AnswerIn(seen'[d]) \subseteq S,
         \A k \in Deliveries : AnswerOf(idem'[k]) \subseteq S
  PROVE  Shelf' \subseteq S
<1>1. \A j \in Shelf' : \/ j \in AnswerIn(slot')
                        \/ \E d \in Deliveries : j \in AnswerIn(seen'[d])
                        \/ \E k \in Deliveries : j \in AnswerOf(idem'[k])
  BY DEF Shelf, AnswerIn, AnswerOf
<1> QED
  BY <1>1

LEMMA OnShelf ==
  ASSUME Typed
  PROVE  /\ AnswerIn(slot) \subseteq Shelf
         /\ \A d \in Deliveries : AnswerIn(seen[d]) \subseteq Shelf
         /\ \A k \in Deliveries : AnswerOf(idem[k]) \subseteq Shelf
<1>1. /\ slot \in Pending /\ \A d \in Deliveries : seen[d] \in Pending
      /\ \A k \in Deliveries : idem[k] \in Responses
  BY DEF Typed, TypeOK, RedisTypeOK, LocalTypeOK
<1>2. /\ \A p \in Pending : AnswerIn(p) \subseteq Deliveries \cup {NoJob}
      /\ \A r \in Responses : AnswerOf(r) \subseteq Deliveries \cup {NoJob}
  BY DEF AnswerIn, AnswerOf, Pending, Responses
<1> QED
  BY <1>1, <1>2 DEF Shelf

\* The steps of a call that read the record or the cache, or write them.
LEMMA CallAnswers ==
  ASSUME Typed, SpeechInv, NEW d \in Deliveries,
         Receive(d) \/ HandlerStep(d) \/ EnqueueFails(d) \/ Abort(d)
  PROVE  /\ Shelf' \subseteq Shelf \cup Hand(d)
         /\ Hand(d)' \subseteq Hand(d) \cup Shelf
              \cup {e \in {d} : pc[d] = "ask" /\ pc'[d] \in {"save", "keep"}}
         /\ \A e \in Deliveries : e # d => Hand(e)' = Hand(e)
<1> USE DEF localUnchanged, redisVars, boundVars
<1>1. /\ d \in Processes /\ KeyOf[d] \in Deliveries /\ kind[KeyOf[d]] \in Kinds
      /\ slot \in Pending /\ seen[d] \in Pending
      /\ pc[d] # "commit" => FitToBeAt(d, pc[d])
      /\ Shaped(seen[d])
  BY KeyOfAssumption
     DEF Typed, TypeOK, RedisTypeOK, LocalTypeOK, Processes, SpeechInv, Heading
<1>2. /\ \A l : [pc EXCEPT ![d] = l][d] = l
      /\ \A r : [resp EXCEPT ![d] = r][d] = r
      /\ \A c : [call EXCEPT ![d] = c][d] = c
      /\ \A r : \A k \in Deliveries : [idem EXCEPT ![KeyOf[d]] = r][k] \in {idem[k], r}
      /\ \A r : \A e \in Deliveries : [seen EXCEPT ![d] = r][e] \in {seen[e], r}
  BY <1>1 DEF Typed, TypeOK, RedisTypeOK, ControlTypeOK, LocalTypeOK, CallTypeOK, Processes
<1>3. Hand(d) = AnswerOf(resp[d]) \cup AnswerIn(call[d].write)
      /\ Hand(d)' = AnswerOf(resp'[d]) \cup AnswerIn(call'[d].write)
  BY DEF Hand, AnswerOf, AnswerIn
<1>4. \A e \in Deliveries : e # d => resp'[e] = resp[e] /\ call'[e] = call[e]
  BY <1>1
     DEF Typed, TypeOK, CallTypeOK, LocalTypeOK, Processes, Receive, HandlerStep, EnqueueFails,
         Abort, Load, Clear, Deliver, Advance, FastReply, FastPathFails, Keep, Offer, Defer,
         Recheck, Enqueue, Commit, Save, ReadThenWrite
<1>5. \A e \in Deliveries : e # d => Hand(e)' = Hand(e)
  BY <1>4 DEF Hand, AnswerOf, AnswerIn
<1> DEFINE told == {e \in {d} : pc[d] = "ask" /\ pc'[d] \in {"save", "keep"}}
<1> HIDE DEF told
<1> SUFFICES /\ Shelf' \subseteq Shelf \cup Hand(d)
             /\ Hand(d)' \subseteq Hand(d) \cup Shelf \cup told
  BY <1>5 DEF told
\* A step that leaves the shelf, and speaks and drafts as told.
<1>6. ASSUME UNCHANGED <<slot, seen, idem>>,
             AnswerOf(resp'[d]) \subseteq Hand(d) \cup Shelf,
             AnswerIn(call'[d].write) \subseteq Hand(d) \cup Shelf
      PROVE  Shelf' \subseteq Shelf \cup Hand(d) /\ Hand(d)' \subseteq Hand(d) \cup Shelf
  BY <1>3, <1>4, <1>6, OnShelf, ShelfGrows
<1>7. CASE Receive(d)
  <2>1. /\ resp' = [resp EXCEPT ![d] = idem[KeyOf[d]]]
        /\ UNCHANGED <<slot, seen, idem, call>>
    BY <1>7 DEF Receive
  <2>2. AnswerOf(resp'[d]) \subseteq Shelf
    BY <1>1, <1>2, <2>1, OnShelf
  <2> QED
    BY <1>2, <1>3, <1>6, <2>1, <2>2
<1>8. CASE Load(d)
  <2> DEFINE decision == Handle(kind[KeyOf[d]], slot)
  <2>1. Fits(slot, decision)
    BY <1>1, HandleFits
  <2>2. /\ resp' = [resp EXCEPT ![d] = decision.response]
        /\ seen' = [seen EXCEPT ![d] = slot]
        /\ UNCHANGED <<slot, idem, call>>
    BY <1>8 DEF Load
  <2> HIDE DEF decision
  <2>3. AnswerOf(resp'[d]) \subseteq Shelf
    <3>1. CASE resp'[d].say = "answer"
      <4>1. resp'[d] = Tell(slot.job, slot.text) /\ slot.text # "unset"
        BY <1>2, <2>1, <2>2, <3>1 DEF Fits, Tellable
      <4> QED
        BY <4>1, AnswersCarried, OnShelf DEF AnswerIn
    <3>2. CASE resp'[d].say # "answer"
      BY <3>2 DEF AnswerOf
    <3> QED
      BY <3>1, <3>2
  <2>4. Shelf' \subseteq Shelf
    <3>1. \A e \in Deliveries : AnswerIn(seen'[e]) \subseteq Shelf
      BY <1>2, <2>2, OnShelf
    <3> QED
      BY <2>2, <3>1, OnShelf, ShelfGrows
  <2> QED
    BY <1>2, <1>3, <1>4, <2>2, <2>3, <2>4
<1>9. ASSUME NEW STATE permitted, NEW STATE payload, NEW STATE next, NEW STATE onSkip,
             ReadThenWrite(d, permitted, payload, next, onSkip),
             AnswerIn(payload) \subseteq Hand(d) \cup Shelf
      PROVE  Shelf' \subseteq Shelf \cup Hand(d) /\ Hand(d)' \subseteq Hand(d) \cup Shelf
  <2>1. /\ UNCHANGED <<slot, seen, idem, resp>>
        /\ \/ call' = [call EXCEPT ![d] = [write |-> payload, next |-> next]]
           \/ call' = [call EXCEPT ![d] = NoCall]
    BY <1>9 DEF ReadThenWrite
  <2>2. AnswerIn(call'[d].write) \subseteq Hand(d) \cup Shelf
    BY <1>2, <1>9, <2>1, AnswersCarried
  <2>3. AnswerOf(resp'[d]) \subseteq Hand(d) \cup Shelf
    BY <1>3, <2>1
  <2> QED
    BY <1>6, <2>1, <2>2, <2>3
<1>10. CASE Clear(d)
  BY <1>9, <1>10, AnswersCarried DEF Clear
<1>11. CASE Deliver(d)
  <2>1. AnswerIn(Delivered(slot)) \subseteq Shelf
    BY <1>1, AnswersCarried, OnShelf
  <2> QED
    BY <1>9, <1>11, <2>1 DEF Deliver
<1>12. CASE Advance(d)
  <2>1. resp[d] = Tell(seen[d].job, seen[d].text)
    BY <1>1, <1>12 DEF Advance, FitToBeAt
  <2>2. AnswerIn(ReadyTail(seen[d].job)) \subseteq Hand(d)
    BY <1>3, <2>1, AnswersCarried
  <2> QED
    BY <1>9, <1>12, <2>2 DEF Advance
<1>13. ASSUME NEW reply \in Replies, FastReply(d, reply)
       PROVE  /\ Shelf' \subseteq Shelf \cup Hand(d)
              /\ Hand(d)' \subseteq Hand(d) \cup Shelf \cup told
  <2>1. /\ resp' = [resp EXCEPT ![d] = Tell(d, reply.text)] /\ pc[d] = "ask"
        /\ UNCHANGED <<slot, seen, idem>>
        /\ \E l \in {"save", "keep"} : pc' = [pc EXCEPT ![d] = l]
        /\ call' = call \/ call' = [call EXCEPT ![d].write = ImmediateFollowup(d, reply)]
    BY <1>13 DEF FastReply, Goto
  <2>2. d \in told
    <3>1. pc'[d] \in {"save", "keep"}
      BY <1>2, <2>1
    <3> QED
      BY <2>1, <3>1 DEF told
  <2>3. AnswerIn(call'[d].write) \subseteq AnswerIn(call[d].write) \cup {d}
    <3>1. call' = call \/ call'[d].write = ImmediateFollowup(d, reply)
      BY <1>1, <2>1 DEF Typed, TypeOK, CallTypeOK, Processes
    <3> QED
      BY <3>1, AnswersCarried
  <2>4. AnswerOf(resp'[d]) = {d}
    BY <1>2, <2>1, AnswersCarried
  <2>5. Shelf' \subseteq Shelf
    BY <2>1, OnShelf, ShelfGrows
  <2> QED
    BY <1>3, <2>2, <2>3, <2>4, <2>5
<1>14. CASE Keep(d)
  BY <1>3, <1>9, <1>14 DEF Keep
<1>15. CASE Offer(d)
  <2>1. AnswerIn(Delivered(slot)) \subseteq Shelf
    BY <1>1, AnswersCarried, OnShelf
  <2> QED
    BY <1>9, <1>15, <2>1 DEF Offer
<1>16. CASE Defer(d)
  <2>1. /\ slot' = Processing(d) \/ slot' = slot
        /\ UNCHANGED <<idem, seen, resp, call>>
    BY <1>16 DEF Defer
  <2>2. AnswerIn(slot') \subseteq Shelf
    BY <2>1, AnswersCarried, OnShelf DEF Jobs
  <2> QED
    BY <1>3, <1>4, <2>1, <2>2, OnShelf, ShelfGrows
<1>17. CASE FastPathFails(d) \/ Recheck(d) \/ Enqueue(d) \/ EnqueueFails(d)
  <2>1. /\ UNCHANGED <<slot, seen, idem, call>>
        /\ \/ resp' = resp
           \/ \E n \in Notices : resp' = [resp EXCEPT ![d] = Say(n)]
    BY <1>17 DEF FastPathFails, Recheck, Enqueue, EnqueueFails, Promise, Unavailable, Notices
  <2>2. AnswerOf(resp'[d]) \subseteq Hand(d) \cup Shelf
    BY <1>2, <1>3, <2>1, AnswersCarried
  <2>3. AnswerIn(call'[d].write) \subseteq Hand(d) \cup Shelf
    BY <1>3, <2>1
  <2> QED
    BY <1>6, <2>1, <2>2, <2>3
<1>18. CASE Commit(d)
  <2>1. /\ slot' = call[d].write /\ call' = [call EXCEPT ![d] = NoCall]
        /\ UNCHANGED <<idem, seen, resp>>
    BY <1>18 DEF Commit
  <2>2. call'[d] = NoCall
    BY <1>2, <2>1
  <2>3. AnswerIn(slot') \subseteq Hand(d)
    BY <1>3, <2>1
  <2>4. Shelf' \subseteq Shelf \cup Hand(d)
    BY <2>1, <2>3, OnShelf, ShelfGrows
  <2>5. Hand(d)' \subseteq Hand(d)
    BY <1>3, <2>1, <2>2, AnswersCarried
  <2> QED
    BY <1>4, <2>1, <2>2, <2>4, <2>5
<1>19. CASE Save(d) \/ Abort(d)
  <2>1. /\ UNCHANGED <<slot, seen>>
        /\ idem' = idem \/ idem' = [idem EXCEPT ![KeyOf[d]] = resp[d]]
        /\ resp' = resp \/ resp' = [resp EXCEPT ![d] = Unavailable]
        /\ call' = call \/ call' = [call EXCEPT ![d] = NoCall]
    BY <1>19 DEF Save, Abort
  <2>2. \A k \in Deliveries : idem'[k] \in {idem[k], resp[d]}
    BY <1>2, <2>1
  <2>3. \A k \in Deliveries : AnswerOf(idem'[k]) \subseteq Shelf \cup Hand(d)
    BY <1>3, <2>2, OnShelf
  <2>4. resp'[d] \in {resp[d], Unavailable} /\ call'[d] \in {call[d], NoCall}
    BY <1>2, <2>1
  <2>5. AnswerOf(Unavailable) = {}
    BY AnswersCarried DEF Unavailable, Notices
  <2>6. Hand(d)' \subseteq Hand(d)
    BY <1>3, <2>4, <2>5, AnswersCarried
  <2>7. Shelf' \subseteq Shelf \cup Hand(d)
    BY <2>1, <2>3, OnShelf, ShelfGrows
  <2> QED
    BY <1>4, <2>4, <2>6, <2>7
<1> QED
  BY <1>7, <1>8, <1>10, <1>11, <1>12, <1>13, <1>14, <1>15, <1>16, <1>17, <1>18, <1>19
     DEF HandlerStep

\* A worker puts the answer of its own job where calls find it, by a SET.
LEMMA WorkerAnswers ==
  ASSUME Typed, NEW w \in Workers, WorkerStep(w) \/ WorkerDrop(w) \/ WorkerError(w)
  PROVE  /\ Shelf' \subseteq Shelf
              \cup {j \in AnswerIn(call[w].write) : pc[w] = "commit" /\ slot' = call[w].write}
         /\ \A d \in Deliveries : Hand(d)' = Hand(d)
<1>1. /\ UNCHANGED <<idem, resp, seen>> /\ \A d \in Deliveries : call'[d] = call[d]
  BY WorkerAside
<1>2. \A d \in Deliveries : Hand(d)' = Hand(d)
  BY <1>1 DEF Hand, AnswerOf, AnswerIn
<1>3. slot' = slot \/ (pc[w] = "commit" /\ slot' = call[w].write)
  BY DEF WorkerStep, WorkerDrop, WorkerError, Read, Reclaim, Take, Check, Generate,
         GenerateFails, Publish, Fail, Commit, Ack, ReadThenWrite, workerMoves, redisVars
<1> DEFINE set ==
      {j \in AnswerIn(call[w].write) : pc[w] = "commit" /\ slot' = call[w].write}
<1>4. AnswerIn(slot') \subseteq Shelf \cup set
  BY <1>3, OnShelf
<1> HIDE DEF set
<1>5. Shelf' \subseteq Shelf \cup set
  BY <1>1, <1>4, OnShelf, ShelfGrows
<1> QED
  BY <1>2, <1>5 DEF set

-----------------------------------------------------------------------------
(* What has been told is remembered.                                       *)

\* The writes of the records leave what calls say alone.
LEMMA RecordsStepSpeech == StreamInv /\ SpeechInv /\ [RecordsNext]_allVars => SpeechInv'
<1> SUFFICES ASSUME StreamInv, SpeechInv, [RecordsNext]_allVars PROVE SpeechInv'
  OBVIOUS
<1>1. ASSUME NEW d \in Deliveries, CallMoves(d) \/ CallDies(d) PROVE SpeechInv'
  BY <1>1, StepSpeech DEF CallMoves, CallDies, Next
<1>2. ASSUME NEW w \in Workers, WorkerMoves(w) \/ WorkerDies(w) PROVE SpeechInv'
  BY <1>2, StepSpeech DEF WorkerMoves, WorkerDies, Next
<1>3. ASSUME NEW p \in Processes, Write(p) \/ WriteFails(p) PROVE SpeechInv'
  <2>1. UNCHANGED <<slot, idem, pc, seen, resp, call>>
    BY <1>3 DEF Write, WriteFails, vars, redisVars
  <2>2. HeadsOut' = HeadsOut
    BY <2>1 DEF HeadsOut
  <2> QED
    BY <2>1, <2>2 DEF SpeechInv, FitToBeAt, Heading, TellsItsOwn, Busy, Shaped
<1>4. CASE SessionExpires \/ PendingExpires
  BY <1>4, StepSpeech DEF SessionExpires, PendingExpires, Next
<1>5. CASE UNCHANGED allVars
  BY <1>5, StepSpeech DEF allVars
<1> QED
  BY <1>1, <1>2, <1>3, <1>4, <1>5 DEF RecordsNext

\* A process other than the one that moves.
LEMMA ProcessesApart == \A w \in Workers : \A d \in Deliveries :
  w # d /\ w \in Processes /\ d \in Processes
BY WorkersAssumption DEF Processes

\* Nothing that was appended is ever taken back.
LEMMA RememberedGrows ==
  ASSUME RecordsTypeOK, lost \subseteq lost',
         \/ UNCHANGED appended
         \/ \E t \in Turns : appended' = Append(appended, t)
  PROVE  Remembered \subseteq Remembered'
<1>1. \A k \in 1..Len(appended) : k \in 1..Len(appended') /\ appended'[k] = appended[k]
  <2>1. CASE UNCHANGED appended
    BY <2>1
  <2>2. ASSUME NEW t \in Turns, appended' = Append(appended, t)
        PROVE  \A k \in 1..Len(appended) :
                 k \in 1..Len(appended') /\ appended'[k] = appended[k]
    BY <2>2, SMT DEF RecordsTypeOK
  <2> QED
    BY <2>1, <2>2
<1> QED
  BY <1>1 DEF Remembered

\* An appended answer is remembered.
LEMMA AnswerAppended ==
  ASSUME RecordsTypeOK, NEW j \in Deliveries,
         AppendTurn([job |-> j, role |-> "assistant"])
  PROVE  j \in Remembered'
<1>1. /\ Len(appended) + 1 \in 1..Len(appended')
      /\ appended'[Len(appended) + 1] = [job |-> j, role |-> "assistant"]
  BY SMT DEF AppendTurn, RecordsTypeOK
<1> QED
  BY <1>1 DEF Remembered

\* RPUSH and LTRIM leave the end of what was appended.
LEMMA AppendRecent ==
  ASSUME RecordsTypeOK, HistoryIsRecent, lost \subseteq lost',
         NEW turn \in Turns, AppendTurn(turn)
  PROVE  HistoryIsRecent'
<1> DEFINE all == Append(appended, turn)
           now == Append(history, turn)
           gone == Len(appended) - Len(history)
<1>1. /\ Len(appended) \in Nat /\ Len(history) \in Nat /\ gone \in Nat
      /\ Len(all) = Len(appended) + 1 /\ Len(now) = Len(history) + 1
      /\ now \in Seq(Turns) /\ TurnLimit \in Nat
  BY TurnLimitAssumption, SMT DEF RecordsTypeOK, HistoryIsRecent
<1>2. \A i \in 1..Len(now) : now[i] = all[gone + i]
  <2>1. \A i \in 1..Len(history) : history[i] = appended[gone + i]
    BY DEF HistoryIsRecent
  <2>2. /\ \A i \in 1..Len(history) : now[i] = history[i] /\ gone + i \in 1..Len(appended)
        /\ \A i \in 1..Len(appended) : all[i] = appended[i]
        /\ now[Len(history) + 1] = turn /\ all[Len(appended) + 1] = turn
    BY <1>1, SMT DEF RecordsTypeOK
  <2> QED
    BY <1>1, <2>1, <2>2, SMT
<1>3. \A k \in 1..gone :
        \/ all[k].job \in lost'
        \/ TurnLimit > 0 /\ Len(all) - k >= TurnLimit
  <2>1. \A k \in 1..gone : all[k] = appended[k]
    BY <1>1, SMT DEF RecordsTypeOK
  <2>2. \A k \in 1..gone :
          \/ appended[k].job \in lost
          \/ TurnLimit > 0 /\ Len(appended) - k >= TurnLimit
    BY Zenon DEF HistoryIsRecent
  <2> QED
    BY <1>1, <2>1, <2>2, SMT
<1>4. appended' = all /\ history' = Trimmed(now)
  BY DEF AppendTurn
<1> HIDE DEF all, now, gone
<1>5. CASE TurnLimit = 0 \/ Len(now) <= TurnLimit
  <2>1. history' = now
    BY <1>4, <1>5 DEF Trimmed
  <2>2. Len(appended') - Len(history') = gone /\ gone >= 0
    BY <1>1, <1>4, <2>1, SMT DEF gone
  <2>3. \A i \in 1..Len(history') : history'[i] = appended'[gone + i]
    BY <1>2, <1>4, <2>1
  <2>4. \A k \in 1..gone :
          \/ appended'[k].job \in lost'
          \/ TurnLimit > 0 /\ Len(appended') - k >= TurnLimit
    BY <1>3, <1>4
  <2> QED
    BY <2>2, <2>3, <2>4, Zenon DEF HistoryIsRecent
<1>6. CASE ~(TurnLimit = 0 \/ Len(now) <= TurnLimit)
  <2> DEFINE first == Len(now) - TurnLimit + 1
  <2>1. history' = SubSeq(now, first, Len(now))
    BY <1>4, <1>6 DEF Trimmed
  <2>2. first \in 1..(Len(now) + 1) /\ Len(now) - first + 1 = TurnLimit /\ TurnLimit > 0
    BY <1>1, <1>6, SMT
  <2>3. /\ Len(history') = TurnLimit
        /\ \A i \in 1..TurnLimit : history'[i] = now[first + i - 1]
    BY <1>1, <2>1, <2>2, SubSeqProperties, SMT
  <2>4. \A i \in 1..TurnLimit : history'[i] = all[(Len(all) - TurnLimit) + i]
    <3>1. ASSUME NEW i \in 1..TurnLimit
          PROVE  /\ first + i - 1 \in 1..Len(now)
                 /\ gone + (first + i - 1) = (Len(all) - TurnLimit) + i
      BY <1>1, <1>6, SMT DEF gone
    <3> QED
      BY <1>2, <2>3, <3>1
  <2>5. Len(all) - TurnLimit >= 0 /\ \A k \in 1..(Len(all) - TurnLimit) :
          Len(all) - k >= TurnLimit
    BY <1>1, <1>6, SMT DEF gone
  <2> QED
    BY <1>4, <2>2, <2>3, <2>4, <2>5 DEF HistoryIsRecent
<1> QED
  BY <1>5, <1>6

\* A call leaves the labels, payloads and responses of others alone.
LEMMA CallElsewhere ==
  ASSUME Typed, NEW d \in Deliveries,
         Receive(d) \/ HandlerStep(d) \/ EnqueueFails(d) \/ Abort(d)
  PROVE  /\ \A q \in Processes : q # d => pc'[q] = pc[q] /\ call'[q] = call[q]
         /\ \A e \in Deliveries : e # d => resp'[e] = resp[e]
<1>1. \A l : \A q \in Processes : q # d => [pc EXCEPT ![d] = l][q] = pc[q]
  BY DEF Typed, TypeOK, ControlTypeOK
<1>2. \E l : pc' = [pc EXCEPT ![d] = l]
  BY DEF Receive, HandlerStep, EnqueueFails, Abort, Load, Clear, Deliver, Advance, FastReply,
         FastPathFails, Keep, Offer, Defer, Recheck, Enqueue, Commit, Save, ReadThenWrite, Goto
<1>3. \A q \in Processes : q # d => call'[q] = call[q]
  BY DEF Typed, TypeOK, CallTypeOK, Receive, HandlerStep, EnqueueFails, Abort, Load, Clear,
         Deliver, Advance, FastReply, FastPathFails, Keep, Offer, Defer, Recheck, Enqueue,
         Commit, Save, ReadThenWrite
<1>4. \A e \in Deliveries : e # d => resp'[e] = resp[e]
  BY DEF Typed, TypeOK, LocalTypeOK, Receive, HandlerStep, EnqueueFails, Abort, Load, Clear,
         Deliver, Advance, FastReply, FastPathFails, Keep, Offer, Defer, Recheck, Enqueue,
         Commit, Save, ReadThenWrite
<1> QED
  BY <1>1, <1>2, <1>3, <1>4

\* A call hands over answers that are remembered, or its own when it owes the
\* turns of it.
LEMMA CallMemory ==
  ASSUME StreamInv, RecordsInv, SpeechInv, MemoryInv,
         NEW d \in Deliveries, CallMoves(d) \/ CallDies(d)
  PROVE  MemoryInv'
<1>1. Typed /\ RecordsTypeOK
  BY DEF StreamInv, Typed, RecordsInv
<1>2. /\ Shelf' \subseteq Shelf \cup Hand(d)
      /\ Hand(d)' \subseteq Hand(d) \cup Shelf
           \cup {e \in {d} : pc[d] = "ask" /\ pc'[d] \in {"save", "keep"}}
      /\ \A e \in Deliveries : e # d => Hand(e)' = Hand(e)
  BY <1>1, CallAnswers DEF CallMoves, CallDies
<1>3. \A q \in Processes : q # d => pc'[q] = pc[q] /\ call'[q] = call[q]
  BY <1>1, CallElsewhere DEF CallMoves, CallDies
<1>4. \A q \in Processes : q # d => owed'[q] = owed[q]
  BY <1>1 DEF CallMoves, CallDies, RecordsTypeOK
<1>5. /\ UNCHANGED <<history, appended>> /\ lost \subseteq lost'
      /\ Remembered \subseteq Remembered'
  <2>1. UNCHANGED <<history, appended>> /\ lost \subseteq lost'
    BY DEF CallMoves, CallDies, stored
  <2> QED
    BY <1>1, <2>1, RememberedGrows
<1>6. \A w \in Workers : pc[w] # "idle" => Job(w)' = Job(w)
  BY CallFrame DEF CallMoves, CallDies
<1>7. Hand(d) \subseteq Remembered' /\ Shelf \subseteq Remembered'
  <2>1. CASE CallMoves(d)
    <3>1. Hand(d) \subseteq Remembered
      BY <2>1 DEF CallMoves, MemoryInv
    <3> QED
      BY <1>5, <3>1 DEF MemoryInv
  <2>2. CASE CallDies(d)
    <3>1. d \in Remembered'
      BY <2>2 DEF CallDies, Remembered
    <3> QED
      BY <1>5, <3>1 DEF MemoryInv
  <2> QED
    BY <2>1, <2>2
<1>8. ASSUME NEW e \in Deliveries
      PROVE  /\ ~Free(e)' => pc'[e] \in {"save", "keep"}
             /\ Hand(e)' \subseteq Remembered' \cup {x \in {e} : ~Free(e)'}
             /\ owed'[e] = <<"turns">> => e \in Remembered'
  <2>1. CASE e # d
    <3>1. owed'[e] = owed[e] /\ pc'[e] = pc[e] /\ Hand(e)' = Hand(e) /\ Free(e)' = Free(e)
      BY <1>2, <1>3, <1>4, <2>1, ProcessesApart DEF Free, Processes
    <3> QED
      BY <1>5, <3>1 DEF MemoryInv
  <2>2. CASE e = d
    <3>1. CASE pc[d] = "ask" /\ pc'[d] \in {"save", "keep"} /\ CallMoves(d)
      <4>1. owed'[d] = MirroredExchange
        BY <1>1, <3>1 DEF CallMoves, OwedByCall, RecordsTypeOK, Processes
      <4>2. MirroredExchange # << >> /\ MirroredExchange # <<"turns">>
        BY SMT DEF MirroredExchange
      <4>3. ~Free(d)'
        BY <4>1, <4>2 DEF Free
      <4> QED
        BY <1>2, <1>7, <2>2, <3>1, <4>1, <4>2, <4>3
    <3>2. CASE ~(pc[d] = "ask" /\ pc'[d] \in {"save", "keep"}) \/ CallDies(d)
      <4>1. owed'[d] = << >>
        BY <1>1, <3>2 DEF CallMoves, CallDies, OwedByCall, RecordsTypeOK, Processes
      <4>2. << >> # <<"turns">>
        BY SMT
      <4>3. Hand(d)' \subseteq Remembered'
        <5>1. CASE CallDies(d)
          <6>1. d \in Remembered'
            BY <5>1 DEF CallDies, Remembered
          <6> QED
            BY <1>2, <1>7, <6>1
        <5>2. CASE ~(pc[d] = "ask" /\ pc'[d] \in {"save", "keep"})
          BY <1>2, <1>7, <5>2
        <5> QED
          BY <3>2, <5>1, <5>2
      <4> QED
        BY <2>2, <4>1, <4>2, <4>3 DEF Free
    <3> QED
      BY <2>2, <3>1, <3>2
  <2> QED
    BY <2>1, <2>2
<1>9. ASSUME NEW w \in Workers
      PROVE  /\ pc'[w] = pc[w] /\ call'[w] = call[w] /\ owed'[w] = owed[w]
             /\ pc[w] \in {"publish", "commit"} => Job(w)' = Job(w)
  BY <1>3, <1>4, <1>6, ProcessesApart
<1>10. HistoryIsRecent'
  BY <1>5 DEF MemoryInv, HistoryIsRecent
<1> QED
  BY <1>2, <1>5, <1>7, <1>8, <1>9, <1>10 DEF MemoryInv, Free

\* Where a worker comes from, and what it holds, when it comes to write.
LEMMA WorkerArrives ==
  ASSUME Typed, NEW w \in Workers, pc[w] = "commit" => call[w].next = "ack",
         WorkerStep(w) \/ WorkerDrop(w) \/ WorkerError(w)
  PROVE  /\ pc'[w] = "publish" =>
              pc[w] = "generate" /\ \E r \in Replies : call'[w].write = ReadyReply(Job(w), r)
         /\ pc'[w] = "commit" =>
              /\ call'[w].next = "ack"
              /\ \/ pc[w] = "publish" /\ call'[w].write = call[w].write
                 \/ pc[w] = "fail" /\ call'[w].write = FailedReply(Job(w))
<1>1. /\ w \in Processes /\ pc \in [Processes -> HandlerLabels \cup WorkerLabels]
      /\ call \in [Processes -> [write: Pending, next: HandlerLabels \cup WorkerLabels]]
  BY DEF Typed, TypeOK, ControlTypeOK, CallTypeOK, Processes
<1>2. \A l : [pc EXCEPT ![w] = l][w] = l
  BY <1>1
<1>3. \A c : [call EXCEPT ![w] = c][w] = c
  BY <1>1
<1>4. ASSUME NEW l, l \notin {"publish", "commit"}, Goto(w, l)
      PROVE  pc'[w] \notin {"publish", "commit"}
  BY <1>2, <1>4 DEF Goto
<1>5. CASE \/ Read(w) \/ (\E i \in 1..Len(log) : Reclaim(w, i)) \/ Check(w) \/ GenerateFails(w)
           \/ Ack(w) \/ WorkerDrop(w) \/ WorkerError(w)
  BY <1>4, <1>5 DEF Read, Reclaim, Take, Check, GenerateFails, Ack, WorkerDrop, WorkerError
<1>6. CASE Commit(w)
  BY <1>2, <1>6 DEF Commit, Goto
<1>7. ASSUME NEW r \in Replies, Generate(w, r)
      PROVE  /\ pc[w] = "generate" /\ pc'[w] = "publish"
             /\ call'[w].write = ReadyReply(Job(w), r)
  BY <1>1, <1>2, <1>7 DEF Generate, Goto
<1>8. ASSUME NEW STATE permitted, NEW STATE payload,
             ReadThenWrite(w, permitted, payload, "ack", "ack")
      PROVE  /\ pc'[w] # "publish"
             /\ pc'[w] = "commit" => call'[w].next = "ack" /\ call'[w].write = payload
  <2>1. CASE Goto(w, "ack")
    BY <1>2, <2>1 DEF Goto
  <2>2. CASE Goto(w, "commit") /\ call' = [call EXCEPT ![w] = [write |-> payload, next |-> "ack"]]
    BY <1>2, <1>3, <2>2 DEF Goto
  <2> QED
    BY <1>8, <2>1, <2>2 DEF ReadThenWrite
<1>9. CASE Publish(w)
  BY <1>8, <1>9 DEF Publish
<1>10. CASE Fail(w)
  BY <1>8, <1>10 DEF Fail
<1> QED
  BY <1>5, <1>6, <1>7, <1>9, <1>10 DEF WorkerStep

\* A worker writes an answer only when it has appended it.
LEMMA WorkerMemory ==
  ASSUME StreamInv, RecordsInv, MemoryInv,
         NEW w \in Workers, WorkerMoves(w) \/ WorkerDies(w)
  PROVE  MemoryInv'
<1>1. /\ Typed /\ RecordsTypeOK /\ w \in Processes
      /\ WorkerStep(w) \/ WorkerDrop(w) \/ WorkerError(w)
  BY DEF StreamInv, Typed, RecordsInv, WorkerMoves, WorkerDies, Processes
<1>2. /\ \A q \in Processes : q # w => pc'[q] = pc[q] /\ call'[q] = call[q]
      /\ \A d \in Deliveries : pc'[d] = pc[d] /\ call'[d] = call[d]
  BY <1>1, WorkerAside
<1>3. \A q \in Processes : q # w => owed'[q] = owed[q]
  BY <1>1 DEF WorkerMoves, WorkerDies, RecordsTypeOK
<1>4. UNCHANGED <<history, appended, lost>> /\ Remembered' = Remembered
  BY DEF WorkerMoves, WorkerDies, stored, Remembered
<1>5. /\ Shelf' \subseteq Shelf
           \cup {j \in AnswerIn(call[w].write) : pc[w] = "commit" /\ slot' = call[w].write}
      /\ \A d \in Deliveries : Hand(d)' = Hand(d)
  BY <1>1, WorkerAnswers
<1>6. Shelf' \subseteq Remembered'
  <2>1. pc[w] = "commit" => AnswerIn(call[w].write) \subseteq Remembered
    BY DEF MemoryInv, AnswerIn
  <2> QED
    BY <1>4, <1>5, <2>1 DEF MemoryInv
<1>7. \A d \in Deliveries : owed'[d] = owed[d] /\ pc'[d] = pc[d] /\ Free(d)' = Free(d)
  BY <1>2, <1>3, ProcessesApart DEF Free
<1>8. /\ pc[w] = "commit" => call[w].next = "ack"
      /\ pc[w] \in {"publish", "commit"} /\ call[w].write.text # "unset" =>
           call[w].write.job = Job(w) /\ call[w].write.status = "ready"
      /\ pc[w] = "publish" /\ Free(w) => Job(w) \in Remembered
  BY DEF MemoryInv
<1>9. pc'[w] \in {"publish", "commit"} => Job(w)' = Job(w)
  <2>1. pc'[w] \in {"publish", "commit"} => pc[w] # "idle"
    BY <1>1, <1>8, WorkerArrives
  <2> QED
    BY <1>1, <2>1, WorkerFrame
<1>10. pc'[w] = "publish" =>
         call'[w].write.job = Job(w) /\ call'[w].write.status = "ready" /\ ~Free(w)'
  <2> SUFFICES ASSUME pc'[w] = "publish"
               PROVE  /\ call'[w].write.job = Job(w) /\ call'[w].write.status = "ready"
                      /\ ~Free(w)'
    OBVIOUS
  <2>1. pc[w] = "generate" /\ \E r \in Replies : call'[w].write = ReadyReply(Job(w), r)
    BY <1>1, <1>8, WorkerArrives
  <2>2. pc'[w] # "idle"
    OBVIOUS
  <2>3. WorkerMoves(w)
    BY <1>1, <2>2 DEF WorkerDies, WorkerDrop, Goto, Typed, TypeOK, ControlTypeOK
  <2>4. owed'[w] = Exchange
    <3>1. pc[w] = "generate" /\ pc'[w] = "publish" /\ ~Settles(w, "ready")
          /\ ~Settles(w, "failed") /\ pc[w] # "fail"
      BY <2>1 DEF Settles
    <3>2. OwedByWorker(w) = Exchange
      BY <3>1, Zenon DEF OwedByWorker
    <3>3. owed' = [owed EXCEPT ![w] = OwedByWorker(w)]
      BY <2>3 DEF WorkerMoves
    <3> QED
      BY <1>1, <3>2, <3>3 DEF RecordsTypeOK
  <2>5. Exchange # << >>
    BY SMT DEF Exchange
  <2> QED
    BY <2>1, <2>4, <2>5 DEF Free, ReadyReply, PendingRecord
<1>11. pc'[w] = "commit" /\ call'[w].write.text # "unset" =>
         /\ call'[w].write.job = Job(w) /\ call'[w].write.status = "ready"
         /\ Job(w) \in Remembered
  <2> SUFFICES ASSUME pc'[w] = "commit", call'[w].write.text # "unset"
               PROVE  /\ call'[w].write.job = Job(w) /\ call'[w].write.status = "ready"
                      /\ Job(w) \in Remembered
    OBVIOUS
  <2>1. pc[w] = "publish" /\ call'[w].write = call[w].write
    <3>1. FailedReply(Job(w)).text = "unset"
      BY DEF FailedReply, PendingRecord
    <3> QED
      BY <1>1, <1>8, <3>1, WorkerArrives
  <2>2. WorkerMoves(w)
    BY <1>1, <2>1 DEF WorkerDies, WorkerDrop, Goto, Typed, TypeOK, ControlTypeOK
  <2> QED
    BY <1>8, <2>1, <2>2 DEF WorkerMoves
<1>12. pc'[w] = "commit" => call'[w].next = "ack"
  BY <1>1, <1>8, WorkerArrives
<1>13. ASSUME NEW v \in Workers, v # w
       PROVE  /\ pc'[v] = pc[v] /\ call'[v] = call[v] /\ Free(v)' = Free(v)
              /\ Job(v)' = Job(v)
  BY <1>1, <1>2, <1>3, <1>13, WorkerFrame, ProcessesApart DEF Free, Processes
<1>14. HistoryIsRecent'
  BY <1>4 DEF MemoryInv, HistoryIsRecent
<1>15. ASSUME NEW v \in Workers
       PROVE  /\ pc'[v] = "commit" => call'[v].next = "ack"
              /\ pc'[v] \in {"publish", "commit"} /\ call'[v].write.text # "unset" =>
                   call'[v].write.job = Job(v)' /\ call'[v].write.status = "ready"
              /\ pc'[v] = "publish" /\ Free(v)' => Job(v)' \in Remembered'
              /\ pc'[v] = "commit" /\ call'[v].write.text # "unset" => Job(v)' \in Remembered'
  <2>1. CASE v = w
    BY <1>4, <1>9, <1>10, <1>11, <1>12, <2>1
  <2>2. CASE v # w
    BY <1>4, <1>13, <2>2 DEF MemoryInv
  <2> QED
    BY <2>1, <2>2
<1>16. \A d \in Deliveries :
         /\ ~Free(d)' => pc'[d] \in {"save", "keep"}
         /\ Hand(d)' \subseteq Remembered' \cup {e \in {d} : ~Free(d)'}
         /\ owed'[d] = <<"turns">> => d \in Remembered'
  BY <1>4, <1>5, <1>7 DEF MemoryInv
<1> QED
  BY <1>6, <1>14, <1>15, <1>16 DEF MemoryInv

\* The write of an answer makes it remembered, and one that fails lets it go.
LEMMA WriteMemory ==
  ASSUME StreamInv, RecordsInv, MemoryInv, NEW p \in Processes, Write(p) \/ WriteFails(p)
  PROVE  MemoryInv'
<1>1. /\ ~Free(p) /\ UNCHANGED <<slot, idem, log, pc, seen, resp, call, held>>
      /\ lost \subseteq lost' /\ RecordsTypeOK /\ OwedInOrder
  BY DEF Write, WriteFails, vars, redisVars, RecordsInv
<1>2. JobOf(p) \in Deliveries /\ Head(owed[p]) \in Items
  BY <1>1, OwingJob
<1>3. \A q \in Processes : q # p => owed'[q] = owed[q]
  BY <1>1 DEF Write, WriteFails, RecordsTypeOK
<1>4. Remembered \subseteq Remembered' /\ HistoryIsRecent'
  <2>1. CASE \E r \in Roles : AppendTurn([job |-> JobOf(p), role |-> r])
    <3>1. PICK t \in Turns : AppendTurn(t)
      BY <1>2, <2>1 DEF Turns
    <3>2. HistoryIsRecent'
      BY <1>1, <3>1, AppendRecent DEF MemoryInv
    <3> QED
      BY <1>1, <3>1, <3>2, RememberedGrows DEF AppendTurn
  <2>2. CASE UNCHANGED <<history, appended>>
    <3>1. HistoryIsRecent'
      BY <1>1, <2>2 DEF MemoryInv, HistoryIsRecent
    <3> QED
      BY <1>1, <2>2, <3>1, RememberedGrows
  <2>3. \/ \E r \in Roles : AppendTurn([job |-> JobOf(p), role |-> r])
        \/ UNCHANGED <<history, appended>>
    BY DEF Write, WriteFails, Record, PersistTurns, PersistJobResult
  <2> QED
    BY <2>1, <2>2, <2>3
<1>5. Shelf' = Shelf /\ \A d \in Deliveries : Hand(d)' = Hand(d)
  BY <1>1 DEF Shelf, Hand, AnswerIn, AnswerOf
\* An append that failed, or was of the answer itself.
<1>6. (WriteFails(p) /\ Head(owed[p]) \in Roles) \/ Head(owed[p]) = "assistant"
        => JobOf(p) \in Remembered'
  <2>1. CASE WriteFails(p) /\ Head(owed[p]) \in Roles
    BY <1>2, <2>1 DEF WriteFails, Remembered
  <2>2. CASE Write(p) /\ Head(owed[p]) = "assistant"
    <3>1. AppendTurn([job |-> JobOf(p), role |-> "assistant"])
      BY <2>2 DEF Write, Record
    <3> QED
      BY <1>1, <1>2, <3>1, AnswerAppended
  <2> QED
    BY <2>1, <2>2 DEF Roles
<1>7. owed'[p] = Tail(owed[p]) \/ WriteFails(p)
  BY <1>1 DEF Write, RecordsTypeOK
<1>8. ASSUME NEW d \in Deliveries
      PROVE  /\ ~Free(d)' => pc'[d] \in {"save", "keep"}
             /\ Hand(d)' \subseteq Remembered' \cup {e \in {d} : ~Free(d)'}
             /\ owed'[d] = <<"turns">> => d \in Remembered'
  <2>1. CASE d # p
    <3>1. Free(d)' = Free(d) /\ owed'[d] = owed[d] /\ pc'[d] = pc[d]
      BY <1>1, <1>3, <2>1 DEF Free, Processes
    <3> QED
      BY <1>4, <1>5, <3>1 DEF MemoryInv
  <2>2. CASE d = p
    <3>1. JobOf(p) = d
      BY <2>2 DEF JobOf
    <3>2. pc'[d] \in {"save", "keep"}
      BY <1>1, <2>2 DEF MemoryInv
    <3>3. owed[d] \in {MirroredExchange, <<"assistant", "turns">>, <<"turns">>}
      BY <1>1, <2>2 DEF OwedInOrder, Free
    <3>4. CASE \/ WriteFails(p) /\ Head(owed[p]) \in Roles
               \/ Head(owed[p]) = "assistant" \/ owed[p] = <<"turns">>
      <4>1. d \in Remembered'
        BY <1>4, <1>6, <2>2, <3>1, <3>4 DEF MemoryInv
      <4>2. Hand(d) \subseteq Remembered \cup {d}
        BY DEF MemoryInv
      <4> QED
        BY <1>4, <1>5, <3>2, <4>1, <4>2
    <3>5. CASE owed[p] = MirroredExchange /\ ~WriteFails(p)
      <4>1. owed'[d] = <<"assistant", "turns">>
        BY <1>7, <2>2, <3>5, OwedLeft
      <4>2. <<"assistant", "turns">> # << >> /\ <<"assistant", "turns">> # <<"turns">>
        BY SMT
      <4>3. ~Free(d)' /\ Hand(d) \subseteq Remembered \cup {d}
        BY <4>1, <4>2 DEF Free, MemoryInv
      <4> QED
        BY <1>4, <1>5, <3>2, <4>1, <4>2, <4>3
    <3>6. Head(<<"assistant", "turns">>) = "assistant" /\ Head(MirroredExchange) \in Roles
      BY OwedLeft DEF Roles
    <3> QED
      BY <2>2, <3>3, <3>4, <3>5, <3>6
  <2> QED
    BY <2>1, <2>2
<1>9. ASSUME NEW w \in Workers
      PROVE  /\ pc'[w] = "commit" => call'[w].next = "ack"
             /\ pc'[w] \in {"publish", "commit"} /\ call'[w].write.text # "unset" =>
                  call'[w].write.job = Job(w)' /\ call'[w].write.status = "ready"
             /\ pc'[w] = "publish" /\ Free(w)' => Job(w)' \in Remembered'
             /\ pc'[w] = "commit" /\ call'[w].write.text # "unset" => Job(w)' \in Remembered'
  <2>1. pc'[w] = pc[w] /\ call'[w] = call[w] /\ Job(w)' = Job(w)
    BY <1>1 DEF Job
  <2>2. pc'[w] = "publish" /\ Free(w)' => Job(w) \in Remembered'
    <3> SUFFICES ASSUME pc[w] = "publish", Free(w)' PROVE Job(w) \in Remembered'
      BY <2>1
    <3>1. CASE w # p
      <4>1. Free(w)
        BY <1>3, <3>1 DEF Free, Processes
      <4> QED
        BY <1>4, <4>1 DEF MemoryInv
    <3>2. CASE w = p
      <4>1. JobOf(p) = Job(w)
        BY <3>2, WorkersAssumption DEF JobOf
      <4>2. owed[p] \in {Exchange, <<"assistant">>}
        BY <1>1, <3>2 DEF OwedInOrder, Free
      <4>3. CASE Head(owed[p]) = "assistant" \/ (WriteFails(p) /\ Head(owed[p]) \in Roles)
        BY <1>6, <4>1, <4>3
      <4>4. CASE owed[p] = Exchange /\ ~WriteFails(p)
        <5>1. owed'[w] = <<"assistant">>
          BY <1>7, <3>2, <4>4, OwedLeft
        <5>2. <<"assistant">> # << >>
          BY SMT
        <5> QED
          BY <5>1, <5>2 DEF Free
      <4>5. Head(<<"assistant">>) = "assistant" /\ Head(Exchange) \in Roles
        BY OwedLeft DEF Items, Roles
      <4> QED
        BY <4>2, <4>3, <4>4, <4>5
    <3> QED
      BY <3>1, <3>2
  <2> QED
    BY <1>4, <2>1, <2>2 DEF MemoryInv
<1> QED
  BY <1>4, <1>5, <1>8, <1>9 DEF MemoryInv

\* So does the expiry of a key, which lets all go that was in the history.
LEMMA QuietMemory ==
  ASSUME StreamInv, RecordsInv, MemoryInv,
         SessionExpires \/ PendingExpires \/ UNCHANGED allVars
  PROVE  MemoryInv'
<1>1. /\ UNCHANGED <<pc, held, log, owed, appended, idem, seen, resp, call>>
      /\ slot' \in {slot, NoPending} /\ lost \subseteq lost'
      /\ RecordsTypeOK /\ Typed
  BY DEF SessionExpires, PendingExpires, Expire, allVars, vars, redisVars, recordVars,
         RecordsInv, StreamInv, Typed
<1>2. Remembered \subseteq Remembered'
  BY <1>1, RememberedGrows
<1>3. HistoryIsRecent'
  <2>1. CASE SessionExpires
    <3>1. /\ history' = << >> /\ Len(appended) \in Nat
          /\ \A k \in 1..Len(appended) : appended[k].job \in lost'
      BY <2>1 DEF SessionExpires, RecordsInv, RecordsTypeOK
    <3>2. Len(history') = 0
      BY <3>1
    <3>3. Len(appended) - 0 = Len(appended) /\ Len(appended) >= 0
      BY <3>1, SMT
    <3> QED
      BY <1>1, <3>1, <3>2, <3>3, SMT DEF HistoryIsRecent
  <2>2. CASE UNCHANGED <<history, lost>>
    BY <1>1, <2>2 DEF MemoryInv, HistoryIsRecent
  <2> QED
    BY <2>1, <2>2 DEF PendingExpires, allVars, recordVars
<1>4. Shelf' \subseteq Shelf
  <2>1. AnswerIn(slot') \subseteq Shelf
    BY <1>1, OnShelf, AnswersCarried
  <2> QED
    BY <1>1, <2>1, OnShelf, ShelfGrows
<1>5. \A d \in Deliveries : Hand(d)' = Hand(d) /\ Free(d)' = Free(d)
  BY <1>1 DEF Hand, AnswerIn, AnswerOf, Free
<1>6. \A w \in Workers : Job(w)' = Job(w) /\ Free(w)' = Free(w)
  BY <1>1 DEF Job, Free
<1> QED
  BY <1>1, <1>2, <1>3, <1>4, <1>5, <1>6 DEF MemoryInv

\* Nobody has answered, and nothing is in the history, at first.
LEMMA InitMemory == RecordsInit => MemoryInv
<1> SUFFICES ASSUME RecordsInit PROVE MemoryInv
  OBVIOUS
<1>1. /\ AnswerIn(NoPending) = {} /\ AnswerIn(NoCall.write) = {} /\ AnswerOf(Unsaid) = {}
  BY AnswersCarried DEF Unsaid, Notices
<1>2. Shelf = {}
  BY <1>1 DEF Shelf, RecordsInit, Init
<1>3. \A d \in Deliveries : Hand(d) = {} /\ Free(d) /\ owed[d] = << >>
  BY <1>1 DEF Hand, RecordsInit, Init, Free, Processes
<1>4. << >> # <<"turns">>
  BY SMT
<1>5. \A w \in Workers : pc[w] = "idle"
  BY DEF RecordsInit, Init, Processes
<1>6. HistoryIsRecent
  BY SMT DEF RecordsInit, HistoryIsRecent
<1> QED
  BY <1>2, <1>3, <1>4, <1>5, <1>6 DEF MemoryInv

\* Every answer is on record before anybody can read it, whatever fails,
\* overlaps or expires (conversation.py:121-125, 263).
THEOREM MemoryCorrect == RecordsSpec => []MemoryInv
<1>1. StreamInv /\ RecordsInv /\ SpeechInv /\ MemoryInv /\ [RecordsNext]_allVars => MemoryInv'
  BY CallMemory, WorkerMemory, WriteMemory, QuietMemory DEF RecordsNext
<1>2. RecordsInit => SpeechInv
  BY InitSpeech DEF RecordsInit
<1> QED
  BY <1>1, <1>2, InitMemory, RecordsStepSpeech, RecordsKeepStream, RecordsCorrect, PTL
     DEF RecordsSpec

\* What the user has been told is in the history, or as many turns as the list
\* keeps came after it (conversation.py:121-125, 263; stores.py:95-99).
THEOREM RememberedCorrect == RecordsSpec => []ToldIsRemembered
<1>1. MemoryInv /\ RecordsInv => ToldIsRemembered
  <2> SUFFICES ASSUME MemoryInv, RecordsInv, NEW j \in Deliveries, Told(j), j \notin lost
               PROVE  \E k \in 1..Len(appended) :
                        /\ appended[k] = [job |-> j, role |-> "assistant"]
                        /\ \/ \E i \in 1..Len(history) : history[i] = appended[k]
                           \/ TurnLimit > 0 /\ Len(appended) - k >= TurnLimit
    BY DEF ToldIsRemembered
  <2>1. PICK d \in Deliveries : Said(d) /\ resp[d].say = "answer" /\ resp[d].job = j
    BY DEF Told
  <2>2. j \in Hand(d) /\ Free(d)
    BY <2>1 DEF Hand, AnswerOf, MemoryInv, Said
  <2>3. j \in Remembered
    BY <2>2 DEF MemoryInv
  <2>4. PICK k \in 1..Len(appended) : appended[k] = [job |-> j, role |-> "assistant"]
    BY <2>3 DEF Remembered
  <2> DEFINE gone == Len(appended) - Len(history)
  <2>5. gone \in Int /\ Len(history) \in Nat /\ Len(appended) \in Nat
    BY SMT DEF RecordsInv, RecordsTypeOK
  <2>6. CASE k <= gone
    <3>1. TurnLimit > 0 /\ Len(appended) - k >= TurnLimit
      <4>1. k \in 1..gone
        BY <2>5, <2>6, SMT
      <4> QED
        BY <2>4, <4>1 DEF MemoryInv, HistoryIsRecent
    <3> QED
      BY <2>4, <3>1
  <2>7. CASE k > gone
    <3>1. k - gone \in 1..Len(history) /\ gone + (k - gone) = k
      BY <2>5, <2>7, SMT DEF MemoryInv, HistoryIsRecent
    <3>2. history[k - gone] = appended[k]
      BY <3>1 DEF MemoryInv, HistoryIsRecent
    <3> QED
      BY <2>4, <3>1, <3>2
  <2> QED
    BY <2>5, <2>6, <2>7, SMT
<1> QED
  BY <1>1, MemoryCorrect, RecordsCorrect, PTL

-----------------------------------------------------------------------------
(* A settled job is over.                                                  *)

\* What a call does to the stream, the record and the settled jobs.
LEMMA CallStores ==
  ASSUME StreamInv, NEW d \in Deliveries,
         Receive(d) \/ HandlerStep(d) \/ EnqueueFails(d) \/ Abort(d)
  PROVE  /\ UNCHANGED <<held, settled>>
         /\ log' = log \/ (pc[d] = "enqueue" /\ log' = Append(log, d))
         /\ \/ slot' = slot
            \/ pc[d] = "defer" /\ slot' = Processing(d)
            \/ pc[d] = "commit" /\ slot' = call[d].write /\ slot'.status # "processing"
<1>1. d \notin Workers /\ d \in Processes
  BY WorkersAssumption DEF Processes
<1>2. UNCHANGED <<held, settled>>
  BY <1>1 DEF Receive, HandlerStep, EnqueueFails, Abort, Load, Clear, Deliver, Advance,
       FastReply, FastPathFails, Keep, Offer, Defer, Recheck, Enqueue, Commit, Save,
       ReadThenWrite, localUnchanged, redisVars
<1>3. log' = log \/ (pc[d] = "enqueue" /\ log' = Append(log, d))
  BY DEF Receive, HandlerStep, EnqueueFails, Abort, Load, Clear, Deliver, Advance,
       FastReply, FastPathFails, Keep, Offer, Defer, Recheck, Enqueue, Commit, Save,
       ReadThenWrite, localUnchanged, redisVars
<1>4. \/ slot' = slot
      \/ pc[d] = "defer" /\ slot' = Processing(d)
      \/ pc[d] = "commit" /\ slot' = call[d].write
  BY DEF Receive, HandlerStep, EnqueueFails, Abort, Load, Clear, Deliver, Advance,
       FastReply, FastPathFails, Keep, Offer, Defer, Recheck, Enqueue, Commit, Save,
       ReadThenWrite, localUnchanged, redisVars
<1> QED
  BY <1>1, <1>2, <1>3, <1>4 DEF StreamInv, OnlyStartWritesProcessing

\* What a worker does to them.
LEMMA WorkerSettles ==
  ASSUME StreamInv, NEW w \in Workers, pc[w] = "commit" => call[w].next = "ack",
         WorkerStep(w) \/ WorkerDrop(w) \/ WorkerError(w)
  PROVE  \/ UNCHANGED <<slot, settled>>
         \/ /\ pc[w] = "commit" /\ slot' = call[w].write /\ slot'.status # "processing"
            /\ settled' = settled \cup {Job(w)} /\ pc'[w] \in {"ack", "fail"}
<1>1. w \in Processes /\ \A l : [pc EXCEPT ![w] = l][w] = l
  BY DEF StreamInv, TypeOK, ControlTypeOK, Processes
<1>2. call[w].write.status # "processing"
  BY <1>1 DEF StreamInv, OnlyStartWritesProcessing
<1>3. CASE Commit(w)
  BY <1>1, <1>2, <1>3 DEF Commit, Goto
<1>4. CASE WorkerError(w)
  BY <1>1, <1>2, <1>4 DEF WorkerError, Goto
<1>5. CASE ~Commit(w) /\ ~WorkerError(w)
  BY <1>5 DEF WorkerStep, WorkerDrop, Read, Reclaim, Take, Check, Generate, GenerateFails,
       Publish, Fail, Ack, ReadThenWrite, workerMoves, redisVars
<1> QED
  BY <1>3, <1>4, <1>5

\* A worker turns to a job only while its record is PROCESSING.
LEMMA AnsweringArrives ==
  ASSUME StreamInv, NEW w \in Workers, pc[w] = "commit" => call[w].next = "ack",
         WorkerStep(w) \/ WorkerDrop(w) \/ WorkerError(w), Answering(w)'
  PROVE  /\ Job(w)' = Job(w)
         /\ \/ pc[w] \in {"generate", "publish"}
            \/ pc[w] = "check" /\ slot = Processing(Job(w))
<1>1. Typed
  BY DEF StreamInv, Typed
<1>2. ASSUME pc'[w] = "generate"
      PROVE  pc[w] = "check" /\ slot = Processing(Job(w))
  <2>1. \A l : [pc EXCEPT ![w] = l][w] = l
    BY <1>1 DEF Typed, TypeOK, ControlTypeOK, Processes
  <2>2. ASSUME NEW l, l # "generate", Goto(w, l) PROVE FALSE
    BY <1>2, <2>1, <2>2 DEF Goto
  <2>3. ~Commit(w)
    BY <1>2, <2>1 DEF Commit, Goto
  <2> QED
    BY <2>2, <2>3 DEF WorkerStep, WorkerDrop, WorkerError, Read, Reclaim, Take, Check,
         Generate, GenerateFails, Publish, Fail, Ack, ReadThenWrite
<1>3. FailedReply(Job(w)).status = "failed"
  BY DEF FailedReply, PendingRecord
<1>4. \/ pc[w] \in {"generate", "publish"}
      \/ pc[w] = "check" /\ slot = Processing(Job(w))
  BY <1>1, <1>2, <1>3, WorkerArrives DEF Answering
<1>5. pc[w] # "idle" /\ pc'[w] # "idle"
  BY <1>4 DEF Answering
<1> QED
  BY <1>4, <1>5, WorkerFrame

\* An entry of the stream has at most one worker.
LEMMA WorkerHolds ==
  ASSUME StreamInv, OneHolder, "early_reclaim" \notin Hazards,
         NEW w \in Workers, WorkerStep(w) \/ WorkerDrop(w) \/ WorkerError(w)
  PROVE  OneHolder'
<1>1. /\ w \in Processes /\ Typed /\ held \in [Workers -> Nat]
      /\ pc \in [Processes -> HandlerLabels \cup WorkerLabels]
  BY DEF StreamInv, Typed, TypeOK, ControlTypeOK, LocalTypeOK, Processes
<1>2. UNCHANGED log
  BY <1>1, WorkerAside
<1>3. \A v \in Workers : v # w => pc'[v] = pc[v] /\ held'[v] = held[v]
  <2>1. \A v \in Workers : v # w => pc'[v] = pc[v]
    BY <1>1, WorkerFrame
  <2>2. \A v \in Workers : v # w => held'[v] = held[v]
    BY <1>1 DEF WorkerStep, WorkerDrop, WorkerError, Read, Reclaim, Take, Check, Generate,
         GenerateFails, Publish, Fail, Commit, Ack, ReadThenWrite, workerMoves
  <2> QED
    BY <2>1, <2>2
<1>4. ASSUME NEW v \in Workers, v # w, pc[v] # "idle", pc'[w] # "idle"
      PROVE  held'[w] # held[v]
  <2>1. CASE Read(w)
    <3>1. held'[w] = cursor + 1
      BY <1>1, <2>1 DEF Read, Take
    <3>2. held[v] \in 1..cursor /\ cursor \in Nat
      BY <1>4, SMT DEF StreamInv, HeldEntryIsGiven, TypeOK, RedisTypeOK
    <3> QED
      BY <3>1, <3>2, SMT
  <2>2. ASSUME NEW i \in 1..Len(log), Reclaim(w, i)
        PROVE  held'[w] # held[v]
    <3>1. held'[w] = i
      BY <1>1, <2>2 DEF Reclaim, Take
    <3> QED
      BY <2>2, <3>1 DEF Reclaim
  <2>3. CASE pc[w] # "idle"
    <3>1. UNCHANGED held
      <4>1. \A l : [pc EXCEPT ![w] = l][w] = l
        BY <1>1
      <4> QED
        BY <1>4, <2>3, <4>1 DEF WorkerStep, WorkerDrop, WorkerError, Read, Reclaim, Take, Check,
             Generate, GenerateFails, Publish, Fail, Commit, Ack, ReadThenWrite, workerMoves,
             Goto
    <3> QED
      BY <1>4, <2>3, <3>1 DEF OneHolder
  <2>4. CASE pc[w] = "idle" /\ ~Read(w) /\ ~\E i \in 1..Len(log) : Reclaim(w, i)
    BY <2>4 DEF WorkerStep, WorkerDrop, WorkerError, Check, Generate, GenerateFails, Publish,
         Fail, Commit, Ack
  <2> QED
    BY <2>1, <2>2, <2>3, <2>4
<1>5. ASSUME NEW u \in Workers, NEW v \in Workers, pc'[u] # "idle", pc'[v] # "idle",
             held'[u] = held'[v]
      PROVE  u = v
  <2>1. CASE u # w /\ v # w
    BY <1>3, <1>5, <2>1 DEF OneHolder
  <2>2. CASE u = w \/ v = w
    BY <1>3, <1>4, <1>5, <2>2
  <2> QED
    BY <2>1, <2>2
<1> QED
  BY <1>2, <1>5 DEF OneHolder

\* Two workers that are busy are busy with different jobs.
LEMMA JobsApart ==
  ASSUME StreamInv, OneHolder, NEW v \in Workers, NEW w \in Workers,
         pc[v] # "idle", pc[w] # "idle", Job(v) = Job(w)
  PROVE  v = w
<1>1. held[v] \in 1..Len(log) /\ held[w] \in 1..Len(log)
  BY SMT DEF StreamInv, HeldEntryIsGiven, TypeOK, RedisTypeOK
<1> QED
  BY <1>1 DEF OneHolder, Job

\* A worker does not reopen a job that is over.
LEMMA WorkerCloses ==
  ASSUME StreamInv, MemoryInv,
         NEW w \in Workers, WorkerStep(w) \/ WorkerDrop(w) \/ WorkerError(w),
         NEW j, Closed(j)
  PROVE  Closed(j)'
<1>1. Typed /\ (pc[w] = "commit" => call[w].next = "ack")
  BY DEF StreamInv, Typed, MemoryInv
<1>2. Queued' = Queued
  BY <1>1, WorkerAside DEF Queued
<1>3. \A v \in Workers : v # w => Job(v)' = Job(v) /\ Answering(v)' = Answering(v)
  <2>1. \A v \in Workers : v # w => pc'[v] = pc[v] /\ Job(v)' = Job(v) /\ call'[v] = call[v]
    BY <1>1, WorkerFrame, WorkerAside DEF Processes
  <2> QED
    BY <2>1 DEF Answering
<1>4. slot' # Processing(j)
  BY <1>1, WorkerSettles DEF Closed, Processing, PendingRecord
<1>5. Answering(w)' => Job(w)' # j
  BY <1>1, AnsweringArrives DEF Closed, Answering
<1> QED
  BY <1>2, <1>3, <1>4, <1>5 DEF Closed

\* A job that a worker settles is over.
LEMMA WorkerSettled ==
  ASSUME StreamInv, MemoryInv, SettledInv, "early_reclaim" \notin Hazards,
         NEW w \in Workers, WorkerStep(w) \/ WorkerDrop(w) \/ WorkerError(w)
  PROVE  SettledInv'
<1>1. Typed /\ (pc[w] = "commit" => call[w].next = "ack")
  BY DEF StreamInv, Typed, MemoryInv
<1>2. OneHolder'
  BY WorkerHolds DEF SettledInv
<1>3. Queued' = Queued
  BY <1>1, WorkerAside DEF Queued
<1>4. \A v \in Workers : v # w => Job(v)' = Job(v) /\ Answering(v)' = Answering(v)
  <2>1. \A v \in Workers : v # w => pc'[v] = pc[v] /\ Job(v)' = Job(v) /\ call'[v] = call[v]
    BY <1>1, WorkerFrame, WorkerAside DEF Processes
  <2> QED
    BY <2>1 DEF Answering
<1>5. ASSUME NEW j \in settled
      PROVE  Closed(j)'
  BY WorkerCloses DEF SettledInv
<1>6. ASSUME settled' = settled \cup {Job(w)}, pc[w] = "commit",
             slot'.status # "processing", pc'[w] \in {"ack", "fail"}, NEW j, j = Job(w)
      PROVE  Closed(j)'
  <2>1. held[w] \in 1..Len(log) /\ UNCHANGED log /\ Job(w)' = Job(w)
    <3>1. held[w] \in 1..Len(log)
      BY <1>6, SMT DEF StreamInv, HeldEntryIsGiven, TypeOK, RedisTypeOK
    <3> QED
      BY <1>1, <1>6, <3>1, WorkerFrame, WorkerAside
  <2>2. Job(w) \in Queued
    BY <2>1 DEF Queued, Job
  <2>3. slot' # Processing(Job(w))
    BY <1>6 DEF Processing, PendingRecord
  <2>4. \A v \in Workers : Answering(v)' => Job(v)' # Job(w)
    <3>1. ~Answering(w)'
      BY <1>6 DEF Answering
    <3>2. ASSUME NEW v \in Workers, v # w, Answering(v) PROVE Job(v) # Job(w)
      <4>1. pc[v] # "idle" /\ pc[w] # "idle"
        BY <1>6, <3>2 DEF Answering
      <4> QED
        BY <3>2, <4>1, JobsApart DEF SettledInv
    <3> QED
      BY <1>4, <3>1, <3>2
  <2> QED
    BY <1>3, <1>6, <2>2, <2>3, <2>4 DEF Closed
<1>7. \A j \in settled' : Closed(j)'
  <2>1. CASE UNCHANGED settled
    BY <1>5, <2>1
  <2>2. CASE ~UNCHANGED settled
    <3>1. /\ settled' = settled \cup {Job(w)} /\ pc[w] = "commit"
          /\ slot'.status # "processing" /\ pc'[w] \in {"ack", "fail"}
      BY <1>1, <2>2, WorkerSettles
    <3>2. \A j : j = Job(w) => Closed(j)'
      BY <1>6, <3>1
    <3>3. \A j \in settled : Closed(j)'
      BY <1>5
    <3> QED
      BY <3>1, <3>2, <3>3, Zenon
  <2> QED
    BY <2>1, <2>2
<1> QED
  BY <1>2, <1>7 DEF SettledInv

\* A call that is about to open or to queue its job has not queued it yet.
LEMMA NotYetQueued ==
  ASSUME StreamInv, SpeechInv, NEW d \in Deliveries, resp[d] = Unsaid
  PROVE  d \notin Queued
<1>1. Unsaid # Unavailable
  BY DEF Unsaid, Unavailable, Say
<1>2. pc[d] \notin {"save", "done"}
  BY DEF SpeechInv, Heading, FitToBeAt
<1> QED
  BY <1>1, <1>2 DEF StreamInv, StreamedJobIsStarted

\* Nor does a call reopen it.
LEMMA CallCloses ==
  ASSUME StreamInv, SpeechInv,
         NEW d \in Deliveries, Receive(d) \/ HandlerStep(d) \/ EnqueueFails(d) \/ Abort(d),
         NEW j, Closed(j)
  PROVE  Closed(j)'
<1>1. Typed /\ log \in Seq(Deliveries)
  BY DEF StreamInv, Typed, TypeOK, RedisTypeOK
<1>2. pc[d] = "defer" => d \notin Queued
  BY NotYetQueued DEF SpeechInv, Heading, FitToBeAt
<1>3. \A w \in Workers :
        pc'[w] = pc[w] /\ call'[w] = call[w] /\ (pc[w] # "idle" => Job(w)' = Job(w))
  BY <1>1, CallFrame, CallElsewhere, ProcessesApart
<1>4. \A w \in Workers : Answering(w)' = Answering(w) /\ (Answering(w) => Job(w)' = Job(w))
  BY <1>3 DEF Answering
<1>5. \A i \in 1..Len(log) : i \in 1..Len(log') /\ log'[i] = log[i]
  <2>1. CASE log' = log
    BY <2>1
  <2>2. CASE log' = Append(log, d)
    BY <1>1, <2>2, SMT
  <2> QED
    BY <2>1, <2>2, CallStores
<1>6. Queued \subseteq Queued'
  BY <1>5 DEF Queued
<1>7. slot' # Processing(j)
  <2>1. CASE slot' = slot
    BY <2>1 DEF Closed
  <2>2. CASE pc[d] = "defer" /\ slot' = Processing(d)
    BY <1>2, <2>2 DEF Closed, Processing, PendingRecord
  <2>3. CASE slot'.status # "processing"
    BY <2>3 DEF Processing, PendingRecord
  <2> QED
    BY <2>1, <2>2, <2>3, CallStores
<1> QED
  BY <1>4, <1>6, <1>7 DEF Closed

\* A call queues its job once, and opens no job that is queued already.
LEMMA CallSettled ==
  ASSUME StreamInv, SpeechInv, SettledInv,
         NEW d \in Deliveries, Receive(d) \/ HandlerStep(d) \/ EnqueueFails(d) \/ Abort(d)
  PROVE  SettledInv'
<1>1. /\ Typed /\ log \in Seq(Deliveries)
  BY DEF StreamInv, Typed, TypeOK, RedisTypeOK
<1>2. pc[d] = "enqueue" => d \notin Queued
  BY NotYetQueued DEF SpeechInv, Heading, FitToBeAt
<1>3. \A w \in Workers :
        pc'[w] = pc[w] /\ call'[w] = call[w] /\ (pc[w] # "idle" => Job(w)' = Job(w))
  BY <1>1, CallFrame, CallElsewhere, ProcessesApart
<1>4. \A i \in 1..Len(log) : i \in 1..Len(log') /\ log'[i] = log[i]
  <2>1. CASE log' = log
    BY <2>1
  <2>2. CASE log' = Append(log, d)
    BY <1>1, <2>2, SMT
  <2> QED
    BY <2>1, <2>2, CallStores
<1>5. ASSUME NEW i \in 1..Len(log'), NEW j \in 1..Len(log'), log'[i] = log'[j]
      PROVE  i = j
  <2>1. CASE log' = log
    BY <1>5, <2>1 DEF SettledInv, OneHolder
  <2>2. CASE pc[d] = "enqueue" /\ log' = Append(log, d)
    <3>1. \A k \in 1..Len(log) : log[k] # d
      BY <1>2, <2>2 DEF Queued
    <3>2. Len(log') = Len(log) + 1 /\ log'[Len(log) + 1] = d /\ Len(log) \in Nat
      BY <1>1, <2>2, AppendProperties
    <3>3. \A n \in Nat : \A k \in 1..(n + 1) : k \in 1..n \/ k = n + 1
      BY SMT
    <3>4. /\ i \in 1..Len(log) \/ i = Len(log) + 1
          /\ j \in 1..Len(log) \/ j = Len(log) + 1
      BY <3>2, <3>3
    <3>5. \A k, l \in 1..Len(log) : log[k] = log[l] => k = l
      BY DEF SettledInv, OneHolder
    <3>6. \A k \in 1..Len(log) : log'[k] = log[k] /\ log'[k] # d
      BY <1>4, <3>1
    <3>7. CASE i \in 1..Len(log) /\ j \in 1..Len(log)
      BY <1>5, <3>5, <3>6, <3>7
    <3> QED
      BY <1>5, <3>2, <3>4, <3>6, <3>7
  <2>3. log' = log \/ (pc[d] = "enqueue" /\ log' = Append(log, d))
    BY CallStores
  <2> QED
    BY <2>1, <2>2, <2>3
<1>6. OneHolder'
  BY <1>3, <1>5, CallStores DEF SettledInv, OneHolder
<1>7. \A j \in settled : Closed(j)'
  BY CallCloses DEF SettledInv
<1> QED
  BY <1>6, <1>7, CallStores DEF SettledInv

LEMMA QuietSettled ==
  ASSUME SettledInv, UNCHANGED <<log, pc, call, held, settled>>, slot' \in {slot, NoPending}
  PROVE  SettledInv'
<1>1. \A j : NoPending # Processing(j)
  BY DEF NoPending, Processing, PendingRecord
<1> QED
  BY <1>1 DEF SettledInv, OneHolder, Closed, Answering, Queued, Job

\* Once its outcome is written, nobody works on a job any more, unless an entry
\* is reclaimed from a worker that is still busy with it.
THEOREM SettledCorrect == "early_reclaim" \notin Hazards => (RecordsSpec => []SettledInv)
<1> SUFFICES ASSUME "early_reclaim" \notin Hazards PROVE RecordsSpec => []SettledInv
  OBVIOUS
<1>1. RecordsInit => SettledInv
  BY SMT DEF RecordsInit, Init, SettledInv, OneHolder, Processes
<1>2. StreamInv /\ SpeechInv /\ MemoryInv /\ SettledInv /\ [RecordsNext]_allVars => SettledInv'
  <2> SUFFICES ASSUME StreamInv, SpeechInv, MemoryInv, SettledInv, [RecordsNext]_allVars
               PROVE  SettledInv'
    OBVIOUS
  <2>1. ASSUME NEW d \in Deliveries, CallMoves(d) \/ CallDies(d) PROVE SettledInv'
    BY <2>1, CallSettled DEF CallMoves, CallDies
  <2>2. ASSUME NEW w \in Workers, WorkerMoves(w) \/ WorkerDies(w) PROVE SettledInv'
    BY <2>2, WorkerSettled DEF WorkerMoves, WorkerDies
  <2>3. ASSUME NEW p \in Processes, Write(p) \/ WriteFails(p) PROVE SettledInv'
    BY <2>3, QuietSettled DEF Write, WriteFails, vars, redisVars
  <2>4. CASE SessionExpires \/ PendingExpires \/ UNCHANGED allVars
    BY <2>4, QuietSettled
       DEF SessionExpires, PendingExpires, Expire, allVars, vars, redisVars
  <2> QED
    BY <2>1, <2>2, <2>3, <2>4 DEF RecordsNext
<1>3. RecordsInit => SpeechInv
  BY InitSpeech DEF RecordsInit
<1>4. RecordsSpec => []SpeechInv
  BY <1>3, RecordsStepSpeech, RecordsKeepStream, PTL DEF RecordsSpec
<1> QED
  BY <1>1, <1>2, <1>4, RecordsKeepStream, MemoryCorrect, PTL DEF RecordsSpec

\* A job whose outcome is written adds nothing to the history: an entry that is
\* delivered again is skipped (conversation.py:243-256).
THEOREM SettledAddsNothing ==
  "early_reclaim" \notin Hazards => (RecordsSpec => SettledJobAddsNothing)
<1>1. RecordsInv /\ SettledInv =>
        \A p \in Workers : Write(p) /\ Head(owed[p]) \in Roles => Job(p) \notin settled
  <2> SUFFICES ASSUME RecordsInv, SettledInv, NEW p \in Workers,
                      Write(p), Head(owed[p]) \in Roles, Job(p) \in settled
               PROVE  FALSE
    OBVIOUS
  <2>1. pc[p] = "publish"
    <3>1. /\ Head(<<"turns", "ok">>) \notin Roles /\ Head(<<"error">>) \notin Roles
          /\ Head(<<"ok">>) \notin Roles
      BY OwedLeft DEF Items, Roles
    <3> QED
      BY <3>1 DEF RecordsInv, OwedInOrder, Write, Free
  <2>2. Closed(Job(p))
    BY DEF SettledInv
  <2> QED
    BY <2>1, <2>2 DEF Closed, Answering
<1>2. CASE "early_reclaim" \notin Hazards
  BY <1>1, <1>2, SettledCorrect, RecordsCorrect, PTL DEF SettledJobAddsNothing
<1> QED
  BY <1>2

-----------------------------------------------------------------------------
(* A failed job is answered nowhere.                                       *)

\* A call answers no job but its own, and that only when it asks.
LEMMA CallLeavesUnanswered ==
  ASSUME StreamInv, SpeechInv,
         NEW d \in Deliveries, Receive(d) \/ HandlerStep(d) \/ EnqueueFails(d) \/ Abort(d),
         NEW j, Unanswered(j), j # d \/ pc[d] # "ask" \/ pc'[d] \notin {"save", "keep"}
  PROVE  Unanswered(j)'
<1>1. Typed
  BY DEF StreamInv, Typed
<1>2. /\ Shelf' \subseteq Shelf \cup Hand(d)
      /\ Hand(d)' \subseteq Hand(d) \cup Shelf
           \cup {e \in {d} : pc[d] = "ask" /\ pc'[d] \in {"save", "keep"}}
      /\ \A e \in Deliveries : e # d => Hand(e)' = Hand(e)
  BY <1>1, CallAnswers
<1> QED
  BY <1>2 DEF Unanswered

\* A queued job is not at the point where its call asks, nor is one that is
\* being prepared.
LEMMA BeyondAsking ==
  ASSUME StreamInv, SpeechInv, NEW j \in Deliveries,
         j \in Queued \/ slot = Processing(j) \/ resp[j] # Unsaid
  PROVE  pc[j] # "ask"
<1>1. pc[j] = "ask" => resp[j] = Unsaid /\ j \notin Queued
  BY NotYetQueued DEF SpeechInv, Heading, FitToBeAt
<1>2. Unsaid # Unavailable
  BY DEF Unsaid, Unavailable, Say
<1> QED
  BY <1>1, <1>2 DEF StreamInv, OrphanOnlyByFailure

\* A worker answers no job but its own, and that by a SET.
LEMMA WorkerLeavesUnanswered ==
  ASSUME StreamInv, MemoryInv,
         NEW w \in Workers, WorkerStep(w) \/ WorkerDrop(w) \/ WorkerError(w),
         NEW j, Unanswered(j), j # Job(w) \/ ~Answering(w) \/ slot' = slot
  PROVE  Unanswered(j)'
<1>1. Typed
  BY DEF StreamInv, Typed
<1>2. /\ Shelf' \subseteq Shelf
           \cup {k \in AnswerIn(call[w].write) : pc[w] = "commit" /\ slot' = call[w].write}
      /\ \A d \in Deliveries : Hand(d)' = Hand(d)
  BY <1>1, WorkerAnswers
<1>3. pc[w] = "commit" /\ j \in AnswerIn(call[w].write) => j = Job(w) /\ Answering(w)
  BY DEF MemoryInv, AnswerIn, Answering
<1>4. slot' = slot => AnswerIn(slot') \subseteq Shelf
  BY <1>1, OnShelf
<1> QED
  BY <1>2, <1>3, <1>4 DEF Unanswered

\* What was said of a call that has decided nothing stays undecided or ends it.
LEMMA UndecidedBefore ==
  ASSUME StreamInv, SpeechInv,
         NEW d \in Deliveries, Receive(d) \/ HandlerStep(d) \/ EnqueueFails(d) \/ Abort(d),
         resp'[d] = Unsaid
  PROVE  resp[d] = Unsaid /\ ~(pc[d] = "ask" /\ pc'[d] \in {"save", "keep"})
<1>1. /\ \A r : [resp EXCEPT ![d] = r][d] = r
      /\ \A l : [pc EXCEPT ![d] = l][d] = l
      /\ d \notin Workers
  BY WorkersAssumption
     DEF StreamInv, TypeOK, LocalTypeOK, ControlTypeOK, Processes
<1>2. pc[d] \in {"idle", "load"} => resp[d] = Unsaid
  BY DEF SpeechInv, Heading, FitToBeAt
<1>3. /\ Unsaid # Unavailable /\ Unsaid # Promise
      /\ \A j, t : Tell(j, t) # Unsaid
  BY NoticesPlain DEF Unsaid, Unavailable, Say
<1>4. CASE Receive(d) \/ Load(d)
  BY <1>2, <1>4 DEF Receive, Load
<1>5. ASSUME NEW reply \in Replies PROVE ~FastReply(d, reply)
  BY <1>1, <1>3 DEF FastReply
<1>6. CASE Recheck(d) \/ Enqueue(d) \/ EnqueueFails(d) \/ Abort(d)
  BY <1>1, <1>3, <1>6 DEF Recheck, Enqueue, EnqueueFails, Abort
<1>7. CASE FastPathFails(d)
  BY <1>1, <1>7 DEF FastPathFails, Goto
<1>8. CASE \/ Clear(d) \/ Deliver(d) \/ Advance(d) \/ Keep(d) \/ Offer(d)
           \/ Defer(d) \/ Commit(d) \/ Save(d)
  BY <1>8 DEF Clear, Deliver, Advance, Keep, Offer, Defer, Commit, Save, ReadThenWrite
<1> QED
  BY <1>4, <1>5, <1>6, <1>7, <1>8 DEF HandlerStep

\* A call answers its job before it queues it, or not at all.
LEMMA CallFailure ==
  ASSUME StreamInv, RecordsInv, SpeechInv, FailureInv,
         NEW d \in Deliveries, CallMoves(d) \/ CallDies(d)
  PROVE  FailureInv'
<1>1. /\ Typed /\ RecordsTypeOK /\ OwedInOrder /\ log \in Seq(Deliveries)
      /\ Receive(d) \/ HandlerStep(d) \/ EnqueueFails(d) \/ Abort(d)
  BY DEF StreamInv, Typed, TypeOK, RedisTypeOK, RecordsInv, CallMoves, CallDies
<1>2. ASSUME NEW j \in Deliveries, Unanswered(j),
             j \in Queued \/ slot = Processing(j) \/ j # d \/ pc[d] # "ask"
      PROVE  Unanswered(j)'
  BY <1>1, <1>2, CallLeavesUnanswered, BeyondAsking
<1>3. \A w \in Workers :
        pc'[w] = pc[w] /\ owed'[w] = owed[w] /\ (pc[w] # "idle" => Job(w)' = Job(w))
  <2>1. \A w \in Workers : pc'[w] = pc[w] /\ (pc[w] # "idle" => Job(w)' = Job(w))
    BY <1>1, CallFrame
  <2>2. \A w \in Workers : owed'[w] = owed[w]
    BY <1>1, ProcessesApart DEF CallMoves, CallDies, RecordsTypeOK
  <2> QED
    BY <2>1, <2>2
<1>4. \A w \in Workers : pc[w] # "idle" => Job(w) \in Queued /\ Job(w) \in Deliveries
  BY <1>1, SMT DEF StreamInv, HeldEntryIsGiven, TypeOK, RedisTypeOK, Queued, Job
<1>5. UNCHANGED <<held, cursor, pel, rows>> /\ (faults' = 0 => faults = 0)
  <2>1. UNCHANGED <<held, rows>>
    BY <1>1, CallStores DEF CallMoves, CallDies, stored
  <2>2. UNCHANGED <<cursor, pel>>
    BY <1>1 DEF Receive, HandlerStep, EnqueueFails, Abort, Load, Clear, Deliver, Advance,
         FastReply, FastPathFails, Keep, Offer, Defer, Recheck, Enqueue, Commit, Save,
         ReadThenWrite, localUnchanged, redisVars
  <2>3. UNCHANGED faults \/ Fault
    BY <1>1 DEF Receive, HandlerStep, EnqueueFails, Abort, Load, Clear, Deliver, Advance,
         FastReply, FastPathFails, Keep, Offer, Defer, Recheck, Enqueue, Commit, Save,
         ReadThenWrite, localUnchanged, boundVars
  <2>4. Fault => faults' # 0
    BY SMT DEF Fault, StreamInv, TypeOK, LocalTypeOK
  <2> QED
    BY <2>1, <2>2, <2>3, <2>4
<1>6. \A j : Closed(j) => Closed(j)'
  BY <1>1, CallCloses
<1>7. ASSUME NEW w \in Workers
      PROVE  /\ pc'[w] \in {"generate", "publish", "fail", "commit"} => Unanswered(Job(w))'
             /\ faults' = 0 /\ pc'[w] = "check" => Unanswered(Job(w))'
             /\ owed'[w] = <<"error">> => Unanswered(Job(w))' /\ Closed(Job(w))'
  <2>1. ASSUME pc[w] # "idle", Unanswered(Job(w)) PROVE Unanswered(Job(w))'
    <3>1. \A j : j = Job(w) => Unanswered(j)'
      BY <1>2, <1>4, <2>1
    <3> QED
      BY <1>3, <2>1, <3>1
  <2>2. ASSUME pc[w] # "idle", Closed(Job(w)) PROVE Closed(Job(w))'
    <3>1. \A j : j = Job(w) => Closed(j)'
      BY <1>6, <2>2
    <3> QED
      BY <1>3, <2>2, <3>1
  <2>3. owed[w] = <<"error">> => pc[w] = "ack"
    <3>1. <<"error">> # << >> /\ <<"error">> # Exchange /\ <<"error">> # <<"assistant">>
      BY SMT DEF Exchange
    <3> QED
      BY <1>1, <3>1 DEF OwedInOrder
  <2>4. pc[w] \in {"generate", "publish", "fail", "commit"} => Unanswered(Job(w))
    BY DEF FailureInv
  <2>5. faults = 0 /\ pc[w] = "check" => Unanswered(Job(w))
    BY DEF FailureInv
  <2>6. owed[w] = <<"error">> => Unanswered(Job(w)) /\ Closed(Job(w))
    BY DEF FailureInv
  <2> QED
    BY <1>3, <1>5, <2>1, <2>2, <2>3, <2>4, <2>5, <2>6
<1>8. ASSUME faults' = 0, NEW i \in 1..Len(log'), i > cursor' PROVE Unanswered(log[i])'
  <2>1. ASSUME NEW k \in 1..Len(log), k > cursor, NEW j, j = log[k] PROVE Unanswered(j)'
    <3>1. Unanswered(j) /\ j \in Queued /\ j \in Deliveries
      BY <1>1, <1>5, <1>8, <2>1 DEF FailureInv, Queued
    <3> QED
      BY <1>2, <3>1
  <2>2. CASE log' = log
    BY <1>5, <1>8, <2>1, <2>2
  <2>3. CASE pc[d] = "enqueue" /\ log' = Append(log, d)
    <3>1. Unanswered(d)'
      <4>1. resp[d] = Unsaid
        BY <2>3 DEF SpeechInv, Heading, FitToBeAt
      <4> QED
        BY <1>2, <2>3, <4>1 DEF FailureInv
    <3>2. Len(log') = Len(log) + 1 /\ log'[Len(log) + 1] = d /\ Len(log) \in Nat
          /\ \A k \in 1..Len(log) : log'[k] = log[k]
      BY <1>1, <2>3, AppendProperties
    <3>3. \A n \in Nat : \A k \in 1..(n + 1) : k \in 1..n \/ k = n + 1
      BY SMT
    <3>4. i \in 1..Len(log) \/ i = Len(log) + 1
      BY <3>2, <3>3
    <3>5. CASE i = Len(log) + 1
      BY <3>1, <3>2, <3>5
    <3>6. CASE i \in 1..Len(log)
      <4>1. \A j : j = log[i] => Unanswered(j)'
        BY <1>5, <1>8, <2>1, <3>6
      <4> QED
        BY <3>2, <3>6, <4>1
    <3> QED
      BY <3>4, <3>5, <3>6
  <2> QED
    BY <1>1, <2>2, <2>3, CallStores
<1>9. ASSUME faults' = 0, NEW i \in pel'
      PROVE  \E w \in Workers : pc'[w] # "idle" /\ held'[w] = i
  BY <1>3, <1>5, <1>9 DEF FailureInv
<1>10. ASSUME NEW j \in Deliveries
       PROVE  /\ slot' = Processing(j) => Unanswered(j)'
              /\ resp'[j] = Unsaid => Unanswered(j)'
              /\ rows'[j] = "error" => Unanswered(j)' /\ Closed(j)'
  <2>1. ASSUME slot' = Processing(j) PROVE Unanswered(j)'
    <3>1. CASE slot' = slot
      BY <1>2, <2>1, <3>1 DEF FailureInv
    <3>2. CASE pc[d] = "defer" /\ slot' = Processing(d)
      <4>1. resp[d] = Unsaid /\ j = d
        BY <2>1, <3>2 DEF SpeechInv, Heading, FitToBeAt, Processing, PendingRecord
      <4> QED
        BY <1>2, <3>2, <4>1 DEF FailureInv
    <3>3. CASE slot'.status # "processing"
      BY <2>1, <3>3 DEF Processing, PendingRecord
    <3> QED
      BY <1>1, <3>1, <3>2, <3>3, CallStores
  <2>2. ASSUME resp'[j] = Unsaid PROVE Unanswered(j)'
    <3>1. CASE j = d
      BY <1>1, <2>2, <3>1, UndecidedBefore, CallLeavesUnanswered DEF FailureInv
    <3>2. CASE j # d
      BY <1>1, <1>2, <2>2, <3>2, CallElsewhere DEF FailureInv
    <3> QED
      BY <3>1, <3>2
  <2>3. ASSUME rows'[j] = "error" PROVE Unanswered(j)' /\ Closed(j)'
    <3>1. Unanswered(j) /\ Closed(j) /\ j \in Queued
      BY <1>5, <2>3 DEF FailureInv, Closed
    <3> QED
      BY <1>2, <1>6, <3>1
  <2> QED
    BY <2>1, <2>2, <2>3
<1> QED
  BY <1>7, <1>8, <1>9, <1>10, Zenon DEF FailureInv

\* A worker comes to a job by taking its entry.
LEMMA WorkerTakes ==
  ASSUME StreamInv, NEW w \in Workers, pc[w] = "commit" => call[w].next = "ack",
         WorkerStep(w) \/ WorkerDrop(w) \/ WorkerError(w), pc'[w] = "check"
  PROVE  Read(w) \/ \E i \in 1..Len(log) : Reclaim(w, i)
<1>1. \A l : [pc EXCEPT ![w] = l][w] = l
  BY DEF StreamInv, TypeOK, ControlTypeOK, Processes
<1>2. ASSUME NEW l, l # "check", Goto(w, l) PROVE FALSE
  BY <1>1, <1>2 DEF Goto
<1>3. ~Commit(w)
  BY <1>2 DEF Commit
<1> QED
  BY <1>2, <1>3 DEF WorkerStep, WorkerDrop, WorkerError, Check, Generate, GenerateFails,
     Publish, Fail, Ack, ReadThenWrite

\* It goes on to deal with it if the record is PROCESSING, or if something fails.
LEMMA WorkerDeals ==
  ASSUME StreamInv, NEW w \in Workers, pc[w] = "commit" => call[w].next = "ack",
         "lost_reply" \notin Hazards, WorkerStep(w) \/ WorkerDrop(w) \/ WorkerError(w),
         pc'[w] \in {"generate", "publish", "fail", "commit"}
  PROVE  /\ pc[w] # "idle" /\ Job(w)' = Job(w) /\ slot' = slot
         /\ \/ pc[w] \in {"generate", "publish", "fail", "commit"}
            \/ pc[w] = "check" /\ slot = Processing(Job(w))
            \/ pc[w] = "check" /\ Fault
<1>1. \A l : [pc EXCEPT ![w] = l][w] = l
  BY DEF StreamInv, TypeOK, ControlTypeOK, Processes
<1>2. ASSUME NEW l, l \in {"idle", "check", "ack"}, Goto(w, l) PROVE FALSE
  BY <1>1, <1>2 DEF Goto
<1>3. /\ ~Commit(w) /\ ~Read(w) /\ ~Ack(w) /\ ~WorkerDrop(w)
      /\ ~\E i \in 1..Len(log) : Reclaim(w, i)
  BY <1>2 DEF Commit, Read, Reclaim, Take, Ack, WorkerDrop
<1>4. /\ pc[w] # "idle" /\ slot' = slot
      /\ \/ pc[w] \in {"generate", "publish", "fail", "commit"}
         \/ pc[w] = "check" /\ slot = Processing(Job(w))
         \/ pc[w] = "check" /\ Fault
  BY <1>2, <1>3 DEF WorkerStep, WorkerError, Check, Generate, GenerateFails, Publish, Fail,
     ReadThenWrite, workerMoves, redisVars
<1> QED
  BY <1>4, WorkerFrame

\* A worker owes the failure of its job to the records when it has written it
\* in the pending reply, or has found it taken there by another job.
LEMMA WorkerFailsJob ==
  ASSUME StreamInv, RecordsInv, MemoryInv, SettledInv, SettledInv', FailureInv,
         NEW w \in Workers, WorkerMoves(w) \/ WorkerDies(w), owed'[w] = <<"error">>,
         NEW j, j = Job(w)
  PROVE  Unanswered(j)' /\ Closed(j)' /\ Job(w)' = j
<1>1. /\ Typed /\ (pc[w] = "commit" => call[w].next = "ack") /\ w \in Processes
      /\ \A l : [pc EXCEPT ![w] = l][w] = l
      /\ WorkerStep(w) \/ WorkerDrop(w) \/ WorkerError(w)
  BY DEF StreamInv, Typed, MemoryInv, WorkerMoves, WorkerDies, TypeOK, ControlTypeOK, Processes
<1>2. /\ pc'[w] = "ack"
      /\ \/ pc[w] = "commit" /\ call[w].write.status = "failed"
         \/ pc[w] = "fail"
  <2>1. /\ <<"error">> # << >> /\ <<"error">> # Exchange /\ <<"error">> # <<"turns", "ok">>
    BY SMT DEF Exchange
  <2>2. \A q : [owed EXCEPT ![w] = q][w] = q
    BY <1>1 DEF RecordsInv, RecordsTypeOK
  <2>3. OwedByWorker(w) = <<"error">>
    BY <2>1, <2>2 DEF WorkerMoves, WorkerDies
  <2>4. ~(pc[w] = "generate" /\ pc'[w] = "publish") /\ ~Settles(w, "ready")
    <3>1. pc[w] = "generate" /\ pc'[w] = "publish" => OwedByWorker(w) = Exchange
      BY Zenon DEF OwedByWorker, Settles
    <3>2. Settles(w, "ready") => OwedByWorker(w) = <<"turns", "ok">>
      BY Zenon DEF OwedByWorker, Settles
    <3> QED
      BY <2>1, <2>3, <3>1, <3>2
  <2>5. Settles(w, "failed") \/ (pc[w] = "fail" /\ pc'[w] = "ack")
    BY <2>1, <2>3, <2>4, Zenon DEF OwedByWorker
  <2> QED
    BY <2>5 DEF Settles
<1>3. Unanswered(j) /\ ~Answering(w) /\ ~Answering(w)'
  BY <1>2 DEF FailureInv, Answering
<1>4. Unanswered(j)'
  BY <1>1, <1>3, WorkerLeavesUnanswered
<1>5. Job(w)' = j /\ pc[w] # "idle"
  BY <1>1, <1>2, WorkerFrame
<1>6. CASE pc[w] = "commit"
  <2>1. \A l : l # "ack" => ~Goto(w, l)
    BY <1>1, <1>2 DEF Goto
  <2>2. Commit(w)
    BY <1>1, <1>6, <2>1 DEF WorkerStep, WorkerDrop, WorkerError, Read, Reclaim, Take, Check,
         Generate, GenerateFails, Publish, Fail, Ack
  <2>3. j \in settled'
    BY <2>2 DEF Commit
  <2>4. \A k \in settled' : Closed(k)'
    BY DEF SettledInv
  <2> QED
    BY <1>4, <1>5, <2>3, <2>4
<1>7. CASE pc[w] = "fail"
  <2>1. \A l : l # "ack" => ~Goto(w, l)
    BY <1>1, <1>2 DEF Goto
  <2>2. Fail(w)
    BY <1>1, <1>7, <2>1 DEF WorkerStep, WorkerDrop, WorkerError, Read, Reclaim, Take, Check,
         Generate, GenerateFails, Publish, Commit, Ack
  <2>3. slot' = slot /\ slot.job # j
    BY <2>1, <2>2 DEF Fail, ReadThenWrite, MayMark, redisVars
  <2>4. held[w] \in 1..Len(log)
    BY <1>5, SMT DEF StreamInv, HeldEntryIsGiven, TypeOK, RedisTypeOK
  <2>5. j \in Queued /\ Queued' = Queued
    BY <1>1, <2>4, WorkerAside DEF Queued, Job
  <2>6. slot' # Processing(j)
    BY <2>3 DEF Processing, PendingRecord
  <2>7. ASSUME NEW v \in Workers, Answering(v)' PROVE Job(v)' # j
    <3>1. v # w
      BY <1>3, <2>7
    <3>2. pc'[v] = pc[v] /\ Job(v)' = Job(v) /\ pc'[v] # "idle"
      BY <1>1, <2>7, <3>1, WorkerFrame DEF Answering
    <3> QED
      BY <1>5, <3>1, <3>2, JobsApart DEF SettledInv
  <2> QED
    BY <1>4, <1>5, <2>5, <2>6, <2>7 DEF Closed
<1> QED
  BY <1>2, <1>6, <1>7

\* An entry leaves a worker's hands with its acknowledgement, or in a failure.
LEMMA WorkerKeepsEntry ==
  ASSUME StreamInv, NEW w \in Workers, pc[w] = "commit" => call[w].next = "ack",
         WorkerStep(w), NEW i \in pel'
  PROVE  \/ pc'[w] # "idle" /\ held'[w] = i
         \/ i \in pel /\ (pc[w] = "idle" \/ held[w] # i)
<1>1. /\ \A l : [pc EXCEPT ![w] = l][w] = l
      /\ \A n : [held EXCEPT ![w] = n][w] = n
  BY DEF StreamInv, TypeOK, ControlTypeOK, LocalTypeOK, Processes
<1>2. CASE Read(w)
  BY <1>1, <1>2 DEF Read, Take, Goto
<1>3. CASE \E k \in 1..Len(log) : Reclaim(w, k)
  BY <1>3 DEF Reclaim, Take
<1>4. CASE Ack(w)
  BY <1>4 DEF Ack
<1>5. CASE ~Read(w) /\ ~Ack(w) /\ ~\E k \in 1..Len(log) : Reclaim(w, k)
  <2>1. UNCHANGED <<pel, held>>
    BY <1>5 DEF WorkerStep, Check, Generate, GenerateFails, Publish, Fail, Commit,
         ReadThenWrite, workerMoves, redisVars
  <2>2. pc'[w] # "idle"
    BY <1>1, <1>5 DEF WorkerStep, Check, Generate, GenerateFails, Publish, Fail, Commit,
         ReadThenWrite, Goto
  <2> QED
    BY <2>1, <2>2
<1> QED
  BY <1>2, <1>3, <1>4, <1>5

\* A worker turns to failing a job before it has an answer, for it takes one
\* failure to stop its first attempt and a second to stop the next.
LEMMA WorkerFailure ==
  ASSUME StreamInv, RecordsInv, SpeechInv, MemoryInv, SettledInv, FailureInv,
         "early_reclaim" \notin Hazards, "lost_reply" \notin Hazards, MaxFaults <= 1,
         NEW w \in Workers, WorkerMoves(w) \/ WorkerDies(w)
  PROVE  FailureInv'
<1>1. /\ Typed /\ RecordsTypeOK /\ (pc[w] = "commit" => call[w].next = "ack")
      /\ w \in Processes /\ held \in [Workers -> Nat] /\ log \in Seq(Deliveries)
      /\ WorkerStep(w) \/ WorkerDrop(w) \/ WorkerError(w)
  BY DEF StreamInv, Typed, MemoryInv, RecordsInv, WorkerMoves, WorkerDies, TypeOK,
         LocalTypeOK, RedisTypeOK, Processes
<1>2. SettledInv'
  BY <1>1, WorkerSettled
<1>3. \A j : Closed(j) => Closed(j)'
  BY <1>1, WorkerCloses
<1>4. \A j : Unanswered(j) /\ (j # Job(w) \/ ~Answering(w) \/ slot' = slot) => Unanswered(j)'
  BY <1>1, WorkerLeavesUnanswered
<1>5. /\ UNCHANGED <<log, resp, rows>>
      /\ cursor' \in {cursor, cursor + 1} /\ cursor \in Nat
      /\ faults' = 0 => faults = 0 /\ WorkerStep(w)
      /\ Fault => faults = 0
  <2>1. UNCHANGED <<log, resp, rows>>
    BY <1>1, WorkerAside DEF WorkerMoves, WorkerDies, stored
  <2>2. cursor' \in {cursor, cursor + 1}
    BY <1>1 DEF WorkerStep, WorkerDrop, WorkerError, Read, Reclaim, Take, Check, Generate,
         GenerateFails, Publish, Fail, Commit, Ack, ReadThenWrite, workerMoves, redisVars
  <2>3. Fault => faults = 0 /\ faults' # 0
    BY BoundsAssumption, SMT DEF Fault, StreamInv, TypeOK, LocalTypeOK
  <2>4. WorkerStep(w) => UNCHANGED faults
    BY DEF WorkerStep, Read, Reclaim, Take, Check, Generate, GenerateFails, Publish, Fail,
         Commit, Ack, ReadThenWrite, workerMoves, boundVars
  <2>5. WorkerStep(w) \/ Fault
    BY <1>1 DEF WorkerDrop, WorkerError
  <2>6. cursor \in Nat
    BY DEF StreamInv, TypeOK, RedisTypeOK
  <2> QED
    BY <2>1, <2>2, <2>3, <2>4, <2>5, <2>6
<1>6. \A v \in Workers : v # w =>
        pc'[v] = pc[v] /\ Job(v)' = Job(v) /\ owed'[v] = owed[v] /\ held'[v] = held[v]
  <2>1. \A v \in Workers : v # w => pc'[v] = pc[v] /\ Job(v)' = Job(v)
    BY <1>1, WorkerFrame
  <2>2. \A v \in Workers : v # w => owed'[v] = owed[v]
    BY <1>1 DEF WorkerMoves, WorkerDies, RecordsTypeOK, Processes
  <2>3. \A v \in Workers : v # w => held'[v] = held[v]
    BY <1>1 DEF WorkerStep, WorkerDrop, WorkerError, Read, Reclaim, Take, Check, Generate,
         GenerateFails, Publish, Fail, Commit, Ack, ReadThenWrite, workerMoves
  <2> QED
    BY <2>1, <2>2, <2>3
<1>7. \A v \in Workers : pc[v] # "idle" =>
        held[v] \in 1..Len(log) /\ held[v] <= cursor /\ Job(v) \in Deliveries
  BY SMT DEF StreamInv, HeldEntryIsGiven, TypeOK, RedisTypeOK, Job
<1>8. \A v \in Workers : owed[v] = <<"error">> => pc[v] = "ack"
  <2>1. <<"error">> # << >> /\ <<"error">> # Exchange /\ <<"error">> # <<"assistant">>
    BY SMT DEF Exchange
  <2> QED
    BY <2>1 DEF RecordsInv, OwedInOrder
<1>9. ASSUME NEW v \in Workers, v # w
      PROVE  /\ pc'[v] \in {"generate", "publish", "fail", "commit"} => Unanswered(Job(v))'
             /\ faults' = 0 /\ pc'[v] = "check" => Unanswered(Job(v))'
             /\ owed'[v] = <<"error">> => Unanswered(Job(v))' /\ Closed(Job(v))'
  <2>1. ASSUME pc[v] # "idle", Unanswered(Job(v)) PROVE Unanswered(Job(v))'
    <3>1. pc[w] # "idle" => Job(v) # Job(w)
      BY <1>9, <2>1, JobsApart DEF SettledInv
    <3>2. pc[w] = "idle" => ~Answering(w)
      BY DEF Answering
    <3>3. \A j : j = Job(v) => Unanswered(j)'
      BY <1>4, <2>1, <3>1, <3>2
    <3> QED
      BY <1>6, <1>9, <3>3
  <2>2. Closed(Job(v)) => Closed(Job(v))'
    <3>1. \A j : j = Job(v) /\ Closed(j) => Closed(j)'
      BY <1>3
    <3> QED
      BY <1>6, <1>9, <3>1
  <2>3. /\ pc[v] \in {"generate", "publish", "fail", "commit"} => Unanswered(Job(v))
        /\ faults = 0 /\ pc[v] = "check" => Unanswered(Job(v))
        /\ owed[v] = <<"error">> => Unanswered(Job(v)) /\ Closed(Job(v))
    BY DEF FailureInv
  <2> QED
    BY <1>5, <1>6, <1>8, <1>9, <2>1, <2>2, <2>3
<1>10. pc'[w] \in {"generate", "publish", "fail", "commit"} => Unanswered(Job(w))'
  <2> SUFFICES ASSUME pc'[w] \in {"generate", "publish", "fail", "commit"}
               PROVE  Unanswered(Job(w))'
    OBVIOUS
  <2>1. /\ pc[w] # "idle" /\ Job(w)' = Job(w) /\ slot' = slot
        /\ \/ pc[w] \in {"generate", "publish", "fail", "commit"}
           \/ pc[w] = "check" /\ slot = Processing(Job(w))
           \/ pc[w] = "check" /\ Fault
    BY <1>1, WorkerDeals
  <2>2. Unanswered(Job(w))
    BY <1>5, <1>7, <2>1 DEF FailureInv
  <2>3. \A j : j = Job(w) => Unanswered(j)'
    BY <1>4, <2>1, <2>2
  <2> QED
    BY <2>1, <2>3
<1>11. faults' = 0 /\ pc'[w] = "check" => Unanswered(Job(w))'
  <2> SUFFICES ASSUME faults' = 0, pc'[w] = "check" PROVE Unanswered(Job(w))'
    OBVIOUS
  <2>1. CASE Read(w)
    <3>1. /\ Job(w)' = log[cursor + 1] /\ cursor + 1 \in 1..Len(log) /\ cursor + 1 > cursor
          /\ ~Answering(w)
      <4>1. /\ held'[w] = cursor + 1 /\ log' = log /\ cursor < Len(log) /\ pc[w] = "idle"
        BY <1>1, <1>5, <2>1 DEF Read, Take
      <4>2. Len(log) \in Nat
        BY <1>1
      <4> QED
        BY <1>5, <4>1, <4>2, SMT DEF Job, Answering
    <3>2. \A j : j = log[cursor + 1] => Unanswered(j)'
      BY <1>4, <1>5, <3>1 DEF FailureInv
    <3> QED
      BY <3>1, <3>2
  <2>2. ASSUME NEW i \in 1..Len(log), Reclaim(w, i) PROVE FALSE
    BY <1>5, <2>2 DEF Reclaim, FailureInv
  <2> QED
    BY <1>1, <2>1, <2>2, WorkerTakes
<1>12. owed'[w] = <<"error">> => Unanswered(Job(w))' /\ Closed(Job(w))'
  <2> SUFFICES ASSUME owed'[w] = <<"error">> PROVE Unanswered(Job(w))' /\ Closed(Job(w))'
    OBVIOUS
  <2>1. \A j : j = Job(w) => Unanswered(j)' /\ Closed(j)' /\ Job(w)' = j
    BY <1>2, WorkerFailsJob
  <2> QED
    BY <2>1
<1>13. ASSUME faults' = 0, NEW i \in 1..Len(log'), i > cursor' PROVE Unanswered(log[i])'
  <2>1. i \in 1..Len(log) /\ i > cursor
    BY <1>5, <1>13, SMT
  <2>2. Answering(w) => log[i] # Job(w)
    <3>1. Answering(w) => held[w] \in 1..Len(log) /\ held[w] # i
      BY <1>1, <1>5, <1>7, <2>1, SMT DEF Answering
    <3> QED
      BY <2>1, <3>1 DEF SettledInv, OneHolder, Job
  <2>3. \A j : j = log[i] => Unanswered(j)'
    BY <1>4, <1>5, <1>13, <2>1, <2>2 DEF FailureInv
  <2> QED
    BY <1>5, <2>3
<1>14. ASSUME faults' = 0, NEW i \in pel'
       PROVE  \E v \in Workers : pc'[v] # "idle" /\ held'[v] = i
  <2>1. \/ pc'[w] # "idle" /\ held'[w] = i
        \/ i \in pel /\ (pc[w] = "idle" \/ held[w] # i)
    BY <1>1, <1>5, <1>14, WorkerKeepsEntry
  <2>2. i \in pel => \E v \in Workers : pc[v] # "idle" /\ held[v] = i
    BY <1>5, <1>14 DEF FailureInv
  <2> QED
    BY <1>6, <2>1, <2>2
<1>15. ASSUME NEW j \in Deliveries
       PROVE  /\ slot' = Processing(j) => Unanswered(j)'
              /\ resp'[j] = Unsaid => Unanswered(j)'
              /\ rows'[j] = "error" => Unanswered(j)' /\ Closed(j)'
  <2>1. ASSUME slot' = Processing(j) PROVE Unanswered(j)'
    <3>1. slot' = slot
      BY <1>1, <2>1, WorkerSettles DEF Processing, PendingRecord
    <3> QED
      BY <1>4, <2>1, <3>1 DEF FailureInv
  <2>2. ASSUME resp'[j] = Unsaid PROVE Unanswered(j)'
    <3>1. pc[w] # "idle" => j # Job(w)
      BY <1>5, <1>7, <2>2, NotYetQueued DEF Queued, Job
    <3> QED
      BY <1>4, <1>5, <2>2, <3>1 DEF FailureInv, Answering
  <2>3. ASSUME rows'[j] = "error" PROVE Unanswered(j)' /\ Closed(j)'
    <3>1. Unanswered(j) /\ Closed(j)
      BY <1>5, <2>3 DEF FailureInv
    <3>2. Answering(w) => j # Job(w)
      BY <3>1 DEF Closed
    <3> QED
      BY <1>3, <1>4, <3>1, <3>2
  <2> QED
    BY <2>1, <2>2, <2>3
<1>16. ASSUME NEW v \in Workers
       PROVE  /\ pc'[v] \in {"generate", "publish", "fail", "commit"} => Unanswered(Job(v))'
              /\ faults' = 0 /\ pc'[v] = "check" => Unanswered(Job(v))'
              /\ owed'[v] = <<"error">> => Unanswered(Job(v))' /\ Closed(Job(v))'
  BY <1>9, <1>10, <1>11, <1>12
<1> QED
  BY <1>13, <1>14, <1>15, <1>16, Zenon DEF FailureInv

\* Steps of neither a call nor a worker give no answer and close no job.
LEMMA StillFailure ==
  ASSUME FailureInv, UNCHANGED <<log, cursor, pel, pc, call, held, resp>>,
         slot' \in {slot, NoPending}, Shelf' \subseteq Shelf, faults' = 0 => faults = 0,
         \A w \in Workers : owed'[w] = <<"error">> => owed[w] = <<"error">>,
         \A j \in Deliveries : rows'[j] = "error" => Unanswered(j) /\ Closed(j)
  PROVE  FailureInv'
<1>1. \A j : Unanswered(j) => Unanswered(j)'
  BY DEF Unanswered, Hand, AnswerIn, AnswerOf
<1>2. \A j : NoPending # Processing(j)
  BY DEF NoPending, Processing, PendingRecord
<1>3. \A j : Closed(j) => Closed(j)'
  BY <1>2 DEF Closed, Answering, Queued, Job
<1>4. \A w \in Workers : /\ Unanswered(Job(w)) => Unanswered(Job(w))'
                         /\ Closed(Job(w)) => Closed(Job(w))'
  <2>1. \A w \in Workers : Job(w)' = Job(w)
    BY DEF Job
  <2>2. \A w \in Workers : \A j : j = Job(w) => /\ Unanswered(j) => Unanswered(j)'
                                                /\ Closed(j) => Closed(j)'
    BY <1>1, <1>3
  <2> QED
    BY <2>1, <2>2
<1>5. \A i \in 1..Len(log) : Unanswered(log[i]) => Unanswered(log[i])'
  <2>1. \A i \in 1..Len(log) : \A j : j = log[i] /\ Unanswered(j) => Unanswered(j)'
    BY <1>1
  <2> QED
    BY <2>1
<1>6. \A j \in Deliveries : slot' = Processing(j) => slot = Processing(j)
  BY <1>2
<1> QED
  BY <1>1, <1>2, <1>3, <1>4, <1>5, <1>6 DEF FailureInv

\* The row of a failed job is written when it is owed.
LEMMA WriteFailure ==
  ASSUME StreamInv, RecordsInv, FailureInv, NEW p \in Processes, Write(p) \/ WriteFails(p)
  PROVE  FailureInv'
<1>1. /\ ~Free(p) /\ UNCHANGED <<slot, idem, log, cursor, pel, pc, seen, resp, call, held>>
      /\ RecordsTypeOK /\ OwedInOrder
  BY DEF Write, WriteFails, vars, redisVars, RecordsInv
<1>2. faults' = 0 => faults = 0
  <2>1. Fault => faults' # 0
    BY SMT DEF Fault, StreamInv, TypeOK, LocalTypeOK
  <2> QED
    BY <2>1 DEF Write, WriteFails, vars, boundVars
<1>3. /\ \A q \in Processes : q # p => owed'[q] = owed[q]
      /\ owed'[p] \in {Tail(owed[p]), AfterFailure(owed[p])}
  BY <1>1 DEF Write, WriteFails, RecordsTypeOK
<1>4. /\ owed[p] \in {MirroredExchange, <<"assistant", "turns">>, <<"turns">>, Exchange,
                      <<"assistant">>, <<"turns", "ok">>, <<"error">>, <<"ok">>}
      /\ p \notin Workers => owed[p] # <<"error">>
  <2>1. /\ MirroredExchange # <<"error">> /\ <<"assistant", "turns">> # <<"error">>
        /\ <<"turns">> # <<"error">>
    BY SMT DEF MirroredExchange
  <2> QED
    BY <1>1, <2>1 DEF OwedInOrder, Free, Processes
<1>5. owed'[p] # <<"error">>
  <2>1. /\ <<"error">> # << >> /\ <<"error">> # <<"turns">> /\ <<"error">> # <<"ok">>
        /\ <<"error">> # <<"assistant">> /\ <<"error">> # <<"assistant", "turns">>
    BY SMT
  <2> QED
    BY <1>3, <1>4, <2>1, OwedLeft DEF Items, Roles
<1>6. ASSUME NEW j \in Deliveries, rows'[j] = "error" PROVE Unanswered(j) /\ Closed(j)
  <2>1. rows[j] = "error" \/ (j = JobOf(p) /\ Head(owed[p]) = "error")
    BY <1>1, <1>6 DEF Write, WriteFails, Record, AppendTurn, PersistTurns, PersistJobResult,
         RecordsTypeOK
  <2>2. Head(owed[p]) = "error" => owed[p] = <<"error">>
    BY <1>4, OwedLeft DEF Items, Roles
  <2>3. Head(owed[p]) = "error" => p \in Workers /\ JobOf(p) = Job(p)
    BY <1>4, <2>2, WorkersAssumption DEF JobOf
  <2> QED
    BY <1>6, <2>1, <2>2, <2>3 DEF FailureInv
<1>7. Shelf' = Shelf
  BY <1>1 DEF Shelf, AnswerIn, AnswerOf
<1>8. \A w \in Workers : owed'[w] = <<"error">> => owed[w] = <<"error">>
  BY <1>3, <1>5 DEF Processes
<1> QED
  BY <1>1, <1>2, <1>6, <1>7, <1>8, StillFailure

LEMMA QuietFailure ==
  ASSUME StreamInv, RecordsInv, FailureInv,
         SessionExpires \/ PendingExpires \/ UNCHANGED allVars
  PROVE  FailureInv'
<1>1. /\ UNCHANGED <<log, cursor, pel, pc, call, held, resp, owed, rows, faults, idem, seen>>
      /\ slot' \in {slot, NoPending} /\ Typed
  BY DEF SessionExpires, PendingExpires, Expire, allVars, vars, redisVars, boundVars,
         recordVars, StreamInv, Typed
<1>2. Shelf' \subseteq Shelf
  <2>1. AnswerIn(slot') \subseteq Shelf
    BY <1>1, OnShelf, AnswersCarried
  <2> QED
    BY <1>1, <2>1, OnShelf, ShelfGrows
<1> QED
  BY <1>1, <1>2, StillFailure DEF FailureInv

LEMMA InitFailure == RecordsInit => FailureInv
<1> SUFFICES ASSUME RecordsInit PROVE FailureInv
  OBVIOUS
<1>1. /\ AnswerIn(NoPending) = {} /\ AnswerIn(NoCall.write) = {} /\ AnswerOf(Unsaid) = {}
  BY AnswersCarried DEF Unsaid, Notices
<1>2. \A j : Unanswered(j)
  BY <1>1 DEF Unanswered, Shelf, Hand, RecordsInit, Init, Processes
<1>3. \A w \in Workers : pc[w] = "idle" /\ owed[w] # <<"error">>
  <2>1. << >> # <<"error">>
    BY SMT
  <2> QED
    BY <2>1 DEF RecordsInit, Init, Processes
<1>4. pel = {} /\ \A j \in Deliveries : rows[j] # "error"
  BY DEF RecordsInit, Init
<1> QED
  BY <1>2, <1>3, <1>4 DEF FailureInv

\* If at most one thing fails, the reply to a write is not what fails, and no
\* entry is reclaimed from a worker still busy with it, the row of a failure
\* stands for a job nobody has answered or will answer.
THEOREM FailureCorrect ==
  "early_reclaim" \notin Hazards /\ "lost_reply" \notin Hazards /\ MaxFaults <= 1 =>
    (RecordsSpec => []FailureInv)
<1> SUFFICES ASSUME "early_reclaim" \notin Hazards, "lost_reply" \notin Hazards, MaxFaults <= 1
             PROVE  RecordsSpec => []FailureInv
  OBVIOUS
<1>1. StreamInv /\ RecordsInv /\ SpeechInv /\ MemoryInv /\ SettledInv /\ FailureInv
        /\ [RecordsNext]_allVars => FailureInv'
  BY CallFailure, WorkerFailure, WriteFailure, QuietFailure DEF RecordsNext
<1>2. RecordsInit => SpeechInv
  BY InitSpeech DEF RecordsInit
<1>3. RecordsSpec => []SpeechInv
  BY <1>2, RecordsStepSpeech, RecordsKeepStream, PTL DEF RecordsSpec
<1> QED
  BY <1>1, <1>3, InitFailure, RecordsKeepStream, RecordsCorrect, MemoryCorrect, SettledCorrect,
     PTL DEF RecordsSpec

\* And so a job on record as failed is never told (conversation.py:277-287).
THEOREM FailedRowCorrect ==
  "early_reclaim" \notin Hazards /\ "lost_reply" \notin Hazards /\ MaxFaults <= 1 =>
    (RecordsSpec => []FailedRowNeverTold)
<1>1. FailureInv => FailedRowNeverTold
  BY DEF FailureInv, Unanswered, Hand, AnswerOf, FailedRowNeverTold, Told
<1>2. CASE "early_reclaim" \notin Hazards /\ "lost_reply" \notin Hazards /\ MaxFaults <= 1
  BY <1>1, <1>2, FailureCorrect, PTL
<1> QED
  BY <1>2

-----------------------------------------------------------------------------
(* Exchanges stay together.                                                *)

\* The writes of the records leave the cache alone.
LEMMA RecordsStepCache ==
  "overlap" \notin Hazards =>
    (StreamInv /\ SpeechInv /\ CacheInv /\ [RecordsNext]_allVars => CacheInv')
<1> SUFFICES ASSUME "overlap" \notin Hazards, StreamInv, SpeechInv, CacheInv,
                    [RecordsNext]_allVars
             PROVE  CacheInv'
  OBVIOUS
<1>1. ASSUME NEW d \in Deliveries, CallMoves(d) \/ CallDies(d) PROVE CacheInv'
  BY <1>1, StepCache DEF CallMoves, CallDies, Next
<1>2. ASSUME NEW w \in Workers, WorkerMoves(w) \/ WorkerDies(w) PROVE CacheInv'
  BY <1>2, StepCache DEF WorkerMoves, WorkerDies, Next
<1>3. ASSUME NEW p \in Processes, Write(p) \/ WriteFails(p) PROVE CacheInv'
  <2>1. UNCHANGED <<idem, pc, resp, call>>
    BY <1>3 DEF Write, WriteFails, vars, redisVars
  <2> QED
    BY <2>1 DEF CacheInv, OneCall, Busy, Heading, Said
<1>4. CASE SessionExpires \/ PendingExpires
  BY <1>4, StepCache DEF SessionExpires, PendingExpires, Next
<1>5. CASE UNCHANGED allVars
  BY <1>5, StepCache DEF allVars
<1> QED
  BY <1>1, <1>2, <1>3, <1>4, <1>5 DEF RecordsNext

\* What has gone wrong stays counted.
LEMMA CountsGrow ==
  ASSUME Typed, [RecordsNext]_allVars
  PROVE  /\ faults \in Nat /\ expiries \in Nat
         /\ faults' \in {faults, faults + 1} /\ expiries' \in {expiries, expiries + 1}
<1>1. faults \in Nat /\ expiries \in Nat
  BY BoundsAssumption, SMT DEF Typed, TypeOK, LocalTypeOK
<1>2. ASSUME NEW d \in Deliveries, CallMoves(d) \/ CallDies(d)
      PROVE  UNCHANGED boundVars \/ Fault
  BY <1>2
     DEF CallMoves, CallDies, Receive, HandlerStep, EnqueueFails, Abort, Load, Clear,
         Deliver, Advance, FastReply, FastPathFails, Keep, Offer, Defer, Recheck, Enqueue,
         Commit, Save, ReadThenWrite, localUnchanged, boundVars
<1>3. ASSUME NEW w \in Workers, WorkerMoves(w) \/ WorkerDies(w)
      PROVE  UNCHANGED boundVars \/ Fault
  BY <1>3
     DEF WorkerMoves, WorkerDies, WorkerStep, WorkerDrop, WorkerError, Read, Reclaim, Take,
         Check, Generate, GenerateFails, Publish, Fail, Commit, Ack, ReadThenWrite,
         workerMoves, boundVars
<1>4. UNCHANGED boundVars \/ Fault \/ Expire
  BY <1>2, <1>3
     DEF RecordsNext, Write, WriteFails, SessionExpires, PendingExpires, allVars, vars,
         boundVars
<1> QED
  BY <1>1, <1>4 DEF Fault, Expire, boundVars

\* So what is calm now has always been.
LEMMA CalmBefore ==
  ASSUME Typed, [RecordsNext]_allVars, Calm'
  PROVE  Calm
<1>1. \A f, e \in Nat : \A g \in {f, f + 1} : \A h \in {e, e + 1} :
        g = 0 \/ g + h < 2 => f = 0 \/ f + e < 2
  BY SMT
<1> QED
  BY <1>1, CountsGrow, Zenon DEF Calm

\* The writes of the records, and an expiry with nobody at work, leave calls
\* and workers what they rely on.
LEMMA RecordsStepTurn ==
  ASSUME OnlyFailures, StreamInv, SpeechInv, CacheInv, TurnInv, [RecordsNext]_allVars,
         Calm'
  PROVE  TurnInv'
<1>1. Typed /\ Typed'
  BY RecordsStepStream DEF StreamInv, Typed
<1>2. ASSUME NEW d \in Deliveries, CallMoves(d) \/ CallDies(d) PROVE TurnInv'
  BY <1>2, HandlerTurns DEF CallMoves, CallDies
<1>3. ASSUME NEW w \in Workers, WorkerMoves(w) \/ WorkerDies(w) PROVE TurnInv'
  BY <1>1, <1>3, WorkerTurns DEF WorkerMoves, WorkerDies, Calm
<1>4. ASSUME NEW p \in Processes, Write(p) PROVE TurnInv'
  BY <1>4, StutterTurn DEF Write
<1>5. ASSUME NEW p \in Processes, WriteFails(p) PROVE TurnInv'
  <2>1. /\ UNCHANGED <<slot, idem, log, cursor, pel, pc, seen, resp, call, held, kind,
                       settled, expiries>>
        /\ faults' # 0
    <3>1. faults \in Nat /\ \A n \in Nat : n + 1 # 0
      BY <1>1, CountsGrow, SMT
    <3> QED
      BY <1>5, <3>1 DEF WriteFails, Fault, redisVars
  <2>2. Queued' = Queued
    BY <2>1 DEF Queued
  <2>3. \A d \in Deliveries : CallInTurn(d)'
    BY <2>1, <2>2, KeptForCall DEF TurnInv
  <2>4. StreamInTurn' /\ \A w \in Workers : WorkerInTurn(w)'
    BY <1>1, <2>1, KeptForWorkers DEF TurnInv
  <2> QED
    BY <2>1, <2>2, <2>3, <2>4, PromisesKept DEF TurnInv
<1>6. CASE SessionExpires \/ UNCHANGED allVars
  BY <1>6, StutterTurn DEF SessionExpires, allVars
<1>7. CASE PendingExpires
  <2>1. /\ \A d \in Deliveries : ~Busy(d)'
        /\ \A w \in Workers : pc'[w] = "idle"
        /\ UNCHANGED <<idem, log, resp>>
    BY <1>7 DEF PendingExpires, Quiet, Expire, Busy
  <2>2. expiries' # 0
    <3>1. expiries \in Nat /\ \A n \in Nat : n + 1 # 0
      BY <1>1, CountsGrow, SMT
    <3> QED
      BY <1>7, <3>1 DEF PendingExpires, Expire
  <2>3. faults' = 0 => \A i \in pel' : \E w \in Workers : pc'[w] # "idle" /\ held'[w] = i
    BY <1>7 DEF PendingExpires, Quiet, Expire, TurnInv, StreamInTurn
  <2>4. StreamInTurn'
    BY <2>1, <2>2, <2>3 DEF TurnInv, StreamInTurn
  <2>5. \A w \in Workers : WorkerInTurn(w)'
    BY <2>1 DEF WorkerInTurn
  <2>6. Queued' = Queued
    BY <2>1 DEF Queued
  <2>7. PromisesInTurn'
    BY <2>1, <2>6, PromisesKept DEF TurnInv
  <2> QED
    BY <2>1, <2>4, <2>5, <2>7, RestInTurn DEF TurnInv
<1> QED
  BY <1>2, <1>3, <1>4, <1>5, <1>6, <1>7 DEF RecordsNext

TogetherBase == StreamInv /\ RecordsInv /\ MemoryInv /\ CacheInv /\ TurnInv /\ AppendInTurn

\* Who owes an appended turn is a call at work, with no record, or a worker
\* whose job is PROCESSING.
LEMMA AppendingAt ==
  ASSUME TogetherBase, NEW p \in Processes, ~Free(p)
  PROVE  /\ p \in Deliveries => Busy(p) /\ slot = NoPending /\ JobOf(p) = p
         /\ p \in Workers => pc[p] # "idle" /\ JobOf(p) = Job(p)
         /\ p \in Workers /\ Head(owed[p]) \in Roles => slot = Processing(Job(p))
<1>1. p \in Deliveries => Busy(p) /\ slot = NoPending /\ JobOf(p) = p
  BY DEF TogetherBase, MemoryInv, AppendInTurn, Busy, JobOf
<1>2. ASSUME p \in Workers
      PROVE  /\ pc[p] # "idle" /\ JobOf(p) = Job(p)
             /\ Head(owed[p]) \in Roles => slot = Processing(Job(p))
  <2>1. JobOf(p) = Job(p)
    BY <1>2, WorkersAssumption DEF JobOf
  <2>2. pc[p] = "publish" => slot = Processing(Job(p))
    BY <1>2 DEF TogetherBase, TurnInv, WorkerInTurn
  <2>3. \A items \in {<<"turns", "ok">>, <<"error">>, <<"ok">>} : Head(items) \notin Roles
    BY OwedLeft DEF Items, Roles
  <2> QED
    BY <1>2, <2>1, <2>2, <2>3 DEF TogetherBase, RecordsInv, OwedInOrder, Free
<1> QED
  BY <1>1, <1>2

\* One process at a time has turns to append.
LEMMA OneAppends ==
  ASSUME TogetherBase, NEW p \in Processes, NEW q \in Processes, Appending(p), Appending(q)
  PROVE  p = q
<1>1. /\ ~Free(p) /\ ~Free(q) /\ Head(owed[p]) \in Roles /\ Head(owed[q]) \in Roles
      /\ \A j : Processing(j) # NoPending
  BY DEF Appending, Processing, NoPending, PendingRecord
<1>2. CASE p \in Deliveries /\ q \in Deliveries
  BY <1>1, <1>2, AppendingAt DEF TogetherBase, CacheInv, OneCall
<1>3. CASE p \in Workers /\ q \in Workers
  <2>1. Typed
    BY DEF TogetherBase, StreamInv, Typed
  <2>2. pc[p] # "idle" /\ pc[q] # "idle" /\ Processing(Job(p)) = Processing(Job(q))
    BY <1>1, <1>3, AppendingAt
  <2> QED
    BY <1>3, <2>1, <2>2, OneWorker DEF TogetherBase, TurnInv
<1> QED
  BY <1>1, <1>2, <1>3, AppendingAt DEF Processes

\* Nobody's answer is due when nobody comes to owe one.
LEMMA AppendLeft ==
  ASSUME TogetherBase, UNCHANGED appended, NEW p \in Processes,
         \A q \in Processes : q # p => owed'[q] = owed[q],
         \A q \in Processes : q # p /\ ~Free(q) => JobOf(q)' = JobOf(q),
         ~Free(p)' => Head(owed'[p]) # "assistant",
         \A d \in Deliveries : ~Free(d)' => slot' = NoPending
  PROVE  AppendInTurn'
<1>1. ASSUME NEW q \in Processes, ~Free(q)', Head(owed'[q]) = "assistant"
      PROVE  /\ Len(appended') > 0
             /\ appended'[Len(appended')] = [job |-> JobOf(q)', role |-> "user"]
  <2>1. q # p /\ owed'[q] = owed[q] /\ ~Free(q)
    BY <1>1 DEF Free
  <2> QED
    BY <1>1, <2>1 DEF TogetherBase, AppendInTurn
<1> QED
  BY <1>1 DEF TogetherBase, AppendInTurn

\* A call comes to owe an exchange where it has found no record.
LEMMA CallAppends ==
  ASSUME OnlyFailures, TogetherBase, NEW d \in Deliveries, CallMoves(d) \/ CallDies(d)
  PROVE  AppendInTurn'
<1>1. /\ Typed /\ RecordsTypeOK /\ OwedInOrder /\ d \in Processes
  BY DEF TogetherBase, StreamInv, Typed, RecordsInv, Processes
<1>2. \A q \in Processes : q # d => owed'[q] = owed[q]
  BY <1>1 DEF CallMoves, CallDies, RecordsTypeOK
<1>3. owed'[d] \in {<< >>, OwedByCall(d)}
  BY <1>1 DEF CallMoves, CallDies, RecordsTypeOK
<1>4. ~Free(d)' => owed'[d] = MirroredExchange /\ Head(owed'[d]) = "user"
  BY <1>3, OwedLeft DEF OwedByCall, Free
<1>5. ASSUME NEW q \in Processes, q # d, ~Free(q)
      PROVE  JobOf(q)' = JobOf(q)
  <2>1. CASE q \in Deliveries
    BY <2>1 DEF JobOf
  <2>2. CASE q \in Workers
    <3>1. Job(q)' = Job(q)
      BY <1>5, <2>2, AppendingAt, CallFrame DEF CallMoves, CallDies, TogetherBase
    <3> QED
      BY <3>1 DEF JobOf
  <2> QED
    BY <2>1, <2>2 DEF Processes
<1>6. UNCHANGED appended
  BY DEF CallMoves, CallDies, stored
\* No other call owes anything while this one moves.
<1>7. \A e \in Deliveries : e # d => ~Busy(e)
  <2>1. CASE Receive(d)
    BY <2>1 DEF Receive, OnlyFailures, HazardKinds
  <2>2. CASE ~Receive(d)
    <3>1. Busy(d)
      BY <2>2 DEF CallMoves, CallDies, HandlerStep, Load, Clear, Deliver, Advance,
         FastReply, FastPathFails, Keep, Offer, Defer, Recheck, Enqueue, Commit, Save,
         Abort, EnqueueFails, Busy
    <3> QED
      BY <3>1 DEF TogetherBase, CacheInv, OneCall
  <2> QED
    BY <2>1, <2>2
<1>8. ASSUME NEW e \in Deliveries, ~Free(e)'
      PROVE  slot' = NoPending
  <2>1. e = d
    <3> SUFFICES ASSUME e # d PROVE FALSE
      OBVIOUS
    <3>1. ~Free(e) /\ e \in Processes
      BY <1>2, <1>8 DEF Free, Processes
    <3> QED
      BY <1>7, <3>1, AppendingAt
  <2>2. owed'[d] = OwedByCall(d) /\ OwedByCall(d) # << >>
    BY <1>3, <1>8, <2>1 DEF Free
  <2>3. pc[d] = "ask" /\ pc'[d] \in {"save", "keep"}
    BY <2>2 DEF OwedByCall
  <2>4. slot = NoPending
    BY <2>3 DEF TogetherBase, TurnInv, CallInTurn
  <2>5. slot' = slot
    BY <2>3, CallStores DEF TogetherBase, CallMoves, CallDies
  <2> QED
    BY <2>4, <2>5
<1> QED
  BY <1>1, <1>2, <1>4, <1>5, <1>6, <1>8, AppendLeft

\* A worker that changes the record does so while no call owes anything.
LEMMA WorkerAppends ==
  ASSUME OnlyFailures, TogetherBase, NEW w \in Workers, WorkerMoves(w) \/ WorkerDies(w)
  PROVE  AppendInTurn'
<1>1. /\ Typed /\ RecordsTypeOK /\ w \in Processes
      /\ \A v \in Workers : v \in Processes
      /\ \A d \in Deliveries : d \in Processes /\ d # w
  BY ProcessesApart DEF TogetherBase, StreamInv, Typed, RecordsInv, Processes
<1>2. \A q \in Processes : q # w => owed'[q] = owed[q]
  BY <1>1 DEF WorkerMoves, WorkerDies, RecordsTypeOK
<1>3. owed'[w] \in {<< >>, OwedByWorker(w)}
  BY <1>1 DEF WorkerMoves, WorkerDies, RecordsTypeOK
<1>4. ~Free(w)' => Head(owed'[w]) # "assistant"
  <2>1. owed'[w] \in {<< >>, Exchange, <<"turns", "ok">>, <<"error">>}
    BY <1>3 DEF OwedByWorker
  <2> QED
    BY <2>1, OwedLeft DEF Free, Items, Roles
<1>5. ASSUME NEW q \in Processes, q # w
      PROVE  JobOf(q)' = JobOf(q)
  <2>1. CASE q \in Deliveries
    BY <2>1 DEF JobOf
  <2>2. CASE q \in Workers
    <3>1. Job(q)' = Job(q)
      BY <1>5, <2>2, WorkerFrame DEF WorkerMoves, WorkerDies, TogetherBase
    <3> QED
      BY <3>1 DEF JobOf
  <2> QED
    BY <2>1, <2>2 DEF Processes
<1>6. UNCHANGED appended
  BY DEF WorkerMoves, WorkerDies, stored
<1>7. ASSUME NEW d \in Deliveries, ~Free(d)'
      PROVE  slot' = NoPending
  <2>1. slot = NoPending
    BY <1>1, <1>2, <1>7 DEF Free, TogetherBase, AppendInTurn
  <2>2. slot' = slot \/ Commit(w)
    BY DEF WorkerMoves, WorkerDies, WorkerStep, WorkerDrop, WorkerError, Read, Reclaim,
       Take, Check, Generate, GenerateFails, Publish, Fail, Ack, ReadThenWrite,
       workerMoves, redisVars, OnlyFailures
  <2>3. ~Commit(w)
    BY <2>1 DEF Commit, TogetherBase, TurnInv, WorkerInTurn, Processing, NoPending,
       PendingRecord
  <2> QED
    BY <2>1, <2>2, <2>3
<1> QED
  BY <1>1, <1>2, <1>4, <1>5, <1>6, <1>7, AppendLeft

\* A turn that is appended is the question of its exchange or comes right
\* behind it.
LEMMA TurnAppends ==
  ASSUME TogetherBase, NEW p \in Processes, Appending(p),
         AppendTurn([job |-> JobOf(p), role |-> Head(owed[p])])
  PROVE  /\ Len(appended') > 0
         /\ appended'[Len(appended')] = [job |-> JobOf(p), role |-> Head(owed[p])]
         /\ \A k \in 1..Len(appended') : appended'[k].role = "assistant" =>
              /\ k > 1
              /\ appended'[k - 1] = [job |-> appended'[k].job, role |-> "user"]
<1> DEFINE turn == [job |-> JobOf(p), role |-> Head(owed[p])]
<1>1. /\ appended' = Append(appended, turn) /\ appended \in Seq(Turns)
      /\ turn.role = Head(owed[p]) /\ turn.job = JobOf(p) /\ ~Free(p)
  BY DEF AppendTurn, TogetherBase, RecordsInv, RecordsTypeOK, Appending
<1> HIDE DEF turn
<1>2. /\ Len(appended) \in Nat /\ Len(appended') = Len(appended) + 1
      /\ appended'[Len(appended) + 1] = turn
      /\ \A k \in 1..Len(appended) : appended'[k] = appended[k]
      /\ \A k \in 1..Len(appended') : k \in 1..Len(appended) \/ k = Len(appended) + 1
      /\ \A k \in 1..Len(appended) : k > 1 => k - 1 \in 1..Len(appended)
      /\ (Len(appended) + 1) - 1 = Len(appended)
  BY <1>1, SMT
<1>3. ASSUME NEW k \in 1..Len(appended'), appended'[k].role = "assistant"
      PROVE  k > 1 /\ appended'[k - 1] = [job |-> appended'[k].job, role |-> "user"]
  <2>1. CASE k \in 1..Len(appended)
    BY <1>2, <1>3, <2>1 DEF TogetherBase, AppendInTurn
  <2>2. CASE k = Len(appended) + 1
    <3>1. Head(owed[p]) = "assistant" /\ appended'[k].job = JobOf(p)
      BY <1>1, <1>2, <1>3, <2>2
    <3>2. /\ Len(appended) > 0
          /\ appended[Len(appended)] = [job |-> JobOf(p), role |-> "user"]
      BY <1>1, <3>1 DEF TogetherBase, AppendInTurn
    <3>3. Len(appended) \in 1..Len(appended) /\ k > 1 /\ k - 1 = Len(appended)
      BY <1>2, <2>2, <3>2, SMT
    <3> QED
      BY <1>2, <3>1, <3>2, <3>3
  <2> QED
    BY <1>2, <2>1, <2>2
<1>4. Len(appended') > 0 /\ appended'[Len(appended')] = turn
  BY <1>2, SMT
<1> QED
  BY <1>3, <1>4 DEF turn

\* A write appends its turn, which nobody else has one to follow.
LEMMA WriteAppends ==
  ASSUME TogetherBase, NEW p \in Processes, Write(p) \/ WriteFails(p)
  PROVE  AppendInTurn'
<1>1. /\ RecordsTypeOK /\ OwedInOrder /\ ~Free(p) /\ UNCHANGED <<slot, log, held>>
      /\ \A d \in Deliveries : d \in Processes
  BY DEF Write, WriteFails, TogetherBase, RecordsInv, vars, redisVars, Processes
<1>2. /\ \A q \in Processes : q # p => owed'[q] = owed[q]
      /\ \A q \in Processes : ~Free(q)' => ~Free(q)
  BY <1>1 DEF Write, WriteFails, RecordsTypeOK, Free
<1>3. \A q : JobOf(q)' = JobOf(q)
  BY <1>1 DEF JobOf, Job
<1>4. \A d \in Deliveries : ~Free(d)' => slot' = NoPending
  BY <1>1, <1>2 DEF TogetherBase, AppendInTurn
\* The answer of an exchange is due behind the question.
<1>5. ~Free(p)' /\ Head(owed'[p]) = "assistant" => Write(p) /\ Head(owed[p]) = "user"
  <2>1. owed[p] \in {MirroredExchange, <<"assistant", "turns">>, <<"turns">>, Exchange,
                     <<"assistant">>, <<"turns", "ok">>, <<"error">>, <<"ok">>}
    BY <1>1 DEF OwedInOrder, Free, Processes
  <2>2. WriteFails(p) => owed'[p] = AfterFailure(owed[p])
    BY <1>1 DEF WriteFails, RecordsTypeOK
  <2>3. Write(p) => owed'[p] = Tail(owed[p])
    BY <1>1 DEF Write, RecordsTypeOK
  <2>4. AfterFailure(owed[p]) \in {<< >>, <<"turns">>} /\ Head(<<"turns">>) = "turns"
    BY <2>1, OwedLeft DEF Items, Roles
  <2>5. CASE WriteFails(p)
    BY <2>2, <2>4, <2>5 DEF Free
  <2>6. CASE Write(p)
    <3>1. Head(owed[p]) = "user" \/ Tail(owed[p]) \in {<<"turns">>, <<"ok">>, << >>}
      BY <2>1, OwedLeft DEF Items, Roles
    <3>2. Head(<<"ok">>) = "ok"
      BY OwedLeft DEF Items
    <3> QED
      BY <2>3, <2>4, <2>6, <3>1, <3>2 DEF Free
  <2> QED
    BY <2>5, <2>6
<1>6. CASE UNCHANGED appended /\ ~(Write(p) /\ Head(owed[p]) \in Roles)
  <2>1. ~Free(p)' => Head(owed'[p]) # "assistant"
    BY <1>5, <1>6 DEF Roles
  <2> QED
    BY <1>2, <1>3, <1>4, <1>6, <2>1, AppendLeft
<1>7. CASE Head(owed[p]) \in Roles /\ AppendTurn([job |-> JobOf(p), role |-> Head(owed[p])])
  <2>1. Appending(p)
    BY <1>1, <1>7 DEF Appending
  <2>2. ASSUME NEW q \in Processes, ~Free(q)', Head(owed'[q]) = "assistant"
        PROVE  q = p /\ Head(owed[p]) = "user"
    <3>1. CASE q = p
      BY <1>5, <2>2, <3>1
    <3>2. CASE q # p
      <4>1. Appending(q)
        BY <1>2, <2>2, <3>2 DEF Appending, Free, Roles
      <4> QED
        BY <2>1, <3>2, <4>1, OneAppends
    <3> QED
      BY <3>1, <3>2
  <2> QED
    BY <1>3, <1>4, <1>7, <2>1, <2>2, TurnAppends DEF AppendInTurn
<1>8. \/ Head(owed[p]) \in Roles /\ AppendTurn([job |-> JobOf(p), role |-> Head(owed[p])])
      \/ UNCHANGED appended /\ ~(Write(p) /\ Head(owed[p]) \in Roles)
  BY DEF Write, WriteFails, Record, PersistTurns, PersistJobResult, Roles
<1> QED
  BY <1>6, <1>7, <1>8

\* With nobody at work nothing is owed.
LEMMA QuietAppends ==
  ASSUME TogetherBase, SessionExpires \/ PendingExpires \/ UNCHANGED allVars
  PROVE  AppendInTurn'
<1>1. CASE SessionExpires \/ PendingExpires
  <2>1. \A p \in Processes : Free(p)
    BY <1>1, AppendingAt DEF SessionExpires, PendingExpires, Quiet, Processes
  <2>2. UNCHANGED <<owed, appended>>
    BY <1>1 DEF SessionExpires, PendingExpires, recordVars
  <2> QED
    BY <2>1, <2>2 DEF AppendInTurn, Free, TogetherBase, Processes
<1>2. CASE UNCHANGED allVars
  <2>1. UNCHANGED <<owed, appended, slot, log, held>>
    BY <1>2 DEF allVars, vars, redisVars, recordVars
  <2>2. \A q : JobOf(q)' = JobOf(q)
    BY <2>1 DEF JobOf, Job
  <2> QED
    BY <2>1, <2>2 DEF AppendInTurn, Free, TogetherBase
<1> QED
  BY <1>1, <1>2

\* As long as nothing but expiries, or one thing, has come, one process at a
\* time appends, and an answer right behind its question
\* (conversation.py:384-389).
THEOREM TogetherCorrect == OnlyFailures => (RecordsSpec => []TogetherInv)
<1>1. CASE OnlyFailures
  <2>1. "overlap" \notin Hazards
    BY <1>1 DEF OnlyFailures
  <2>2. ASSUME StreamInv, RecordsInv, SpeechInv, MemoryInv, CacheInv, TogetherInv,
               [RecordsNext]_allVars
        PROVE  TogetherInv'
    <3> SUFFICES ASSUME Calm' PROVE TurnInv' /\ AppendInTurn'
      BY DEF TogetherInv
    <3>1. Calm
      BY <2>2, CalmBefore DEF StreamInv, Typed
    <3>2. TogetherBase
      BY <2>2, <3>1 DEF TogetherInv, TogetherBase
    <3>3. TurnInv'
      BY <1>1, <2>2, <3>2, RecordsStepTurn DEF TogetherBase
    <3>4. AppendInTurn'
      BY <1>1, <2>2, <3>2, CallAppends, WorkerAppends, WriteAppends, QuietAppends
         DEF RecordsNext
    <3> QED
      BY <3>3, <3>4
  <2>3. StreamInv /\ SpeechInv /\ CacheInv /\ [RecordsNext]_allVars => CacheInv'
    BY <2>1, RecordsStepCache
  <2>4. RecordsInit => TogetherInv
    <3> SUFFICES ASSUME RecordsInit PROVE TurnInv /\ AppendInTurn
      BY DEF TogetherInv
    <3>1. Len(appended) = 0 /\ \A p \in Processes : Free(p)
      BY DEF RecordsInit, Free
    <3>2. \A k : ~(k \in 1..Len(appended))
      BY <3>1, SMT
    <3>3. AppendInTurn
      BY <3>1, <3>2 DEF AppendInTurn, Processes
    <3> QED
      BY <3>3, InitTurn DEF RecordsInit
  <2>5. RecordsInit => SpeechInv /\ CacheInv
    BY InitSpeech, InitCache DEF RecordsInit
  <2> QED
    BY <2>2, <2>3, <2>4, <2>5, RecordsStepSpeech, RecordsKeepStream, RecordsCorrect,
       MemoryCorrect, PTL DEF RecordsSpec
<1> QED
  BY <1>1

\* The history is made of whole exchanges: an answer in it stands right
\* behind its question, through expiries alone or until the first failure and
\* one thing more (conversation.py:384-389).
THEOREM ExchangesCorrect == OnlyFailures => (RecordsSpec => []ExchangesStayTogether)
<1>1. ASSUME RecordsInv, MemoryInv, TogetherInv
      PROVE  ExchangesStayTogether
  <2> SUFFICES ASSUME Calm, NEW i \in 2..Len(history),
                      history[i].role = "assistant"
               PROVE  history[i - 1] = [job |-> history[i].job, role |-> "user"]
    BY DEF ExchangesStayTogether
  <2> DEFINE gone == Len(appended) - Len(history)
  <2>1. Len(history) \in Nat /\ Len(appended) \in Nat
    BY <1>1 DEF RecordsInv, RecordsTypeOK
  <2>2. /\ gone \in Nat
        /\ \A k \in 1..Len(history) : history[k] = appended[gone + k]
    BY <1>1, <2>1, SMT DEF MemoryInv, HistoryIsRecent
  <2>3. /\ i \in 1..Len(history) /\ i - 1 \in 1..Len(history)
        /\ gone + i \in 1..Len(appended) /\ (gone + i) - 1 = gone + (i - 1)
    BY <2>1, <2>2, SMT
  <2>4. /\ history[i] = appended[gone + i]
        /\ history[i - 1] = appended[(gone + i) - 1]
    BY <2>2, <2>3
  <2> QED
    BY <1>1, <2>3, <2>4 DEF TogetherInv, AppendInTurn
<1>2. CASE OnlyFailures
  BY <1>1, <1>2, TogetherCorrect, MemoryCorrect, RecordsCorrect, PTL
<1> QED
  BY <1>2

=============================================================================

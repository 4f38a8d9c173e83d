-------------------------- MODULE ConversationRecords --------------------------
(***************************************************************************)
(* What a conversation leaves on record: the turns in the Redis list that  *)
(* the language model is given as history, the mirror of those turns in    *)
(* PostgreSQL, and the outcome of each job there.                          *)
(*                                                                         *)
(* Conversation says what calls and workers do; here each of them also has *)
(* writes it owes the records, done one at a time before its next step.    *)
(* The code swallows their errors, so a failed write is skipped, and with  *)
(* it the rest of its try block.  A record is lost with the process that   *)
(* owed it.                                                                *)
(***************************************************************************)
EXTENDS Conversation

CONSTANT TurnLimit   \* session_turn_limit, the turns LTRIM keeps

ASSUME TurnLimitAssumption == TurnLimit \in Nat

VARIABLES
  owed,      \* the writes each process has still to do
  history,   \* the list of turns of the conversation
  mirrored,  \* the exchanges in the table conversation_turns
  rows,      \* the status of each job in the table job_results
  appended,  \* history: every turn that was ever appended
  lost       \* history: exchanges that need not be remembered, because an
             \* append failed, its process died or the session expired

recordVars == <<owed, history, mirrored, rows, appended, lost>>
allVars == <<vars, recordVars>>

Roles == {"user", "assistant"}
Items == Roles \cup {"turns", "ok", "error"}
Turns == [job : Deliveries, role : Roles]

RecordsTypeOK ==
  /\ owed \in [Processes -> Seq(Items)]
  /\ history \in Seq(Turns)
  /\ mirrored \subseteq Deliveries
  /\ rows \in [Deliveries -> {"none", "ok", "error"}]
  /\ appended \in Seq(Turns)
  /\ lost \subseteq Deliveries

RecordsInit ==
  /\ Init
  /\ owed = [p \in Processes |-> << >>]
  /\ history = << >> /\ appended = << >>
  /\ mirrored = {} /\ lost = {}
  /\ rows = [j \in Deliveries |-> "none"]

-----------------------------------------------------------------------------
(* Which step owes what.                                                   *)

Exchange == <<"user", "assistant">>
MirroredExchange == <<"user", "assistant", "turns">>

\* A fast answer is appended and mirrored before its follow-up is kept.
OwedByCall(d) ==
  IF pc[d] = "ask" /\ pc'[d] \in {"save", "keep"}
  THEN MirroredExchange ELSE << >>

Settles(w, status) ==
  pc[w] = "commit" /\ pc'[w] = "ack" /\ call[w].write.status = status

\* Mutant of OwedByWorker: the failure is on record before mark_failed.
OwedByWorker_Early(w) ==
  CASE pc[w] = "generate" /\ pc'[w] = "publish" -> Exchange
    [] Settles(w, "ready")                      -> <<"turns", "ok">>
    [] pc[w] = "generate" /\ pc'[w] = "fail"    -> <<"error">>
    [] OTHER                                    -> << >>

\* A deferred answer is appended before mark_ready, and on record in the
\* database only if mark_ready was accepted; a failure is, accepted or not.
OwedByWorker(w) ==
  CASE pc[w] = "generate" /\ pc'[w] = "publish" -> Exchange
    [] Settles(w, "ready")                      -> <<"turns", "ok">>
    [] Settles(w, "failed")                     -> <<"error">>
    [] pc[w] = "fail" /\ pc'[w] = "ack"         -> <<"error">>
    [] OTHER                                    -> << >>

-----------------------------------------------------------------------------
(* The writes.                                                             *)

Free(p) == owed[p] = << >>
JobOf(p) == IF p \in Deliveries THEN p ELSE Job(p)

\* Mutant of Trimmed: LTRIM keeps the oldest turns.
Trimmed_Oldest(turns) ==
  IF TurnLimit = 0 \/ Len(turns) <= TurnLimit THEN turns
  ELSE SubSeq(turns, 1, TurnLimit)

\* LTRIM -limit -1; a limit of 0 keeps everything, since -0 is 0.
Trimmed(turns) ==
  IF TurnLimit = 0 \/ Len(turns) <= TurnLimit THEN turns
  ELSE SubSeq(turns, Len(turns) - TurnLimit + 1, Len(turns))

AppendTurn(turn) ==
  /\ history' = Trimmed(Append(history, turn))
  /\ appended' = Append(appended, turn)
  /\ UNCHANGED <<mirrored, rows>>

PersistTurns(j) ==
  /\ mirrored' = mirrored \cup {j}
  /\ UNCHANGED <<history, appended, rows>>

\* job_id is unique: a second row of a job raises, and the error is swallowed.
PersistJobResult(j, status) ==
  /\ rows' = IF rows[j] = "none" THEN [rows EXCEPT ![j] = status] ELSE rows
  /\ UNCHANGED <<history, appended, mirrored>>

Record(j, item) ==
  \/ item \in Roles /\ AppendTurn([job |-> j, role |-> item])
  \/ item = "turns" /\ PersistTurns(j)
  \/ item \in {"ok", "error"} /\ PersistJobResult(j, item)

Write(p) ==
  /\ ~Free(p)
  /\ Record(JobOf(p), Head(owed[p]))
  /\ owed' = [owed EXCEPT ![p] = Tail(@)]
  /\ UNCHANGED <<vars, lost>>

\* Mutant of AfterFailure: each write of the analytics has its own try.
AfterFailure_Separately(items) ==
  IF Head(items) \in Roles THEN << >> ELSE Tail(items)

\* The turns are appended in one try block, the analytics are in another.
AfterFailure(items) ==
  IF Head(items) \in Roles /\ items[Len(items)] = "turns" THEN <<"turns">>
  ELSE << >>

\* A write raises, having taken effect or not.
WriteFails(p) ==
  /\ Fault
  /\ ~Free(p)
  /\ \/ Record(JobOf(p), Head(owed[p]))
     \/ UNCHANGED <<history, appended, mirrored, rows>>
  /\ owed' = [owed EXCEPT ![p] = AfterFailure(@)]
  /\ lost' = lost \cup {j \in {JobOf(p)} : Head(owed[p]) \in Roles}
  /\ UNCHANGED <<redisVars, pc, seen, resp, call, held, kind, settled>>

-----------------------------------------------------------------------------
stored == UNCHANGED <<history, mirrored, rows, appended>>

CallMoves(d) ==
  /\ Free(d)
  /\ Receive(d) \/ HandlerStep(d) \/ EnqueueFails(d) \/ Abort(d)
  /\ owed' = [owed EXCEPT ![d] = OwedByCall(d)]
  /\ UNCHANGED lost /\ stored

\* A call that dies with writes to do has not come to its next command.
CallDies(d) ==
  /\ ~Free(d)
  /\ Abort(d) /\ idem' = idem
  /\ owed' = [owed EXCEPT ![d] = << >>]
  /\ lost' = lost \cup {d}
  /\ stored

WorkerMoves(w) ==
  /\ Free(w)
  /\ WorkerStep(w) \/ WorkerDrop(w) \/ WorkerError(w)
  /\ owed' = [owed EXCEPT ![w] = OwedByWorker(w)]
  /\ UNCHANGED lost /\ stored

WorkerDies(w) ==
  /\ ~Free(w)
  /\ WorkerDrop(w)
  /\ owed' = [owed EXCEPT ![w] = << >>]
  /\ UNCHANGED lost /\ stored

\* Both keys outlive every call and job: their TTLs are a day and half an
\* hour, the deadlines 2.2 and 20 seconds.
Quiet ==
  /\ \A d \in Deliveries : ~Busy(d)
  /\ \A w \in Workers : pc[w] = "idle"

SessionExpires ==
  /\ Quiet
  /\ history # << >>
  /\ history' = << >>
  /\ lost' = lost \cup {appended[i].job : i \in 1..Len(appended)}
  /\ UNCHANGED <<vars, owed, mirrored, rows, appended>>

PendingExpires ==
  /\ Quiet
  /\ Expire
  /\ UNCHANGED recordVars

RecordsNext ==
  \/ \E d \in Deliveries : CallMoves(d) \/ CallDies(d)
  \/ \E w \in Workers : WorkerMoves(w) \/ WorkerDies(w)
  \/ \E p \in Processes : Write(p) \/ WriteFails(p)
  \/ SessionExpires \/ PendingExpires

RecordsSpec == RecordsInit /\ [][RecordsNext]_allVars

-----------------------------------------------------------------------------
(* Properties.                                                             *)

Told(j) == \E d \in Deliveries : Said(d) /\ resp[d].say = "answer" /\ resp[d].job = j

\* The history is made of whole exchanges: an answer in it stands right
\* behind its question, although a call and a worker append with separate
\* commands (conversation.py:384-389).  The PROCESSING record keeps them apart.
\* A failure and another failure or expiry can part them: a mark_failed of a
\* job whose record was cleared or has expired, late enough to hit the record
\* of the next one.  Expiries alone, however many, do not.
Calm == faults = 0 \/ faults + expiries < 2

ExchangesStayTogether ==
  \A i \in 2..Len(history) :
    Calm /\ history[i].role = "assistant" =>
      history[i - 1] = [job |-> history[i].job, role |-> "user"]

\* What the user has been told is in the history, from whose end the prompt is
\* made, or as many turns as the list keeps came after it
\* (conversation.py:121-125, 263; stores.py:95-99).
ToldIsRemembered ==
  \A j \in Deliveries : Told(j) /\ j \notin lost =>
    \E k \in 1..Len(appended) :
      /\ appended[k] = [job |-> j, role |-> "assistant"]
      /\ \/ \E i \in 1..Len(history) : history[i] = appended[k]
         \/ TurnLimit > 0 /\ Len(appended) - k >= TurnLimit

\* A job on record as failed was never told (conversation.py:277-287).
FailedRowNeverTold == \A j \in Deliveries : rows[j] = "error" => ~Told(j)

\* A job on record as answered has its turns on record too: a persist_turns
\* that fails skips the row (conversation.py:391-411).
AnsweredRowHasTurns == \A j \in Deliveries : rows[j] = "ok" => j \in mirrored

\* Why the last one holds: a row is owed only behind its turns.
OwedInOrder ==
  /\ \A d \in Deliveries :
       owed[d] \in {MirroredExchange, <<"assistant", "turns">>, <<"turns">>, << >>}
  /\ \A w \in Workers :
       \/ owed[w] = << >>
       \/ pc[w] = "publish" /\ owed[w] \in {Exchange, <<"assistant">>}
       \/ pc[w] = "ack" /\ owed[w] \in {<<"turns", "ok">>, <<"error">>}
       \/ pc[w] = "ack" /\ owed[w] = <<"ok">> /\ Job(w) \in mirrored

RecordsInv == RecordsTypeOK /\ OwedInOrder /\ AnsweredRowHasTurns

\* A job whose outcome is written adds nothing to the history any more: an
\* entry delivered again is skipped before it is put to the model
\* (conversation.py:243-256).
SettledJobAddsNothing ==
  [][\A p \in Workers : Write(p) /\ Head(owed[p]) \in Roles => Job(p) \notin settled]_allVars

=============================================================================

-------------------- MODULE ConversationRecordsInvariants --------------------
(***************************************************************************)
(* The inductive invariants behind the properties of ConversationRecords:  *)
(* where the answers are that have been given, that each of them is on     *)
(* record (MemoryInv), that a settled job is over (SettledInv), that a     *)
(* failed one is answered nowhere (FailureInv), and which halves of an     *)
(* exchange the history lacks while its turn is appended (TogetherInv).    *)
(***************************************************************************)
EXTENDS ConversationRecords, ConversationInvariants

-----------------------------------------------------------------------------
(* Where answers are.                                                      *)

\* The jobs whose answer a record or a response carries.
AnswerIn(p) == IF p.text # "unset" THEN {p.job} ELSE {}
AnswerOf(r) == IF r.say = "answer" THEN {r.job} ELSE {}

\* Those in the hands of call d, and those any call may come to read.
Hand(d) == AnswerOf(resp[d]) \cup AnswerIn(call[d].write)

Shelf ==
  {j \in Deliveries \cup {NoJob} :
     \/ j \in AnswerIn(slot)
     \/ \E d \in Deliveries : j \in AnswerIn(seen[d])
     \/ \E k \in Deliveries : j \in AnswerOf(idem[k])}

-----------------------------------------------------------------------------
(* The history.                                                            *)

Remembered ==
  {j \in Deliveries :
     \/ j \in lost
     \/ \E k \in 1..Len(appended) : appended[k] = [job |-> j, role |-> "assistant"]}

\* The list is the end of all that was appended; what is no longer in it had
\* its turns lost or was pushed out.
HistoryIsRecent ==
  LET gone == Len(appended) - Len(history)
  IN  /\ gone >= 0
      /\ \A i \in 1..Len(history) : history[i] = appended[gone + i]
      /\ \A k \in 1..gone :
           \/ appended[k].job \in lost
           \/ TurnLimit > 0 /\ Len(appended) - k >= TurnLimit

\* An answer is appended before it leaves the hands of who gives it.
MemoryInv ==
  /\ Shelf \subseteq Remembered
  /\ \A d \in Deliveries :
       /\ ~Free(d) => pc[d] \in {"save", "keep"}
       /\ Hand(d) \subseteq Remembered \cup {e \in {d} : ~Free(d)}
       /\ owed[d] = <<"turns">> => d \in Remembered
  /\ \A w \in Workers :
       /\ pc[w] = "commit" => call[w].next = "ack"
       /\ pc[w] \in {"publish", "commit"} /\ call[w].write.text # "unset" =>
            call[w].write.job = Job(w) /\ call[w].write.status = "ready"
       /\ pc[w] = "publish" /\ Free(w) => Job(w) \in Remembered
       /\ pc[w] = "commit" /\ call[w].write.text # "unset" => Job(w) \in Remembered
  /\ HistoryIsRecent

-----------------------------------------------------------------------------
(* The jobs, when no entry is reclaimed from a worker still busy with it.  *)

\* A worker that may still give job j an answer.
Answering(w) ==
  \/ pc[w] \in {"generate", "publish"}
  \/ pc[w] = "commit" /\ call[w].write.status # "failed"

OneHolder ==
  /\ \A i, j \in 1..Len(log) : log[i] = log[j] => i = j
  /\ \A v, w \in Workers : pc[v] # "idle" /\ pc[w] # "idle" /\ held[v] = held[w] => v = w

\* The job is queued, is not PROCESSING any more and has nobody to answer it.
Closed(j) ==
  /\ j \in Queued /\ slot # Processing(j)
  /\ \A w \in Workers : Answering(w) => Job(w) # j

SettledInv == OneHolder /\ \A j \in settled : Closed(j)

-----------------------------------------------------------------------------
(* And when at most one thing fails.                                       *)

Unanswered(j) == j \notin Shelf /\ \A d \in Deliveries : j \notin Hand(d)

\* A worker comes to fail a job only while the job has no answer, and the row
\* that says so is written, or owed, when it can get none any more.
FailureInv ==
  /\ \A w \in Workers :
       /\ pc[w] \in {"generate", "publish", "fail", "commit"} => Unanswered(Job(w))
       /\ faults = 0 /\ pc[w] = "check" => Unanswered(Job(w))
       /\ owed[w] = <<"error">> => Unanswered(Job(w)) /\ Closed(Job(w))
  /\ faults = 0 =>
       /\ \A i \in 1..Len(log) : i > cursor => Unanswered(log[i])
       /\ \A i \in pel : \E w \in Workers : pc[w] # "idle" /\ held[w] = i
  /\ \A j \in Deliveries :
       /\ slot = Processing(j) => Unanswered(j)
       /\ resp[j] = Unsaid => Unanswered(j)
       /\ rows[j] = "error" => Unanswered(j) /\ Closed(j)

-----------------------------------------------------------------------------
(* Until a failure and something else have come, when calls are in turn.   *)

Appending(p) == ~Free(p) /\ Head(owed[p]) \in Roles

\* A call owes the records something only while there is no record, a worker
\* appends only while its job is PROCESSING (TurnInv), so one at a time does;
\* who has an answer to append has just appended its question.
AppendInTurn ==
  /\ \A d \in Deliveries : ~Free(d) => slot = NoPending
  /\ \A p \in Processes : ~Free(p) /\ Head(owed[p]) = "assistant" =>
       /\ Len(appended) > 0
       /\ appended[Len(appended)] = [job |-> JobOf(p), role |-> "user"]
  /\ \A k \in 1..Len(appended) : appended[k].role = "assistant" =>
       /\ k > 1
       /\ appended[k - 1] = [job |-> appended[k].job, role |-> "user"]

TogetherInv == Calm => TurnInv /\ AppendInTurn

=============================================================================

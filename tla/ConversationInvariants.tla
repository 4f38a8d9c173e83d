----------------------- MODULE ConversationInvariants -----------------------
(***************************************************************************)
(* The inductive invariants behind the properties of Conversation: what a  *)
(* call has said at each of its steps, whatever goes wrong (SpeechInv),    *)
(* and, when calls are served one after another, what the record, the      *)
(* stream and the cache are while a call or a worker is at each of its     *)
(* steps (CacheInv, TurnInv, ToldInv).                                     *)
(***************************************************************************)
EXTENDS Conversation

\* The step call d is at, or goes to after the SET it is about to make.
Heading(d) == IF pc[d] = "commit" THEN call[d].next ELSE pc[d]

-----------------------------------------------------------------------------
(* What calls say and keep, for all hazards.                               *)

\* The answers whose head some call has told, or failed while telling.
HeadsOut ==
  {j \in Deliveries \cup {NoJob} :
     \E e \in Deliveries :
       \/ resp[e] = Tell(j, "head")
       \/ resp[e] = Unavailable /\ (e = j \/ seen[e].job = j)}

\* A record that awaits its tail shows the head; no record is half absent.
Shaped(p) ==
  /\ p.hasTail => p.text = "head" /\ p.mode = "ready_tail"
  /\ p.status = "absent" => p = NoPending
  /\ p.text = "tail" => p.job \in HeadsOut

\* A call says nothing before it has decided, has said something when it
\* keeps, marks or saves it, and marks what it tells of the record it read.
FitToBeAt(d, label) ==
  /\ label # "commit"
  /\ label \in {"idle", "load", "ask", "defer", "recheck", "enqueue"} => resp[d] = Unsaid
  /\ label \in {"keep", "offer", "deliver", "advance", "save", "done"} => resp[d] # Unsaid
  /\ label \in {"deliver", "advance"} => resp[d] = Tell(seen[d].job, seen[d].text)
  /\ label = "advance" => seen[d].hasTail

\* It tells its own answer or the one it has read, and a tail after its head.
TellsItsOwn(d) ==
  /\ Busy(d) /\ resp[d].say = "answer" => resp[d].job \in {d, seen[d].job}
  /\ resp[d].text = "tail" => resp[d].job \in HeadsOut

SpeechInv ==
  /\ \A d \in Deliveries :
       FitToBeAt(d, Heading(d)) /\ TellsItsOwn(d) /\ Shaped(seen[d])
  /\ \A p \in Processes : Shaped(call[p].write)
  /\ Shaped(slot)
  /\ \A k \in Deliveries : idem[k].text = "tail" => idem[k].job \in HeadsOut

-----------------------------------------------------------------------------
(* One call at a time.                                                     *)

OneCall == \A d, e \in Deliveries : Busy(d) /\ Busy(e) => d = e

\* The cache holds what the request was answered, and nothing while a call
\* still works on it; only a failed call ends without saving.
CacheInv ==
  /\ OneCall
  /\ \A d \in Deliveries :
       /\ Busy(d) => idem[KeyOf[d]] = Unsaid
       /\ Busy(d) => Heading(d) # "idle"
       /\ Busy(d) /\ Heading(d) = "done" => resp[d] = Unavailable
       /\ Said(d) /\ resp[d] # Unavailable => idem[KeyOf[d]] = resp[d]

-----------------------------------------------------------------------------
(* Calls in turn, at most one failure, and no expiry of the key while      *)
(* somebody is at work: the steps of a call and of a worker on the record  *)
(* fit together.                                                           *)

\* clear_pending, of the job that was not queued or of a record done with.
Clearing(d) ==
  \/ resp[d] = Unavailable /\ slot = Processing(d) /\ d \notin Queued
  \/ /\ resp[d] # Unavailable
     /\ slot.status \in {"failed", "delivered"} /\ slot.job = seen[d].job

\* mark_delivered of the record the call tells, and mark_ready of its tail.
Delivering(d) == slot = seen[d] /\ slot.status = "ready"
Advancing(d) == slot = Delivered(seen[d]) /\ seen[d].status # "absent"

\* mark_ready of what a fast answer keeps, and mark_delivered of an offer.
Keeping(d, write) ==
  /\ slot = NoPending
  /\ \E r \in Replies :
       r.mode # "none" /\ write = ImmediateFollowup(d, r) /\ resp[d] = Tell(d, r.text)

Offering(d) ==
  /\ slot.status = "ready" /\ slot.job = d /\ slot.mode = "deferred_offer"
  /\ resp[d] = Tell(d, slot.text)

\* The SET or DEL that call d is about to make.
Writing(d, write, next) ==
  \/ write = NoPending /\ next = AfterClear(d) /\ Clearing(d)
  \/ write = Delivered(slot) /\ next = AfterTelling(seen[d]) /\ Delivering(d)
       /\ resp[d] = Tell(seen[d].job, seen[d].text)
  \/ write = ReadyTail(seen[d].job) /\ next = "save" /\ Advancing(d)
       /\ seen[d].hasTail /\ resp[d] = Tell(seen[d].job, seen[d].text)
  \/ /\ next = IF write.mode = "deferred_offer" THEN "offer" ELSE "save"
     /\ Keeping(d, write)
  \/ write = Delivered(slot) /\ next = "save" /\ Offering(d)

\* What record p leaves to the calls to come, when r has just been told.
ToldAway(p, r) ==
  \/ p = NoPending
  \/ p = ReadyTail(r.job) /\ r.text = "head"
  \/ AcceptsOffer(p)

CallInTurn(d) ==
  /\ pc[d] # "recheck"
  /\ pc[d] \in {"ask", "defer"} => slot = NoPending
  /\ pc[d] = "clear" => Clearing(d)
  /\ pc[d] = "deliver" => Delivering(d)
  /\ pc[d] = "advance" => Advancing(d)
  /\ pc[d] = "keep" => Keeping(d, call[d].write)
  /\ pc[d] = "offer" => Offering(d)
  /\ pc[d] = "enqueue" => slot = Processing(d) /\ d \notin Queued
  /\ pc[d] = "commit" => Writing(d, call[d].write, call[d].next)
  /\ pc[d] = "save" /\ resp[d].say = "answer" => ToldAway(slot, resp[d])

WorkerInTurn(w) ==
  /\ pc[w] = "check" /\ faults = 0 /\ expiries = 0 => slot = Processing(Job(w))
  /\ pc[w] \in {"generate", "publish", "fail", "commit"} => slot = Processing(Job(w))
  /\ pc[w] = "publish" => \E r \in Replies : call[w].write = ReadyReply(Job(w), r)
  /\ pc[w] = "commit" =>
       /\ call[w].next = "ack"
       /\ \/ call[w].write = FailedReply(Job(w))
          \/ \E r \in Replies : call[w].write = ReadyReply(Job(w), r)

\* Each job is in the stream once, each entry given is one worker's, and the
\* entries not yet given are of the job being prepared, unless its record has
\* expired.
StreamInTurn ==
  /\ \A i, j \in 1..Len(log) : log[i] = log[j] => i = j
  /\ \A v, w \in Workers : pc[v] # "idle" /\ pc[w] # "idle" /\ held[v] = held[w] => v = w
  /\ faults = 0 => \A i \in pel : \E w \in Workers : pc[w] # "idle" /\ held[w] = i
  /\ expiries = 0 =>
       /\ \A i \in 1..Len(log) : i > cursor => slot = Processing(log[i])
       /\ \A j \in Queued : slot = Processing(j) \/ j \in settled

\* A promise comes from a call that has queued its question.
PromisesInTurn ==
  /\ \A d \in Deliveries :
       resp[d] = Promise => \E e \in Deliveries : KeyOf[e] = KeyOf[d] /\ e \in Queued
  /\ \A k \in Deliveries :
       idem[k] = Promise => \E e \in Deliveries : KeyOf[e] = k /\ e \in Queued

TurnInv ==
  /\ \A d \in Deliveries : CallInTurn(d)
  /\ \A w \in Workers : WorkerInTurn(w)
  /\ StreamInTurn
  /\ PromisesInTurn

Cached == {idem[k] : k \in Deliveries}

AnswersOf(j) == {Tell(j, t) : t \in {"blank", "head", "tail"}}

\* What calls to come may still be told of record p.
Owed(p) ==
  {r \in AnswersOf(p.job) :
     \/ p.status = "processing"
     \/ Tellable(p) /\ r.text = p.text
     \/ p.hasTail /\ r.text = "tail"}

\* The calls that have neither answered nor opened a job yet.
Fresh == {j \in Deliveries : resp[j] = Unsaid /\ pc[j] # "enqueue"}

\* No answer is cached for two requests, cached while it is owed or being
\* told, or there before its call has come to it.
ToldInv ==
  /\ \A k, l \in Deliveries : idem[k].say = "answer" /\ idem[k] = idem[l] => k = l
  /\ Owed(slot) \cap Cached = {}
  /\ \A d \in Deliveries :
       Busy(d) /\ resp[d].say = "answer" =>
         /\ resp[d] \notin Cached
         /\ resp[d].job = d => AnswersOf(d) \cap Cached = {}
  /\ \A j \in Fresh :
       /\ slot.job # j
       /\ AnswersOf(j) \cap (Cached \cup {resp[d] : d \in Deliveries}) = {}

=============================================================================

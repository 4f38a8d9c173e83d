----------------------- MODULE ConversationSpeechProofs -----------------------
(***************************************************************************)
(* Proofs about what the calls of Conversation say: for every set of       *)
(* hazards the second part of an answer follows the first, and, when calls *)
(* are served one after another, deliveries of a request are answered      *)
(* alike.                                                                  *)
(***************************************************************************)
EXTENDS ConversationInvariants, ConversationProofs

-----------------------------------------------------------------------------
(* What a decision says goes with what is done next.                       *)

\* decision is fit for the record p it was taken on.
Fits(p, decision) ==
  /\ decision.next \in {"ask", "clear", "deliver", "advance", "save"}
  /\ decision.next = "ask" => decision.response = Unsaid /\ p.status = "absent"
  /\ decision.next = "save" =>
       decision.response # Unsaid /\ decision.response.say # "answer"
  /\ decision.response # Promise
  /\ decision.next = "clear" => p.status \in {"failed", "delivered"}
  /\ decision.next \in {"deliver", "advance"} => decision.response = Tell(p.job, p.text)
  /\ decision.next = "deliver" => p.status = "ready"
  /\ decision.next = "advance" => p.status = "delivered" /\ p.hasTail
  /\ decision.response.say = "answer" =>
       decision.response = Tell(p.job, p.text) /\ Tellable(p)
  /\ decision.response.say # "answer" => decision.response.text = "unset"

\* A notice, or nothing yet, is no answer.
LEMMA NoticesPlain ==
  /\ \A n \in Notices : Say(n).say # "answer" /\ Say(n).text = "unset"
  /\ \A n \in Notices \ {"unsaid", "promise"} : Say(n) # Unsaid /\ Say(n) # Promise
  /\ Unsaid # Promise /\ \A j, t : Tell(j, t) # Promise
  /\ Unsaid.say # "answer" /\ Unsaid.text = "unset"
  /\ \A j, t : Tell(j, t) # Unsaid /\ Tell(j, t).say = "answer"
               /\ Tell(j, t).text = t /\ Tell(j, t).job = j
BY DEF Say, Unsaid, Promise, Notices, Tell

\* The decision on "continue" fits the record.
LEMMA ContinueFits ==
  ASSUME NEW p \in Pending
  PROVE  Fits(p, HandleContinue(p))
<1> DEFINE told == Decision(Tell(p.job, p.text),
                     IF p.status = "ready" THEN "deliver" ELSE AfterTelling(p))
<1>1. \A n \in Notices \ {"unsaid", "promise"} : Fits(p, Decision(Say(n), "save"))
  BY NoticesPlain DEF Fits, Decision
<1>2. p.status = "failed" => Fits(p, Decision(Say("preparation_failed"), "clear"))
  BY NoticesPlain DEF Fits, Decision, Notices
<1>3. AcceptsOffer(p) => Fits(p, Decision(Unsaid, "clear"))
  BY NoticesPlain DEF Fits, Decision, AcceptsOffer
<1>4. ASSUME Tellable(p), ~AcceptsOffer(p)
      PROVE  Fits(p, told)
  <2>1. /\ p.status \in {"ready", "delivered"}
        /\ p.status = "delivered" => p.mode # "deferred_offer"
    BY <1>4 DEF Tellable, AcceptsOffer
  <2>2. CASE p.status = "ready"
    BY <1>4, <2>2, NoticesPlain DEF Fits, Decision
  <2>3. CASE p.status = "delivered" /\ p.hasTail
    <3>1. AfterTelling(p) = "advance"
      BY <2>3, Zenon DEF AfterTelling
    <3> QED
      BY <1>4, <2>3, <3>1, NoticesPlain DEF Fits, Decision
  <2>4. CASE p.status = "delivered" /\ ~p.hasTail
    <3>1. AfterTelling(p) = "clear"
      BY <2>1, <2>4 DEF AfterTelling, Pending
    <3> QED
      BY <1>4, <2>4, <3>1, NoticesPlain DEF Fits, Decision
  <2> QED
    BY <2>1, <2>2, <2>3, <2>4 DEF Pending
<1>5. Tellable(p) => ~AcceptsOffer(p)
  BY DEF Tellable
<1>6. /\ "nothing_to_continue" \in Notices \ {"unsaid", "promise"}
      /\ "still_preparing" \in Notices \ {"unsaid", "promise"}
      /\ "not_yet" \in Notices \ {"unsaid", "promise"}
  BY DEF Notices
<1> HIDE DEF told
<1>7. /\ Fits(p, Decision(Say("nothing_to_continue"), "save"))
      /\ Fits(p, Decision(Say("still_preparing"), "save"))
      /\ Fits(p, Decision(Say("not_yet"), "save"))
  BY <1>1, <1>6
<1>8. Tellable(p) => Fits(p, Decision(Tell(p.job, p.text),
                     IF p.status = "ready" THEN "deliver" ELSE AfterTelling(p)))
  BY <1>4, <1>5 DEF told
<1> QED
  BY <1>2, <1>3, <1>7, <1>8, Zenon DEF HandleContinue

\* The decision on any utterance fits the record.
LEMMA HandleFits ==
  ASSUME NEW p \in Pending, NEW k \in Kinds
  PROVE  Fits(p, Handle(k, p))
<1>1. \A n \in Notices \ {"unsaid", "promise"} : Fits(p, Decision(Say(n), "save"))
  BY NoticesPlain DEF Fits, Decision
<1>2. Fits(p, HandleQuestion(p))
  <2>1. p.status = "absent" => Fits(p, Decision(Unsaid, "ask"))
    BY NoticesPlain DEF Fits, Decision
  <2>2. p.status \in {"failed", "delivered"} => Fits(p, Decision(Unsaid, "clear"))
    BY NoticesPlain DEF Fits, Decision
  <2>3. /\ Fits(p, Decision(Say("previous_preparing"), "save"))
        /\ Fits(p, Decision(Say("previous_ready"), "save"))
    BY <1>1 DEF Notices
  <2>4. p.status \in {"absent", "processing", "ready", "delivered", "failed"}
    BY DEF Pending
  <2> QED
    BY <2>1, <2>2, <2>3, <2>4 DEF HandleQuestion
<1>3. Fits(p, Decision(Say("say_again"), "save"))
  BY <1>1 DEF Notices
<1>4. k = "blank" \/ (k # "blank" /\ IsContinueIntent(k, p))
        \/ (k # "blank" /\ ~IsContinueIntent(k, p))
  OBVIOUS
<1> QED
  BY <1>2, <1>3, <1>4, ContinueFits, Zenon DEF Handle

-----------------------------------------------------------------------------
(* What calls have said stays so.                                          *)

\* Call e says nothing new, or speaks for the first time, or fails.
SpeaksOn(e) ==
  \/ resp[e] = Unsaid
  \/ resp'[e] = resp[e] /\ seen'[e] = seen[e]
  \/ Busy(e) /\ resp'[e] = Unavailable /\ seen'[e] = seen[e]

\* A head that is out stays out.
LEMMA HeadsOutGrow ==
  ASSUME SpeechInv, \A e \in Deliveries : SpeaksOn(e)
  PROVE  HeadsOut \subseteq HeadsOut'
<1>1. /\ Unsaid # Unavailable /\ \A j : Tell(j, "head") # Unsaid
      /\ \A j : Tell(j, "head").job = j /\ Tell(j, "head").say = "answer"
  BY DEF Unsaid, Unavailable, Say, Tell
<1>2. ASSUME NEW j \in Jobs, NEW e \in Deliveries, resp[e] = Tell(j, "head")
      PROVE  \/ resp'[e] = Tell(j, "head")
             \/ resp'[e] = Unavailable /\ (e = j \/ seen'[e].job = j)
  BY <1>1, <1>2 DEF SpeaksOn, SpeechInv, TellsItsOwn
<1>3. ASSUME NEW j \in Jobs, NEW e \in Deliveries,
             resp[e] = Unavailable, e = j \/ seen[e].job = j
      PROVE  resp'[e] = Unavailable /\ (e = j \/ seen'[e].job = j)
  BY <1>1, <1>3 DEF SpeaksOn
<1> QED
  BY <1>2, <1>3 DEF HeadsOut, Jobs

\* A record keeps its shape when heads go out.
LEMMA ShapeKept ==
  ASSUME HeadsOut \subseteq HeadsOut'
  PROVE  \A p : Shaped(p) => Shaped(p)'
BY DEF Shaped

\* The records the store writes are in shape.
LEMMA RecordShapes ==
  /\ Shaped(NoPending)
  /\ \A j \in Jobs :
       /\ Shaped(Processing(j)) /\ Shaped(FailedReply(j))
       /\ j \in HeadsOut => Shaped(ReadyTail(j))
       /\ \A r \in Replies : Shaped(ReadyReply(j, r))
  /\ \A p \in Pending : Shaped(p) /\ p.status # "absent" => Shaped(Delivered(p))
BY DEF Shaped, NoPending, Processing, FailedReply, ReadyTail, ReadyReply,
       Delivered, PendingRecord, Replies, Pending

\* A step of one call: only what it says, keeps and writes is to be looked at.
LEMMA CallSpeaks ==
  ASSUME Typed, SpeechInv, NEW d \in Deliveries,
         \A q \in Processes : q # d => pc'[q] = pc[q] /\ call'[q] = call[q],
         \A e \in Deliveries : e # d => resp'[e] = resp[e] /\ seen'[e] = seen[e],
         SpeaksOn(d),
         FitToBeAt(d, Heading(d))', TellsItsOwn(d)', Shaped(seen[d])',
         Shaped(call[d].write)', Shaped(slot)',
         \A k \in Deliveries : idem'[k] \in {idem[k], resp[d]}
  PROVE  SpeechInv'
<1>1. HeadsOut \subseteq HeadsOut'
  BY HeadsOutGrow DEF SpeaksOn
<1>2. ASSUME NEW e \in Deliveries, e # d
      PROVE  FitToBeAt(e, Heading(e))' /\ TellsItsOwn(e)' /\ Shaped(seen[e])'
  <2>1. /\ FitToBeAt(e, Heading(e)) /\ TellsItsOwn(e) /\ Shaped(seen[e])
        /\ resp'[e] = resp[e] /\ seen'[e] = seen[e]
        /\ pc'[e] = pc[e] /\ call'[e] = call[e]
    BY <1>2 DEF SpeechInv, Processes
  <2>2. Heading(e)' = Heading(e)
    BY <2>1 DEF Heading
  <2>3. FitToBeAt(e, Heading(e))'
    BY <2>1, <2>2 DEF FitToBeAt
  <2>4. TellsItsOwn(e)' /\ Shaped(seen[e])'
    BY <1>1, <2>1 DEF TellsItsOwn, Shaped, Busy
  <2> QED
    BY <2>3, <2>4
<1>3. ASSUME NEW q \in Processes, q # d
      PROVE  Shaped(call[q].write)'
  BY <1>1, <1>3 DEF SpeechInv, Shaped
<1>4. ASSUME NEW k \in Deliveries, idem'[k].text = "tail"
      PROVE  idem'[k].job \in HeadsOut'
  BY <1>1, <1>4 DEF SpeechInv, TellsItsOwn
<1> QED
  BY <1>2, <1>3, <1>4 DEF SpeechInv

\* A step of one worker: only what it writes is to be looked at.
LEMMA WorkerSpeaks ==
  ASSUME SpeechInv, NEW w \in Workers,
         \A q \in Processes : q # w => pc'[q] = pc[q] /\ call'[q] = call[q],
         UNCHANGED <<idem, resp, seen>>, Shaped(call'[w].write), Shaped(slot')
  PROVE  SpeechInv'
<1>1. HeadsOut' = HeadsOut
  BY DEF HeadsOut
<1>2. \A d \in Deliveries : d # w /\ d \in Processes
  BY WorkersAssumption DEF Processes
<1>3. ASSUME NEW d \in Deliveries
      PROVE  FitToBeAt(d, Heading(d))' /\ TellsItsOwn(d)' /\ Shaped(seen[d])'
  <2>1. pc'[d] = pc[d] /\ call'[d] = call[d]
    BY <1>2
  <2> QED
    BY <1>1, <2>1 DEF SpeechInv, FitToBeAt, Heading, TellsItsOwn, Busy, Shaped
<1>4. \A q \in Processes : Shaped(call[q].write)'
  BY <1>1 DEF SpeechInv, Shaped
<1>5. Shaped(slot)'
  BY <1>1 DEF Shaped
<1> QED
  BY <1>1, <1>3, <1>4, <1>5 DEF SpeechInv

\* The read of a store call by a webhook call.
LEMMA ReadSpeaks ==
  ASSUME Typed, SpeechInv, NEW d \in Deliveries, pc[d] \notin {"idle", "done"},
         NEW STATE permitted, NEW STATE payload, NEW STATE next, NEW STATE onSkip,
         permitted => Shaped(payload),
         FitToBeAt(d, next), FitToBeAt(d, onSkip),
         ReadThenWrite(d, permitted, payload, next, onSkip)
  PROVE  SpeechInv'
<1>1. /\ \A q \in Processes : q # d => pc'[q] = pc[q] /\ call'[q] = call[q]
      /\ UNCHANGED <<slot, idem, resp, seen>> /\ d \in Processes
  BY DEF ReadThenWrite, Goto, redisVars, Typed, TypeOK, ControlTypeOK, CallTypeOK, Processes
<1>2. \/ /\ permitted /\ pc'[d] = "commit"
         /\ call'[d] = [write |-> payload, next |-> next]
      \/ pc'[d] = onSkip /\ call'[d] = NoCall
  BY DEF ReadThenWrite, Goto, Typed, TypeOK, ControlTypeOK, CallTypeOK, Processes
<1>3. \E label \in {next, onSkip} : Heading(d)' = label
  BY <1>2 DEF Heading, FitToBeAt
<1>4. FitToBeAt(d, Heading(d))'
  BY <1>1, <1>3 DEF FitToBeAt
<1>5. HeadsOut' = HeadsOut
  BY <1>1 DEF HeadsOut
<1>6. Shaped(call'[d].write)
  BY <1>2, RecordShapes DEF NoCall
<1>7. Shaped(call[d].write)' /\ Shaped(seen[d])' /\ Shaped(slot)'
  BY <1>1, <1>5, <1>6 DEF SpeechInv, Shaped
<1>8. TellsItsOwn(d)'
  BY <1>1, <1>5 DEF SpeechInv, TellsItsOwn, Busy
<1> QED
  BY <1>1, <1>4, <1>7, <1>8, CallSpeaks DEF SpeaksOn

\* What follows a told record fits a call that has told it.
LEMMA AfterTellingFits ==
  ASSUME NEW d \in Deliveries, seen[d] \in Pending,
         resp[d] = Tell(seen[d].job, seen[d].text)
  PROVE  FitToBeAt(d, AfterTelling(seen[d]))
<1>1. AfterTelling(seen[d]) \in {"advance", "save", "clear"}
  BY AfterTellingType
<1>2. AfterTelling(seen[d]) = "advance" => seen[d].hasTail
  BY DEF AfterTelling, Pending, Modes
<1> QED
  BY <1>1, <1>2, NoticesPlain DEF FitToBeAt

\* What follows a cleared record is one of four things.
LEMMA AfterClearType ==
  ASSUME NEW d \in Deliveries
  PROVE  /\ AfterClear(d) \in {"done", "save", "defer", "ask"}
         /\ AfterClear(d) = "done" => resp[d] = Unavailable
<1>1. CASE resp[d] = Unavailable
  BY <1>1, Zenon DEF AfterClear
<1>2. CASE resp[d] = Unsaid /\ resp[d] # Unavailable
  <2>1. AfterClear(d) \in {"defer", "ask"}
    BY <1>2, Zenon DEF AfterClear
  <2> QED
    BY <2>1
<1>3. CASE resp[d] \notin {Unsaid, Unavailable}
  <2>1. AfterClear(d) = "save"
    BY <1>3, Zenon DEF AfterClear
  <2> QED
    BY <2>1
<1>4. resp[d] = Unavailable \/ resp[d] \in {Unsaid, Unavailable} \/ resp[d] \notin {Unsaid, Unavailable}
  OBVIOUS
<1> QED
  BY <1>1, <1>2, <1>3, <1>4

\* What follows a cleared record fits what the call has said.
LEMMA ClearFits ==
  ASSUME NEW d \in Deliveries
  PROVE  FitToBeAt(d, AfterClear(d))
<1>1. Unavailable # Unsaid
  BY DEF Unavailable, Unsaid, Say
<1>2. CASE resp[d] = Unavailable
  <2>1. AfterClear(d) = "done"
    BY <1>1, <1>2, Zenon DEF AfterClear
  <2> QED
    BY <1>1, <1>2, <2>1 DEF FitToBeAt
<1>3. CASE resp[d] = Unsaid
  <2>1. AfterClear(d) \in {"defer", "ask"}
    BY <1>1, <1>3, Zenon DEF AfterClear
  <2> QED
    BY <1>3, <2>1 DEF FitToBeAt
<1>4. CASE resp[d] \notin {Unsaid, Unavailable}
  <2>1. AfterClear(d) = "save"
    BY <1>4, Zenon DEF AfterClear
  <2> QED
    BY <1>4, <2>1 DEF FitToBeAt
<1> QED
  BY <1>2, <1>3, <1>4

\* Every step of a webhook call keeps what it says in order.
LEMMA HandlerSpeech ==
  ASSUME StreamInv, SpeechInv, NEW d \in Deliveries,
         HandlerStep(d) \/ Receive(d) \/ Abort(d) \/ EnqueueFails(d)
  PROVE  SpeechInv'
<1> USE DEF localUnchanged, redisVars
<1>1. Typed
  BY DEF StreamInv, Typed
<1>2. /\ d \in Processes /\ resp[d] \in Responses /\ slot \in Pending
      /\ seen[d] \in Pending /\ call[d].write \in Pending /\ kind[KeyOf[d]] \in Kinds
  BY <1>1, KeyOfAssumption
     DEF Processes, Typed, TypeOK, LocalTypeOK, RedisTypeOK, CallTypeOK
<1>3. /\ FitToBeAt(d, Heading(d)) /\ TellsItsOwn(d)
      /\ Shaped(seen[d]) /\ Shaped(slot) /\ Shaped(call[d].write)
      /\ pc[d] # "commit" => FitToBeAt(d, pc[d])
  BY <1>2 DEF SpeechInv, Heading
<1>4. /\ \A r : /\ [resp EXCEPT ![d] = r][d] = r
                /\ \A e \in Deliveries : e # d => [resp EXCEPT ![d] = r][e] = resp[e]
      /\ \A l : /\ [pc EXCEPT ![d] = l][d] = l
                /\ \A q \in Processes : q # d => [pc EXCEPT ![d] = l][q] = pc[q]
  BY <1>1, <1>2 DEF Typed, TypeOK, LocalTypeOK, ControlTypeOK
\* A step that says r, goes to label and leaves the record and the cache.
<1>5. ASSUME NEW r, NEW label, pc[d] \notin {"commit", "done"}, label # "commit",
             resp' = [resp EXCEPT ![d] = r], Goto(d, label),
             UNCHANGED <<slot, idem, seen, call>>,
             resp[d] = Unsaid \/ r = resp[d] \/ (r = Unavailable /\ Busy(d)),
             FitToBeAt(d, label)',
             r.say = "answer" => label = "done" \/ r.job \in {d, seen[d].job},
             r.text = "tail" => r.job \in HeadsOut
      PROVE  SpeechInv'
  <2>1. /\ \A q \in Processes : q # d => pc'[q] = pc[q]
        /\ pc'[d] = label /\ resp'[d] = r
        /\ \A e \in Deliveries : e # d => resp'[e] = resp[e]
    BY <1>4, <1>5 DEF Goto
  <2>2. SpeaksOn(d) /\ HeadsOut \subseteq HeadsOut'
    <3>1. SpeaksOn(d) /\ \A e \in Deliveries : e # d => SpeaksOn(e)
      BY <1>5, <2>1 DEF SpeaksOn
    <3> QED
      BY <3>1, HeadsOutGrow
  <2>3. Heading(d)' = label
    BY <1>5, <2>1 DEF Heading
  <2>4. Shaped(call[d].write)' /\ Shaped(seen[d])' /\ Shaped(slot)'
    BY <1>3, <1>5, <2>2 DEF Shaped
  <2>5. TellsItsOwn(d)'
    BY <1>5, <2>1, <2>2 DEF TellsItsOwn, Busy
  <2> QED
    BY <1>1, <1>5, <2>1, <2>2, <2>3, <2>4, <2>5, CallSpeaks
<1>6. CASE Receive(d)
  <2>1. /\ resp[d] = Unsaid
        /\ idem[KeyOf[d]].text = "tail" => idem[KeyOf[d]].job \in HeadsOut
    BY <1>3, <1>6, KeyOfAssumption DEF Receive, FitToBeAt, SpeechInv
  <2>2. PICK label \in {"load", "done"} :
          Goto(d, label) /\ (label = "load" <=> idem[KeyOf[d]] = Unsaid)
    BY <1>6 DEF Receive
  <2>3. FitToBeAt(d, label)'
    BY <1>4, <1>6, <2>2 DEF Receive, FitToBeAt
  <2> QED
    BY <1>5, <1>6, <2>1, <2>2, <2>3, NoticesPlain DEF Receive
<1>7. CASE Load(d)
  <2> DEFINE decision == Handle(kind[KeyOf[d]], slot)
  <2>1. Fits(slot, decision) /\ resp[d] = Unsaid
    BY <1>2, <1>3, <1>7, HandleFits DEF Load, FitToBeAt
  <2> HIDE DEF decision
  <2>2. /\ resp'[d] = decision.response /\ pc'[d] = decision.next /\ seen'[d] = slot
        /\ \A q \in Processes : q # d => pc'[q] = pc[q]
        /\ \A e \in Deliveries : e # d => resp'[e] = resp[e] /\ seen'[e] = seen[e]
        /\ UNCHANGED <<slot, idem, call>>
    BY <1>1, <1>4, <1>7 DEF Load, Goto, decision, Typed, TypeOK, LocalTypeOK
  <2>3. SpeaksOn(d) /\ HeadsOut \subseteq HeadsOut'
    <3>1. SpeaksOn(d) /\ \A e \in Deliveries : e # d => SpeaksOn(e)
      BY <2>1, <2>2 DEF SpeaksOn
    <3> QED
      BY <3>1, HeadsOutGrow
  <2>4. Shaped(call[d].write)' /\ Shaped(seen[d])' /\ Shaped(slot)'
    BY <1>3, <2>2, <2>3 DEF Shaped
  <2>5. FitToBeAt(d, Heading(d))'
    <3>1. Heading(d)' = decision.next
      BY <2>1, <2>2 DEF Heading, Fits
    <3> QED
      BY <2>1, <2>2, <3>1, NoticesPlain DEF FitToBeAt, Fits
  <2>6. TellsItsOwn(d)'
    BY <1>3, <2>1, <2>2, <2>3, NoticesPlain DEF TellsItsOwn, Fits, Shaped
  <2> QED
    BY <1>1, <2>2, <2>3, <2>4, <2>5, <2>6, CallSpeaks
<1>8. CASE Clear(d)
  <2>1. FitToBeAt(d, AfterClear(d))
    BY ClearFits
  <2> QED
    BY <1>1, <1>8, <2>1, ReadSpeaks, RecordShapes DEF Clear
<1>9. CASE Deliver(d)
  <2>1. FitToBeAt(d, AfterTelling(seen[d]))
    BY <1>2, <1>3, <1>9, AfterTellingFits DEF Deliver, FitToBeAt
  <2>2. Owns(slot, seen[d].job) => Shaped(Delivered(slot))
    BY <1>2, <1>3, RecordShapes DEF Owns
  <2> QED
    BY <1>1, <1>9, <2>1, <2>2, ReadSpeaks DEF Deliver
<1>10. CASE Advance(d)
  <2>1. /\ resp[d] = Tell(seen[d].job, "head") /\ seen[d].job \in Jobs
    BY <1>2, <1>3, <1>10 DEF Advance, FitToBeAt, Shaped, Pending, Jobs
  <2>2. Shaped(ReadyTail(seen[d].job))
    BY <2>1, RecordShapes DEF HeadsOut, Jobs
  <2>3. FitToBeAt(d, "save") /\ FitToBeAt(d, "clear")
    BY <2>1, NoticesPlain DEF FitToBeAt
  <2> QED
    BY <1>1, <1>10, <2>2, <2>3, ReadSpeaks DEF Advance
<1>11. CASE Keep(d)
  <2>1. FitToBeAt(d, "save") /\ FitToBeAt(d, "offer")
    BY <1>3, <1>11 DEF Keep, FitToBeAt
  <2> QED
    BY <1>1, <1>3, <1>11, <2>1, ReadSpeaks DEF Keep
<1>12. CASE Offer(d)
  <2>1. FitToBeAt(d, "save")
    BY <1>3, <1>12 DEF Offer, FitToBeAt
  <2>2. Owns(slot, d) => Shaped(Delivered(slot))
    BY <1>2, <1>3, RecordShapes DEF Owns
  <2> QED
    BY <1>1, <1>12, <2>1, <2>2, ReadSpeaks DEF Offer
<1>13. ASSUME NEW reply \in Replies, FastReply(d, reply)
       PROVE  SpeechInv'
  <2>1. /\ resp[d] = Unsaid /\ resp'[d] = Tell(d, reply.text) /\ d \in Jobs
        /\ \A e \in Deliveries : e # d => resp'[e] = resp[e]
        /\ \A q \in Processes : q # d => pc'[q] = pc[q] /\ call'[q] = call[q]
        /\ pc'[d] \in {"save", "keep"}
        /\ UNCHANGED <<slot, idem, seen>>
    <3>1. pc[d] = "ask" /\ resp[d] = Unsaid /\ d \in Jobs
      BY <1>3, <1>13 DEF FastReply, FitToBeAt, Jobs
    <3>2. /\ resp' = [resp EXCEPT ![d] = Tell(d, reply.text)]
          /\ UNCHANGED <<slot, idem, seen>>
      BY <1>13 DEF FastReply
    <3>3. PICK label \in {"save", "keep"} : pc' = [pc EXCEPT ![d] = label]
      BY <1>13 DEF FastReply, Goto
    <3>4. \A q \in Processes : q # d => call'[q] = call[q]
      BY <1>1, <1>13 DEF FastReply, Typed, TypeOK, CallTypeOK
    <3> QED
      BY <1>4, <3>1, <3>2, <3>3, <3>4
  <2>2. SpeaksOn(d) /\ HeadsOut \subseteq HeadsOut'
    <3>1. SpeaksOn(d) /\ \A e \in Deliveries : e # d => SpeaksOn(e)
      BY <2>1 DEF SpeaksOn
    <3> QED
      BY <3>1, HeadsOutGrow
  <2>3. Shaped(seen[d])' /\ Shaped(slot)'
    BY <1>3, <2>1, <2>2 DEF Shaped
  <2>4. FitToBeAt(d, Heading(d))'
    <3>1. Heading(d)' = pc'[d]
      BY <2>1 DEF Heading
    <3> QED
      BY <2>1, <3>1, NoticesPlain DEF FitToBeAt
  <2>5. reply.text \in {"blank", "head"} /\ (reply.mode = "ready_tail" => reply.text = "head")
    BY DEF Replies
  <2>6. TellsItsOwn(d)'
    BY <2>1, <2>5, NoticesPlain DEF TellsItsOwn
  \* What is kept after a head is its tail.
  <2>7. Shaped(ImmediateFollowup(d, reply))'
    <3>1. CASE reply.mode = "ready_tail"
      <4>1. d \in HeadsOut'
        BY <2>1, <2>5, <3>1 DEF HeadsOut, Jobs
      <4> QED
        BY <3>1, <4>1 DEF ImmediateFollowup, ReadyTail, PendingRecord, Shaped
    <3>2. CASE reply.mode # "ready_tail"
      BY <2>5, <3>2 DEF ImmediateFollowup, ReadyReply, PendingRecord, Shaped
    <3> QED
      BY <3>1, <3>2
  <2>8. Shaped(call[d].write)'
    <3>1. call'[d].write \in {call[d].write, ImmediateFollowup(d, reply)}
      BY <1>1, <1>2, <1>13 DEF FastReply, Typed, TypeOK, CallTypeOK
    <3> QED
      BY <1>3, <2>2, <2>7, <3>1 DEF Shaped
  <2> QED
    BY <1>1, <2>1, <2>2, <2>3, <2>4, <2>6, <2>8, CallSpeaks
<1>14. CASE FastPathFails(d)
  <2>1. /\ resp[d] = Unsaid /\ pc[d] = "ask" /\ resp' = [resp EXCEPT ![d] = resp[d]]
        /\ Goto(d, "defer") /\ UNCHANGED <<slot, idem, seen, call>>
    BY <1>1, <1>3, <1>14 DEF FastPathFails, FitToBeAt, Typed, TypeOK, LocalTypeOK
  <2>2. FitToBeAt(d, "defer")'
    BY <1>4, <2>1 DEF FitToBeAt
  <2> QED
    BY <1>5, <2>1, <2>2, NoticesPlain
<1>15. CASE Recheck(d)
  <2>1. PICK label \in {"enqueue", "save"} :
          /\ Goto(d, label)
          /\ label = "enqueue" => UNCHANGED resp
          /\ label = "save" => resp' = [resp EXCEPT ![d] = Promise]
    BY <1>15 DEF Recheck
  <2>2. /\ resp[d] = Unsaid /\ pc[d] = "recheck" /\ UNCHANGED <<slot, idem, seen, call>>
        /\ Promise # Unsaid /\ Promise.say # "answer" /\ Promise.text = "unset"
    BY <1>3, <1>15 DEF Recheck, FitToBeAt, Promise, Unsaid, Say
  <2>3. PICK r \in {Unsaid, Promise} :
          resp' = [resp EXCEPT ![d] = r] /\ (r = Unsaid <=> label = "enqueue")
    BY <1>1, <2>1, <2>2 DEF Typed, TypeOK, LocalTypeOK
  <2>4. FitToBeAt(d, label)'
    BY <1>4, <2>2, <2>3 DEF FitToBeAt
  <2> QED
    BY <1>5, <2>1, <2>2, <2>3, <2>4, NoticesPlain
<1>16. CASE Defer(d)
  <2>1. /\ resp[d] = Unsaid /\ UNCHANGED <<idem, seen, resp, call>>
        /\ pc'[d] \in {"enqueue", "recheck"}
        /\ \A q \in Processes : q # d => pc'[q] = pc[q]
        /\ slot' \in {slot, Processing(d)} /\ d \in Jobs
    <3>1. PICK label \in {"enqueue", "recheck"} : pc' = [pc EXCEPT ![d] = label]
      BY <1>16 DEF Defer, Goto
    <3>2. resp[d] = Unsaid /\ d \in Jobs
      BY <1>3, <1>16 DEF Defer, FitToBeAt, Jobs
    <3>3. slot' \in {slot, Processing(d)} /\ UNCHANGED <<idem, seen, resp, call>>
      BY <1>16 DEF Defer
    <3> QED
      BY <1>4, <3>1, <3>2, <3>3
  <2>2. HeadsOut' = HeadsOut
    BY <2>1 DEF HeadsOut
  <2>3. Shaped(seen[d])' /\ Shaped(slot)' /\ Shaped(call[d].write)'
    BY <1>3, <2>1, <2>2, RecordShapes DEF Shaped
  <2>4. FitToBeAt(d, Heading(d))' /\ TellsItsOwn(d)'
    BY <2>1, NoticesPlain DEF FitToBeAt, Heading, TellsItsOwn
  <2> QED
    BY <1>1, <2>1, <2>3, <2>4, CallSpeaks DEF SpeaksOn
<1>17. ASSUME NEW r \in {Promise, Unavailable}, NEW label \in {"save", "clear"},
              pc[d] = "enqueue", Goto(d, label), label = "save" <=> r = Promise,
              resp' = [resp EXCEPT ![d] = r], UNCHANGED <<slot, idem, seen, call>>
       PROVE  SpeechInv'
  <2>1. resp[d] = Unsaid
    BY <1>3, <1>17 DEF FitToBeAt
  <2>2. r # Unsaid /\ r.say # "answer" /\ r.text = "unset"
    BY DEF Promise, Unavailable, Unsaid, Say
  <2>3. FitToBeAt(d, label)'
    BY <1>4, <1>17, <2>2 DEF FitToBeAt
  <2> QED
    BY <1>5, <1>17, <2>1, <2>2, <2>3
<1>18. CASE Enqueue(d)
  BY <1>17, <1>18 DEF Enqueue
<1>19. CASE EnqueueFails(d)
  <2>1. Promise # Unavailable
    BY DEF Promise, Unavailable, Say
  <2> QED
    BY <1>17, <1>19, <2>1 DEF EnqueueFails
<1>20. CASE Commit(d)
  <2>1. /\ pc[d] = "commit" /\ slot' = call[d].write /\ pc'[d] = call[d].next
        /\ call'[d] = NoCall /\ UNCHANGED <<idem, seen, resp>>
        /\ \A q \in Processes : q # d => pc'[q] = pc[q] /\ call'[q] = call[q]
    BY <1>1, <1>2, <1>4, <1>20 DEF Commit, Goto, Typed, TypeOK, CallTypeOK
  <2>2. FitToBeAt(d, Heading(d))'
    <3>1. FitToBeAt(d, call[d].next)
      BY <1>3, <2>1 DEF Heading
    <3>2. Heading(d)' = call[d].next
      BY <2>1, <3>1 DEF Heading, FitToBeAt
    <3> QED
      BY <2>1, <3>1, <3>2 DEF FitToBeAt
  <2>3. HeadsOut' = HeadsOut
    BY <2>1 DEF HeadsOut
  <2>4. Shaped(seen[d])' /\ Shaped(slot)' /\ Shaped(call[d].write)'
    BY <1>3, <2>1, <2>3, RecordShapes DEF Shaped, NoCall
  <2>5. TellsItsOwn(d)'
    BY <1>3, <2>1, <2>3 DEF TellsItsOwn, Busy
  <2> QED
    BY <1>1, <2>1, <2>2, <2>4, <2>5, CallSpeaks DEF SpeaksOn
\* The end of a call, by Save or by failing.
<1>21. ASSUME pc'[d] = "done", resp'[d] # Unsaid,
              resp'[d] = resp[d] \/ resp'[d] = Unavailable, Busy(d),
              \A q \in Processes : q # d => pc'[q] = pc[q] /\ call'[q] = call[q],
              \A e \in Deliveries : e # d => resp'[e] = resp[e],
              \A k \in Deliveries : idem'[k] \in {idem[k], resp[d]},
              call'[d] \in {call[d], NoCall}, UNCHANGED <<slot, seen>>
       PROVE  SpeechInv'
  <2>1. SpeaksOn(d) /\ HeadsOut \subseteq HeadsOut'
    <3>1. SpeaksOn(d) /\ \A e \in Deliveries : e # d => SpeaksOn(e)
      BY <1>21 DEF SpeaksOn
    <3> QED
      BY <3>1, HeadsOutGrow
  <2>2. Shaped(seen[d])' /\ Shaped(slot)' /\ Shaped(call[d].write)'
    BY <1>3, <1>21, <2>1, RecordShapes DEF Shaped, NoCall
  <2>3. FitToBeAt(d, Heading(d))'
    BY <1>21 DEF FitToBeAt, Heading
  <2>4. TellsItsOwn(d)'
    BY <1>3, <1>21, <2>1 DEF TellsItsOwn, Busy, Unavailable, Say
  <2> QED
    BY <1>1, <1>21, <2>1, <2>2, <2>3, <2>4, CallSpeaks
<1>22. CASE Save(d)
  <2>1. /\ pc'[d] = "done" /\ resp[d] # Unsaid /\ Busy(d)
        /\ UNCHANGED <<resp, call, slot, seen>>
        /\ \A q \in Processes : q # d => pc'[q] = pc[q]
        /\ \A k \in Deliveries : idem'[k] \in {idem[k], resp[d]}
    BY <1>1, <1>3, <1>4, <1>22
       DEF Save, FitToBeAt, Busy, Goto, Typed, TypeOK, RedisTypeOK
  <2> QED
    BY <1>21, <2>1
<1>23. CASE Abort(d)
  <2>1. /\ pc'[d] = "done" /\ Busy(d) /\ UNCHANGED <<slot, seen>>
        /\ resp'[d] = Unavailable /\ Unavailable # Unsaid
        /\ \A q \in Processes : q # d => pc'[q] = pc[q] /\ call'[q] = call[q]
        /\ \A e \in Deliveries : e # d => resp'[e] = resp[e]
        /\ call'[d] = NoCall
    BY <1>1, <1>2, <1>4, <1>23
       DEF Abort, Goto, Unavailable, Unsaid, Say, Typed, TypeOK, CallTypeOK
  <2>2. \A k \in Deliveries : idem'[k] \in {idem[k], resp[d]}
    BY <1>1, <1>23 DEF Abort, Typed, TypeOK, RedisTypeOK
  <2> QED
    BY <1>21, <2>1, <2>2
<1> QED
  BY <1>6, <1>7, <1>8, <1>9, <1>10, <1>11, <1>12, <1>13, <1>14, <1>15, <1>16,
     <1>18, <1>19, <1>20, <1>22, <1>23 DEF HandlerStep

\* A worker leaves the calls, what they said and the cache alone.
LEMMA WorkerAside ==
  ASSUME Typed, NEW w \in Workers, WorkerStep(w) \/ WorkerDrop(w) \/ WorkerError(w)
  PROVE  /\ \A q \in Processes : q # w => pc'[q] = pc[q] /\ call'[q] = call[q]
         /\ \A d \in Deliveries : pc'[d] = pc[d] /\ call'[d] = call[d]
         /\ UNCHANGED <<idem, log, seen, resp, kind, expiries>>
<1>1. /\ \A l : \A q \in Processes : q # w => [pc EXCEPT ![w] = l][q] = pc[q]
      /\ \A c : \A q \in Processes : q # w => [call EXCEPT ![w] = c][q] = call[q]
  BY DEF Typed, TypeOK, ControlTypeOK, CallTypeOK
<1>2. \A d \in Deliveries : d # w /\ d \in Processes
  BY WorkersAssumption DEF Processes
<1>3. UNCHANGED <<idem, log, seen, resp, kind, expiries>>
  BY DEF WorkerStep, Read, Reclaim, Take, Check, Generate, GenerateFails, Publish,
         Fail, Commit, Ack, WorkerDrop, WorkerError, ReadThenWrite, workerMoves,
         redisVars, boundVars, Fault
<1>4. \E l : pc' = [pc EXCEPT ![w] = l]
  BY DEF WorkerStep, Read, Reclaim, Take, Check, Generate, GenerateFails, Publish,
         Fail, Commit, Ack, WorkerDrop, WorkerError, ReadThenWrite, Goto
<1>5. \A q \in Processes : q # w => call'[q] = call[q]
  <2>1. UNCHANGED call \/ \E c : call' = [call EXCEPT ![w] = c]
    BY DEF WorkerStep, Read, Reclaim, Take, Check, Generate, GenerateFails, Publish,
           Fail, Commit, Ack, WorkerDrop, WorkerError, ReadThenWrite
  <2> QED
    BY <1>1, <2>1
<1> QED
  BY <1>1, <1>2, <1>3, <1>4, <1>5

\* Every step of a worker, and the expiry of the key, keeps it too.
LEMMA WorkerSpeech ==
  ASSUME StreamInv, SpeechInv, NEW w \in Workers,
         WorkerStep(w) \/ WorkerDrop(w) \/ WorkerError(w)
  PROVE  SpeechInv'
<1> USE DEF workerMoves, redisVars
<1>1. /\ Typed /\ w \in Processes /\ Shaped(call[w].write) /\ Shaped(slot)
      /\ Shaped(NoCall.write)
  BY RecordShapes DEF StreamInv, Typed, Processes, SpeechInv, NoCall
<1>2. pc[w] # "idle" => Job(w) \in Jobs
  BY <1>1, SMT DEF Job, Jobs, Typed, TypeOK, HeldEntryIsGiven, RedisTypeOK
<1>3. \A l : \A q \in Processes : q # w => [pc EXCEPT ![w] = l][q] = pc[q]
  BY <1>1 DEF Typed, TypeOK, ControlTypeOK
<1>4. \A c : /\ [call EXCEPT ![w] = c][w] = c
             /\ \A q \in Processes : q # w => [call EXCEPT ![w] = c][q] = call[q]
  BY <1>1 DEF Typed, TypeOK, CallTypeOK
\* A step that writes nothing, or the payload it holds.
<1>5. ASSUME UNCHANGED <<idem, resp, seen>>, slot' \in {slot, call[w].write},
             \A q \in Processes : q # w => pc'[q] = pc[q] /\ call'[q] = call[q],
             Shaped(call'[w].write)
      PROVE  SpeechInv'
  <2>1. Shaped(slot')
    BY <1>1, <1>5
  <2> QED
    BY <1>5, <2>1, WorkerSpeaks
<1>6. ASSUME NEW i, Take(w, i)
      PROVE  SpeechInv'
  BY <1>1, <1>3, <1>5, <1>6 DEF Take, Goto
<1>7. CASE Check(w)
  BY <1>1, <1>3, <1>5, <1>7 DEF Check, Goto
<1>8. ASSUME NEW reply \in Replies, Generate(w, reply)
      PROVE  SpeechInv'
  <2>1. Shaped(ReadyReply(Job(w), reply))
    BY <1>2, <1>8, RecordShapes DEF Generate
  <2>2. /\ call'[w].write = ReadyReply(Job(w), reply)
        /\ \A q \in Processes : q # w => call'[q] = call[q]
    BY <1>1, <1>8 DEF Generate, Typed, TypeOK, CallTypeOK
  <2> QED
    BY <1>3, <1>5, <1>8, <2>1, <2>2 DEF Generate, Goto
<1>9. CASE GenerateFails(w)
  BY <1>1, <1>3, <1>5, <1>9 DEF GenerateFails, Goto
<1>10. ASSUME NEW permitted, NEW payload, Shaped(payload),
              ReadThenWrite(w, permitted, payload, "ack", "ack")
       PROVE  SpeechInv'
  <2>1. PICK c : call' = [call EXCEPT ![w] = c] /\ Shaped(c.write)
    BY <1>1, <1>10 DEF ReadThenWrite
  <2>2. Shaped(call'[w].write) /\ \A q \in Processes : q # w => call'[q] = call[q]
    BY <1>4, <2>1
  <2> QED
    BY <1>3, <1>5, <1>10, <2>2 DEF ReadThenWrite, Goto
<1>11. CASE Publish(w)
  BY <1>1, <1>10, <1>11 DEF Publish
<1>12. CASE Fail(w)
  BY <1>2, <1>10, <1>12, RecordShapes DEF Fail
<1>13. CASE Commit(w)
  BY <1>1, <1>3, <1>4, <1>5, <1>13 DEF Commit, Goto
<1>14. CASE Ack(w)
  BY <1>1, <1>3, <1>5, <1>14 DEF Ack, Goto
<1>15. CASE WorkerDrop(w)
  BY <1>1, <1>3, <1>4, <1>5, <1>15 DEF WorkerDrop, Goto
<1>16. CASE WorkerError(w)
  BY <1>1, <1>3, <1>4, <1>5, <1>16 DEF WorkerError, Goto
<1> QED
  BY <1>6, <1>7, <1>8, <1>9, <1>11, <1>12, <1>13, <1>14, <1>15, <1>16
     DEF WorkerStep, Read, Reclaim

\* Nobody has said anything at first.
LEMMA InitSpeech == Init => SpeechInv
<1> SUFFICES ASSUME Init PROVE SpeechInv
  OBVIOUS
<1>1. Shaped(NoPending) /\ Shaped(NoCall.write)
  BY RecordShapes DEF NoCall
<1>2. ASSUME NEW d \in Deliveries
      PROVE  FitToBeAt(d, Heading(d)) /\ TellsItsOwn(d) /\ Shaped(seen[d])
  BY <1>1, NoticesPlain DEF Init, FitToBeAt, Heading, TellsItsOwn, Processes
<1>3. \A p \in Processes : Shaped(call[p].write)
  BY <1>1 DEF Init
<1>4. \A k \in Deliveries : idem[k].text # "tail"
  BY NoticesPlain DEF Init
<1> QED
  BY <1>1, <1>2, <1>3, <1>4 DEF Init, SpeechInv

\* Every step keeps what the calls say in order.
THEOREM StepSpeech == StreamInv /\ SpeechInv /\ [Next]_vars => SpeechInv'
<1> SUFFICES ASSUME StreamInv, SpeechInv, [Next]_vars PROVE SpeechInv'
  OBVIOUS
<1>1. ASSUME UNCHANGED <<idem, pc, seen, resp, call>>, slot' \in {slot, NoPending}
      PROVE  SpeechInv'
  <2>1. HeadsOut' = HeadsOut
    BY <1>1 DEF HeadsOut
  <2>2. Shaped(slot)'
    BY <1>1, <2>1, RecordShapes DEF SpeechInv, Shaped
  <2> QED
    BY <1>1, <2>1, <2>2
       DEF SpeechInv, FitToBeAt, Heading, TellsItsOwn, Busy, Shaped
<1>2. CASE Expire
  BY <1>1, <1>2 DEF Expire
<1>3. CASE UNCHANGED vars
  BY <1>1, <1>3 DEF vars, redisVars
<1> QED
  BY <1>2, <1>3, HandlerSpeech, WorkerSpeech DEF Next

THEOREM SpeechCorrect == Spec => []SpeechInv
BY InitSpeech, StepSpeech, StreamCorrect, PTL DEF Spec

\* The second part of an answer is never told before the first, whatever
\* overlaps, fails or expires (conversation.py:186-219, 289-304).
THEOREM TailCorrect == Spec => []TailFollowsHead
<1>1. SpeechInv => TailFollowsHead
  <2> SUFFICES ASSUME SpeechInv, NEW d \in Deliveries, NEW j \in Deliveries,
                      resp[d] = Tell(j, "tail")
               PROVE  \E e \in Deliveries :
                        \/ resp[e] = Tell(j, "head")
                        \/ resp[e] = Unavailable /\ (e = j \/ seen[e].job = j)
    BY DEF TailFollowsHead
  <2>1. j \in HeadsOut
    BY NoticesPlain DEF SpeechInv, TellsItsOwn
  <2> QED
    BY <2>1 DEF HeadsOut
<1> QED
  BY <1>1, SpeechCorrect, PTL

-----------------------------------------------------------------------------
(* One call at a time: the cache.                                          *)

\* A call goes on, or ends with its response cached or as a failed one.
LEMMA CallCaches ==
  ASSUME Typed, SpeechInv, CacheInv, NEW d \in Deliveries, Busy(d),
         \A e \in Deliveries : e # d => pc'[e] = pc[e] /\ resp'[e] = resp[e]
                                      /\ call'[e] = call[e],
         \/ /\ Busy(d)' /\ UNCHANGED idem /\ Heading(d)' # "idle"
            /\ Heading(d)' = "done" => resp'[d] = Unavailable
         \/ pc'[d] = "done" /\ resp'[d] = Unavailable /\ UNCHANGED idem
         \/ /\ pc'[d] = "done" /\ resp'[d] \in {resp[d], Unavailable}
            /\ idem' = [idem EXCEPT ![KeyOf[d]] = resp[d]]
  PROVE  CacheInv'
<1>1. \A e \in Deliveries : e # d => ~Busy(e) /\ ~Busy(e)'
  BY DEF CacheInv, OneCall, Busy
<1>2. idem[KeyOf[d]] = Unsaid
  BY DEF CacheInv
<1>3. \A k \in Deliveries : idem'[k] = idem[k] \/ (k = KeyOf[d] /\ idem'[k] = resp[d])
  BY DEF Typed, TypeOK, RedisTypeOK
<1>4. OneCall'
  BY <1>1 DEF OneCall
<1>5. ASSUME NEW e \in Deliveries, Busy(e)'
      PROVE  /\ idem'[KeyOf[e]] = Unsaid /\ Heading(e)' # "idle"
             /\ Heading(e)' = "done" => resp'[e] = Unavailable
  BY <1>1, <1>2, <1>5 DEF Busy
<1>6. ASSUME NEW e \in Deliveries, Said(e)', resp'[e] # Unavailable
      PROVE  idem'[KeyOf[e]] = resp'[e]
  <2>1. CASE e = d
    BY <1>6, <2>1, KeyOfAssumption DEF Said, Busy, Typed, TypeOK, RedisTypeOK
  <2>2. CASE e # d
    <3>1. Said(e) /\ resp'[e] = resp[e] /\ KeyOf[e] \in Deliveries
      BY <1>6, <2>2, KeyOfAssumption DEF Said
    <3>2. idem[KeyOf[e]] = resp[e] /\ resp[e] # Unsaid
      BY <1>6, <3>1 DEF CacheInv, SpeechInv, FitToBeAt, Heading, Said
    <3> QED
      BY <1>2, <1>3, <3>1, <3>2
  <2> QED
    BY <2>1, <2>2
<1> QED
  BY <1>4, <1>5, <1>6 DEF CacheInv

\* A step that leaves what calls do and say, and the cache, alone.
LEMMA OthersCache ==
  ASSUME CacheInv,
         \A d \in Deliveries : pc'[d] = pc[d] /\ resp'[d] = resp[d] /\ call'[d] = call[d],
         UNCHANGED idem
  PROVE  CacheInv'
BY DEF CacheInv, OneCall, Busy, Said, Heading

\* Every step, of calls served one after another, keeps the cache right.
THEOREM StepCache ==
  "overlap" \notin Hazards =>
    (StreamInv /\ SpeechInv /\ CacheInv /\ [Next]_vars => CacheInv')
<1> SUFFICES ASSUME "overlap" \notin Hazards, StreamInv, SpeechInv, CacheInv, [Next]_vars
             PROVE  CacheInv'
  OBVIOUS
<1>1. Typed
  BY DEF StreamInv, Typed
<1>2. \A d \in Deliveries :
        /\ d \in Processes /\ d \notin Workers
        /\ \A l : /\ [pc EXCEPT ![d] = l][d] = l
                  /\ \A q \in Processes : q # d => [pc EXCEPT ![d] = l][q] = pc[q]
        /\ \A r : /\ [resp EXCEPT ![d] = r][d] = r
                  /\ \A e \in Deliveries : e # d => [resp EXCEPT ![d] = r][e] = resp[e]
        /\ \A c : /\ [call EXCEPT ![d] = c][d] = c
                  /\ \A q \in Processes : q # d => [call EXCEPT ![d] = c][q] = call[q]
  BY <1>1, WorkersAssumption
     DEF Typed, TypeOK, ControlTypeOK, LocalTypeOK, CallTypeOK, Processes
<1>3. ASSUME NEW d \in Deliveries, Receive(d)
      PROVE  CacheInv'
  <2>1. \A e \in Deliveries : ~Busy(e)
    BY <1>3 DEF Receive
  <2>2. PICK label \in {"load", "done"} :
          /\ pc' = [pc EXCEPT ![d] = label]
          /\ label = "load" <=> idem[KeyOf[d]] = Unsaid
    BY <1>3 DEF Receive, Goto
  <2>3. /\ pc'[d] = label /\ resp'[d] = idem[KeyOf[d]] /\ UNCHANGED <<idem, call>>
        /\ \A e \in Deliveries : e # d => pc'[e] = pc[e] /\ resp'[e] = resp[e]
    BY <1>2, <1>3, <2>2 DEF Receive, redisVars
  <2>4. OneCall'
    BY <2>1, <2>3 DEF OneCall, Busy
  <2>5. \A e \in Deliveries : Busy(e)' => e = d /\ label = "load" /\ Heading(e)' = "load"
    BY <2>1, <2>3 DEF Busy, Heading
  <2>6. \A e \in Deliveries :
          Said(e)' /\ resp'[e] # Unavailable => idem'[KeyOf[e]] = resp'[e]
    BY <2>3 DEF CacheInv, Said
  <2> QED
    BY <2>2, <2>3, <2>4, <2>5, <2>6 DEF CacheInv
\* A step that takes the call on to another label.
<1>4. ASSUME NEW d \in Deliveries, Busy(d), NEW label \in HandlerLabels \ {"idle", "done", "commit"},
             Goto(d, label), UNCHANGED <<idem>>,
             \A e \in Deliveries : e # d => resp'[e] = resp[e] /\ call'[e] = call[e]
      PROVE  CacheInv'
  <2>1. pc'[d] = label /\ \A e \in Deliveries : e # d => pc'[e] = pc[e]
    BY <1>2, <1>4 DEF Goto
  <2>2. Busy(d)' /\ Heading(d)' = label
    BY <1>4, <2>1 DEF Busy, Heading
  <2> QED
    BY <1>1, <1>4, <2>1, <2>2, CallCaches
\* The read of a store call.
<1>5. ASSUME NEW d \in Deliveries, Busy(d), NEW permitted, NEW payload, NEW next, NEW onSkip,
             next # "idle", next = "done" => resp[d] = Unavailable,
             onSkip # "idle", onSkip = "done" => resp[d] = Unavailable,
             FitToBeAt(d, onSkip),
             ReadThenWrite(d, permitted, payload, next, onSkip)
      PROVE  CacheInv'
  <2>1. UNCHANGED <<resp, idem>>
    BY <1>5 DEF ReadThenWrite, redisVars
  <2>2. \A e \in Deliveries : e # d => pc'[e] = pc[e] /\ call'[e] = call[e]
    BY <1>2, <1>5 DEF ReadThenWrite, Goto
  <2>3. \/ pc'[d] = "commit" /\ call'[d].next = next
        \/ pc'[d] = onSkip
    BY <1>2, <1>5 DEF ReadThenWrite, Goto
  <2>4. CASE pc'[d] = "done"
    BY <1>1, <1>5, <2>1, <2>2, <2>3, <2>4, CallCaches
  <2>5. CASE pc'[d] # "done"
    <3>1. Busy(d)' /\ Heading(d)' \in {next, onSkip}
      BY <1>5, <2>3, <2>5 DEF Busy, Heading, FitToBeAt
    <3> QED
      BY <1>1, <1>5, <2>1, <2>2, <3>1, CallCaches
  <2> QED
    BY <2>4, <2>5
<1>6. ASSUME NEW d \in Deliveries, HandlerStep(d)
      PROVE  CacheInv'
  <2> USE DEF localUnchanged, redisVars
  <2>1. CASE Load(d)
    <3>1. Handle(kind[KeyOf[d]], slot).next \in {"ask", "clear", "deliver", "advance", "save"}
      BY <1>1, HandleFits, KeyOfAssumption
         DEF Fits, Typed, TypeOK, LocalTypeOK, RedisTypeOK
    <3> QED
      BY <1>2, <1>4, <2>1, <3>1 DEF Load, Busy, HandlerLabels
  <2>2. CASE Clear(d)
    <3>1. /\ AfterClear(d) \in {"done", "save", "defer", "ask"}
          /\ AfterClear(d) = "done" => resp[d] = Unavailable
      BY AfterClearType
    <3>2. FitToBeAt(d, AfterClear(d))
      BY <2>2, ClearFits DEF Clear
    <3> QED
      BY <1>5, <2>2, <3>1, <3>2 DEF Clear, Busy
  <2>3. CASE Deliver(d)
    <3>1. AfterTelling(seen[d]) \in {"advance", "save", "clear"}
      BY <1>1, AfterTellingType DEF Typed, TypeOK, LocalTypeOK
    <3>2. FitToBeAt(d, AfterTelling(seen[d]))
      BY <1>1, <2>3, AfterTellingFits
         DEF Deliver, SpeechInv, Heading, FitToBeAt, Typed, TypeOK, LocalTypeOK
    <3> QED
      BY <1>5, <2>3, <3>1, <3>2 DEF Deliver, Busy
  <2>4. CASE Advance(d)
    <3>1. FitToBeAt(d, "clear")
      BY DEF FitToBeAt
    <3> QED
      BY <1>5, <2>4, <3>1 DEF Advance, Busy
  <2>5. CASE Keep(d) \/ Offer(d)
    <3>1. FitToBeAt(d, "save") /\ FitToBeAt(d, "offer")
      BY <2>5 DEF Keep, Offer, SpeechInv, Heading, FitToBeAt
    <3> QED
      BY <1>5, <2>5, <3>1 DEF Keep, Offer, Busy
  <2>6. CASE (\E reply \in Replies : FastReply(d, reply)) \/ FastPathFails(d) \/ Recheck(d)
             \/ Enqueue(d) \/ Defer(d)
    <3>1. /\ Busy(d) /\ UNCHANGED idem
          /\ \A e \in Deliveries : e # d => resp'[e] = resp[e] /\ call'[e] = call[e]
      <4>1. Busy(d) /\ UNCHANGED idem
        BY <2>6 DEF FastReply, FastPathFails, Recheck, Enqueue, Defer, Busy
      <4>2. UNCHANGED resp \/ \E r : resp' = [resp EXCEPT ![d] = r]
        BY <2>6 DEF FastReply, FastPathFails, Recheck, Enqueue, Defer
      <4>3. UNCHANGED call \/ \E m : call' = [call EXCEPT ![d].write = m]
        BY <2>6 DEF FastReply, FastPathFails, Recheck, Enqueue, Defer
      <4>4. \A e \in Deliveries : e # d => call'[e] = call[e]
        BY <1>1, <1>2, <4>3 DEF Typed, TypeOK, CallTypeOK
      <4> QED
        BY <1>2, <4>1, <4>2, <4>4
    <3>2. \E label \in HandlerLabels \ {"idle", "done", "commit"} : Goto(d, label)
      BY <2>6 DEF FastReply, FastPathFails, Recheck, Enqueue, Defer, HandlerLabels
    <3> QED
      BY <1>4, <3>1, <3>2
  <2>7. CASE Commit(d)
    <3>1. /\ Busy(d) /\ UNCHANGED <<idem, resp>> /\ pc'[d] = call[d].next
          /\ \A e \in Deliveries : e # d => pc'[e] = pc[e] /\ call'[e] = call[e]
      BY <1>2, <2>7 DEF Commit, Goto, Busy
    <3>2. /\ call[d].next # "idle" /\ call[d].next # "commit"
          /\ call[d].next = "done" => resp[d] = Unavailable
      BY <2>7, <3>1 DEF Commit, CacheInv, Heading, SpeechInv, FitToBeAt
    <3>3. CASE call[d].next = "done"
      BY <1>1, <3>1, <3>2, <3>3, CallCaches
    <3>4. CASE call[d].next # "done"
      <4>1. Busy(d)' /\ Heading(d)' = call[d].next
        BY <3>1, <3>2, <3>4 DEF Busy, Heading
      <4> QED
        BY <1>1, <3>1, <3>2, <3>4, <4>1, CallCaches
    <3> QED
      BY <3>3, <3>4
  <2>8. CASE Save(d)
    <3>1. /\ Busy(d) /\ pc'[d] = "done" /\ UNCHANGED <<resp, call>>
          /\ \A e \in Deliveries : e # d => pc'[e] = pc[e]
          /\ idem' = [idem EXCEPT ![KeyOf[d]] = resp[d]]
      BY <1>2, <2>8 DEF Save, Goto, Busy
    <3> QED
      BY <1>1, <3>1, CallCaches
  <2> QED
    BY <1>6, <2>1, <2>2, <2>3, <2>4, <2>5, <2>6, <2>7, <2>8 DEF HandlerStep
<1>7. ASSUME NEW d \in Deliveries, Abort(d)
      PROVE  CacheInv'
  <2>1. /\ Busy(d) /\ pc'[d] = "done" /\ resp'[d] = Unavailable
        /\ \A e \in Deliveries : e # d => pc'[e] = pc[e] /\ resp'[e] = resp[e]
                                     /\ call'[e] = call[e]
    BY <1>2, <1>7 DEF Abort, Goto
  <2>2. UNCHANGED idem \/ idem' = [idem EXCEPT ![KeyOf[d]] = resp[d]]
    BY <1>7 DEF Abort
  <2> QED
    BY <1>1, <2>1, <2>2, CallCaches
<1>8. ASSUME NEW d \in Deliveries, EnqueueFails(d)
      PROVE  CacheInv'
  BY <1>2, <1>4, <1>8 DEF EnqueueFails, Busy, HandlerLabels
<1>9. ASSUME NEW w \in Workers, WorkerStep(w) \/ WorkerDrop(w) \/ WorkerError(w)
      PROVE  CacheInv'
  BY <1>1, <1>9, WorkerAside, OthersCache
<1>10. CASE Expire \/ UNCHANGED vars
  BY <1>10, OthersCache DEF Expire, vars, redisVars
<1> QED
  BY <1>3, <1>6, <1>7, <1>8, <1>9, <1>10 DEF Next

\* The cache is empty at first.
LEMMA InitCache == Init => CacheInv
BY NoticesPlain DEF Init, CacheInv, OneCall, Busy, Said, Processes

THEOREM CacheCorrect == "overlap" \notin Hazards => (Spec => []CacheInv)
<1>1. CASE "overlap" \notin Hazards
  <2>1. StreamInv /\ SpeechInv /\ CacheInv /\ [Next]_vars => CacheInv'
    BY <1>1, StepCache
  <2> QED
    BY <2>1, InitCache, StreamCorrect, SpeechCorrect, PTL DEF Spec
<1> QED
  BY <1>1

\* Deliveries of one request are answered alike when calls do not overlap,
\* whatever fails or expires (conversation.py:60-62, 128).
THEOREM DuplicatesCorrect == "overlap" \notin Hazards => (Spec => []DuplicatesAgree)
<1>1. CASE "overlap" \notin Hazards
  <2>1. CacheInv => DuplicatesAgree
    BY DEF CacheInv, DuplicatesAgree
  <2> QED
    BY <1>1, <2>1, CacheCorrect, PTL
<1> QED
  BY <1>1

=============================================================================

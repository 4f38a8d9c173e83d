---------------------------- MODULE PendingReply ----------------------------
(***************************************************************************)
(* The vocabulary of a deferred answer: the record kept in the Redis key   *)
(* <prefix>:pending:<conversation>, the replies the language model can     *)
(* return, the responses a webhook call can give, and the pure decisions   *)
(* ConversationService takes when it has read that record.                 *)
(*                                                                         *)
(* Text is abstracted to the part of an answer it is: "blank" is the empty *)
(* string (a reply that is only markup or only a follow-up marker cleans   *)
(* up to it), "head" the first part, "tail" the rest of a long answer,     *)
(* "unset" is None.                                                        *)
(***************************************************************************)

CONSTANTS Deliveries,   \* webhook calls; a call creates at most one job_id,
                        \* so the call also names the job it creates
          NoJob         \* the job_id of a record that does not exist

ASSUME NoJobAssumption == NoJob \notin Deliveries

Modes == {"none", "ready_tail", "deferred_offer"}

Pending ==
  [status : {"absent", "processing", "ready", "delivered", "failed"},
   job    : Deliveries \cup {NoJob},
   text   : {"unset", "blank", "head", "tail"},
   hasTail: BOOLEAN,
   mode   : Modes]

\* continuation_request is set exactly when the mode is deferred_offer.
Replies ==
  [text : {"blank", "head"}, mode : {"none", "deferred_offer"}]
    \cup [text : {"head"}, mode : {"ready_tail"}]

-----------------------------------------------------------------------------
(* The payloads the store writes.                                          *)

PendingRecord(status, job, text, hasTail, mode) ==
  [status |-> status, job |-> job, text |-> text, hasTail |-> hasTail,
   mode |-> mode]

NoPending == PendingRecord("absent", NoJob, "unset", FALSE, "none")

Processing(j) == PendingRecord("processing", j, "unset", FALSE, "none")
FailedReply(j) == PendingRecord("failed", j, "unset", FALSE, "none")
\* Mutant of ReadyReply: the parts of a long answer are swapped.
ReadyReply_Swapped(j, r) ==
  PendingRecord("ready", j, IF r.mode = "ready_tail" THEN "tail" ELSE r.text,
                r.mode = "ready_tail", r.mode)

ReadyReply(j, r) ==
  PendingRecord("ready", j, r.text, r.mode = "ready_tail", r.mode)
ReadyTail(j) == PendingRecord("ready", j, "tail", FALSE, "ready_tail")
Delivered(p) == [p EXCEPT !.status = "delivered"]

\* What a fast answer leaves behind for "continue": its tail, or its offer.
ImmediateFollowup(j, r) ==
  IF r.mode = "ready_tail" THEN ReadyTail(j) ELSE ReadyReply(j, r)

(* The guards the store evaluates on the record it has just read.          *)

\* mark_ready and mark_failed: refused only when another job owns the key.
MayMark(p, j) == p.status = "absent" \/ p.job = j

\* mark_delivered and clear_pending(job_id=...): the record must be the job's.
Owns(p, j) == p.status # "absent" /\ p.job = j

-----------------------------------------------------------------------------
(* What a webhook call can say.                                            *)

Notices == {"unsaid", "say_again", "nothing_to_continue", "still_preparing",
            "preparation_failed", "not_yet", "previous_preparing",
            "previous_ready", "promise", "unavailable"}

Responses ==
  [say : Notices \cup {"answer"}, job : Deliveries \cup {NoJob},
   text : {"unset", "blank", "head", "tail"}]

Say(notice) == [say |-> notice, job |-> NoJob, text |-> "unset"]
Tell(j, text) == [say |-> "answer", job |-> j, text |-> text]

Unsaid == Say("unsaid")
Unavailable == Say("unavailable")
Promise == Say("promise")

-----------------------------------------------------------------------------
(* Decisions.  Each gives the response, Unsaid when it is not known yet,   *)
(* and the next thing the handler does.                                    *)

Kinds == {"blank", "continue", "affirmation", "question"}

\* A bare affirmation ("yes", "ok") continues only when a reply is pending.
IsContinueIntent(kind, p) ==
  \/ kind = "continue"
  \/ kind = "affirmation" /\ p.status # "absent"

\* Mutant of AfterTelling: what was told is not cleared.
AfterTelling_Keeps(p) == IF p.hasTail THEN "advance" ELSE "save"

\* After the text was told: advance to the tail, keep the offer, or clear.
AfterTelling(p) ==
  CASE p.hasTail -> "advance"
    [] ~p.hasTail /\ p.mode = "deferred_offer" -> "save"
    [] ~p.hasTail /\ p.mode # "deferred_offer" -> "clear"

AcceptsOffer(p) == p.status = "delivered" /\ p.mode = "deferred_offer"
Tellable(p) ==
  /\ p.status \in {"ready", "delivered"}
  /\ p.text \notin {"unset", "blank"}
  /\ ~AcceptsOffer(p)

Decision(response, next) == [response |-> response, next |-> next]

\* Mutant of HandleContinue: the told part is not marked delivered.
HandleContinue_Unmarked(p) ==
  CASE p.status = "absent"     -> Decision(Say("nothing_to_continue"), "save")
    [] p.status = "processing" -> Decision(Say("still_preparing"), "save")
    [] p.status = "failed"     -> Decision(Say("preparation_failed"), "clear")
    [] AcceptsOffer(p)         -> Decision(Unsaid, "clear")
    [] Tellable(p)             -> Decision(Tell(p.job, p.text), AfterTelling(p))
    [] OTHER                   -> Decision(Say("not_yet"), "save")

HandleContinue(p) ==
  CASE p.status = "absent"     -> Decision(Say("nothing_to_continue"), "save")
    [] p.status = "processing" -> Decision(Say("still_preparing"), "save")
    [] p.status = "failed"     -> Decision(Say("preparation_failed"), "clear")
    [] AcceptsOffer(p)         -> Decision(Unsaid, "clear")
    [] Tellable(p)             ->
         Decision(Tell(p.job, p.text),
                  IF p.status = "ready" THEN "deliver" ELSE AfterTelling(p))
    [] OTHER                   -> Decision(Say("not_yet"), "save")

\* Mutants of HandleQuestion: PROCESSING does not block, READY is cleared.
HandleQuestion_Unblocked(p) ==
  CASE p.status \in {"absent", "processing"} -> Decision(Unsaid, "ask")
    [] p.status = "ready" -> Decision(Say("previous_ready"), "save")
    [] p.status \in {"failed", "delivered"} -> Decision(Unsaid, "clear")

HandleQuestion_Discards(p) ==
  CASE p.status = "absent"     -> Decision(Unsaid, "ask")
    [] p.status = "processing" -> Decision(Say("previous_preparing"), "save")
    [] p.status \in {"ready", "failed", "delivered"} -> Decision(Unsaid, "clear")

\* The active pending record of a new question either blocks it or is cleared.
HandleQuestion(p) ==
  CASE p.status = "absent"     -> Decision(Unsaid, "ask")
    [] p.status = "processing" -> Decision(Say("previous_preparing"), "save")
    [] p.status = "ready"      -> Decision(Say("previous_ready"), "save")
    [] p.status \in {"failed", "delivered"} -> Decision(Unsaid, "clear")

Handle(kind, p) ==
  CASE kind = "blank" -> Decision(Say("say_again"), "save")
    [] kind # "blank" /\ IsContinueIntent(kind, p) -> HandleContinue(p)
    [] kind # "blank" /\ ~IsContinueIntent(kind, p) -> HandleQuestion(p)

=============================================================================

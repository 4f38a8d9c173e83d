---------------------------- MODULE OpenAIAdapter ----------------------------
(***************************************************************************)
(* The calls a process makes to the language model: generate_reply with    *)
(* its retries inside one deadline, the circuit breaker all the calls of   *)
(* the process share, and the worker's escalation of the output allowance  *)
(* when a response was cut short.  The webhook process makes many calls at *)
(* once, of one step each; the worker makes one call at a time, of up to   *)
(* Steps steps within the job's deadline.                                  *)
(*                                                                         *)
(* Time is counted in ticks and every clock counts down.  Code that does   *)
(* not await takes no time: Tick waits for whatever is due.                *)
(***************************************************************************)
EXTENDS Integers

CONSTANTS
  Callers,     \* concurrent callers in one process
  Steps,       \* output allowances to try, one after the other
  Deadline,    \* deadline_seconds of a call
  MinBudget,   \* _MIN_RETRY_BUDGET_SECONDS
  RetryWait,   \* _RETRY_WAIT_SECONDS
  Attempts,    \* max_retries + 1
  Threshold,   \* failures that open the breaker
  ResetAfter   \* how long it stays open

ASSUME CountsAssumption == {Steps, Attempts, Threshold, ResetAfter} \subseteq Nat \ {0}
ASSUME BudgetAssumption ==
  {Deadline, MinBudget, RetryWait} \subseteq Nat /\ MinBudget < Deadline

VARIABLES
  failures,  \* consecutive failures the breaker has counted
  cooldown,  \* time until an open breaker lets a call through
  pc,        \* where each caller is
  left,      \* time left to a caller's deadline
  due,       \* time left to the end of what a caller awaits
  tries,     \* requests a caller has made in this step
  step,      \* the output allowance a caller is at
  result,    \* how a caller's last call ended
  streak,    \* history: failures since the last success, up to Threshold
  dry        \* history: time since a call was let through, up to Longest

breakerVars == <<failures, cooldown, streak>>
callVars == <<pc, left, due, tries, step, result>>
vars == <<breakerVars, dry, callVars>>

Results == {"none", "reply", "refused", "timeout", "error", "too_long", "unusable"}

\* The longest the breaker may refuse calls without letting one through.
Longest == ResetAfter + Deadline + RetryWait

TypeOK ==
  /\ failures \in Nat
  /\ cooldown \in 0..ResetAfter
  /\ pc \in [Callers -> {"idle", "admit", "request", "wait"}]
  /\ left \in [Callers -> Int]
  /\ due \in [Callers -> Nat]
  /\ tries \in [Callers -> 0..Attempts]
  /\ step \in [Callers -> 1..Steps]
  /\ result \in [Callers -> Results]
  /\ streak \in 0..Threshold
  /\ dry \in 0..Longest

Init ==
  /\ failures = 0 /\ cooldown = 0
  /\ pc = [c \in Callers |-> "idle"]
  /\ left = [c \in Callers |-> Deadline]
  /\ due = [c \in Callers |-> 0]
  /\ tries = [c \in Callers |-> 0]
  /\ step = [c \in Callers |-> 1]
  /\ result = [c \in Callers |-> "none"]
  /\ streak = 0 /\ dry = 0

-----------------------------------------------------------------------------
(* The breaker.                                                            *)

Refusing == failures >= Threshold /\ cooldown > 0

Allow ==
  /\ ~Refusing
  /\ IF failures < Threshold
       THEN UNCHANGED <<failures, cooldown>>
       ELSE failures' = 0 /\ cooldown' = 0
  /\ dry' = 0
  /\ UNCHANGED streak

\* Mutant of RecordSuccess: the count is left as it is.
RecordSuccess_Keeps ==
  /\ streak' = 0
  /\ UNCHANGED <<failures, cooldown, dry>>

RecordSuccess ==
  /\ failures' = 0 /\ cooldown' = 0 /\ streak' = 0
  /\ UNCHANGED dry

RecordFailure ==
  /\ failures' = failures + 1
  /\ cooldown' = IF failures + 1 >= Threshold THEN ResetAfter ELSE cooldown
  /\ streak' = IF streak < Threshold THEN streak + 1 ELSE streak
  /\ UNCHANGED dry

breakerUnchanged == UNCHANGED <<breakerVars, dry>>

-----------------------------------------------------------------------------
(* A call.                                                                 *)

Finish(c, outcome) ==
  /\ pc' = [pc EXCEPT ![c] = "idle"]
  /\ result' = [result EXCEPT ![c] = outcome]
  /\ UNCHANGED <<left, due, tries, step>>

Call(c) ==
  /\ pc[c] = "idle"
  /\ pc' = [pc EXCEPT ![c] = "admit"]
  /\ left' = [left EXCEPT ![c] = Deadline]
  /\ tries' = [tries EXCEPT ![c] = 0]
  /\ step' = [step EXCEPT ![c] = 1]
  /\ result' = [result EXCEPT ![c] = "none"]
  /\ UNCHANGED due /\ breakerUnchanged

\* Mutant of Request: every attempt has the whole deadline.
Request_Generous(c) ==
  /\ pc' = [pc EXCEPT ![c] = "request"]
  /\ due' = [due EXCEPT ![c] = Deadline]
  /\ tries' = [tries EXCEPT ![c] = @ + 1]
  /\ UNCHANGED <<left, step, result>>

\* One attempt: a request with what is left of the deadline as its timeout.
Request(c) ==
  /\ pc' = [pc EXCEPT ![c] = "request"]
  /\ due' = [due EXCEPT ![c] = left[c]]
  /\ tries' = [tries EXCEPT ![c] = @ + 1]
  /\ UNCHANGED <<left, step, result>>

\* The worker's loop finds no time for another step.
GiveUp(c) ==
  /\ pc[c] = "admit"
  /\ left[c] <= 0
  /\ Finish(c, "too_long")
  /\ breakerUnchanged

\* Mutant of Refuse: a refused call is counted as a failure.
Refuse_Counted(c) ==
  /\ pc[c] = "admit"
  /\ left[c] > 0
  /\ Refusing
  /\ Finish(c, "refused")
  /\ RecordFailure

Refuse(c) ==
  /\ pc[c] = "admit"
  /\ left[c] > 0
  /\ Refusing
  /\ Finish(c, "refused")
  /\ breakerUnchanged

Admit(c) ==
  /\ pc[c] = "admit"
  /\ left[c] > MinBudget
  /\ Allow
  /\ Request(c)

\* A step with hardly any time left fails before it makes a request: the
\* breaker lets it through and counts the failure in one go.
AdmitTooLate(c) ==
  /\ pc[c] = "admit"
  /\ 0 < left[c] /\ left[c] <= MinBudget
  /\ ~Refusing
  /\ LET count == IF failures < Threshold THEN failures + 1 ELSE 1
     IN  /\ failures' = count
         /\ cooldown' = IF count >= Threshold THEN ResetAfter
                        ELSE IF failures < Threshold THEN cooldown ELSE 0
  /\ streak' = IF streak < Threshold THEN streak + 1 ELSE streak
  /\ dry' = 0
  /\ Finish(c, "timeout")

\* A complete response, or one cut short for another reason than its length.
Respond(c) ==
  /\ pc[c] = "request"
  /\ \E outcome \in {"reply", "unusable"} : Finish(c, outcome)
  /\ RecordSuccess

\* Mutant of CutShort: a response cut short is counted as a failure.
CutShort_Counted(c) ==
  /\ pc[c] = "request"
  /\ \/ /\ step[c] < Steps
        /\ pc' = [pc EXCEPT ![c] = "admit"]
        /\ step' = [step EXCEPT ![c] = @ + 1]
        /\ tries' = [tries EXCEPT ![c] = 0]
        /\ UNCHANGED <<left, due, result>>
     \/ step[c] = Steps /\ Finish(c, "too_long")
  /\ RecordFailure

\* A response cut short at max_output_tokens: the worker tries the next
\* allowance.  The breaker sees a success, the check comes after it.
CutShort(c) ==
  /\ pc[c] = "request"
  /\ \/ /\ step[c] < Steps
        /\ pc' = [pc EXCEPT ![c] = "admit"]
        /\ step' = [step EXCEPT ![c] = @ + 1]
        /\ tries' = [tries EXCEPT ![c] = 0]
        /\ UNCHANGED <<left, due, result>>
     \/ step[c] = Steps /\ Finish(c, "too_long")
  /\ RecordSuccess

\* Any exception but a timeout ends the call.
RequestFails(c) ==
  /\ pc[c] = "request"
  /\ Finish(c, "error")
  /\ RecordFailure

\* Mutant of Pause: the attempts are not counted.
Pause_Endless(c) ==
  /\ pc[c] = "request"
  /\ pc' = [pc EXCEPT ![c] = "wait"]
  /\ due' = [due EXCEPT ![c] = RetryWait]
  /\ UNCHANGED <<left, tries, step, result>> /\ breakerUnchanged

\* A timeout, of the client or of the deadline, with attempts left.
Pause(c) ==
  /\ pc[c] = "request"
  /\ tries[c] < Attempts
  /\ pc' = [pc EXCEPT ![c] = "wait"]
  /\ due' = [due EXCEPT ![c] = RetryWait]
  /\ UNCHANGED <<left, tries, step, result>> /\ breakerUnchanged

LastTimeout(c) ==
  /\ pc[c] = "request"
  /\ tries[c] = Attempts
  /\ Finish(c, "timeout")
  /\ RecordFailure

Retry(c) ==
  /\ pc[c] = "wait"
  /\ due[c] = 0
  /\ left[c] > MinBudget
  /\ Request(c)
  /\ breakerUnchanged

BudgetExhausted(c) ==
  /\ pc[c] = "wait"
  /\ due[c] = 0
  /\ left[c] <= MinBudget
  /\ Finish(c, "timeout")
  /\ RecordFailure

-----------------------------------------------------------------------------
Awaiting(c) == pc[c] \in {"request", "wait"}

Tick ==
  /\ \A c \in Callers : pc[c] = "idle" \/ (Awaiting(c) /\ due[c] > 0)
  /\ left' = [c \in Callers |-> IF Awaiting(c) THEN left[c] - 1 ELSE left[c]]
  /\ due' = [c \in Callers |-> IF Awaiting(c) THEN due[c] - 1 ELSE due[c]]
  /\ cooldown' = IF cooldown > 0 THEN cooldown - 1 ELSE 0
  /\ dry' = IF dry < Longest THEN dry + 1 ELSE dry
  /\ UNCHANGED <<failures, streak, pc, tries, step, result>>

CallStep(c) ==
  \/ GiveUp(c) \/ Refuse(c) \/ Admit(c) \/ AdmitTooLate(c)
  \/ Respond(c) \/ CutShort(c) \/ RequestFails(c)
  \/ Pause(c) \/ LastTimeout(c) \/ Retry(c) \/ BudgetExhausted(c)

Next == (\E c \in Callers : Call(c) \/ CallStep(c)) \/ Tick

Spec == Init /\ [][Next]_vars

-----------------------------------------------------------------------------
(* Properties.                                                             *)

\* However it retries and escalates, a call does not outlive its deadline by
\* more than the pause before an attempt that is not made
\* (openai_adapter.py:121-149, conversation.py:324-338).
DeadlineKept == \A c \in Callers : pc[c] # "idle" => left[c] >= -RetryWait

\* Calls are refused only after Threshold failures with no success between,
\* whatever calls end while it is open (openai_adapter.py:46-62).
RefusedForCause == Refusing => streak = Threshold

\* Calls in flight when the breaker opens may prolong it, but refused calls
\* do not: in the end one is let through (openai_adapter.py:46-62, 80-102).
OpenIsBounded == Refusing => dry < Longest

\* While a call is being answered, a larger allowance is not refused: the
\* response cut short was a success to the breaker (openai_adapter.py:99-107).
\* True of the worker, where no other call comes between.
EscalationNotRefused == \A c \in Callers : result[c] = "refused" => step[c] = 1

\* Why they hold: each await ends within the deadline, and what was awaited
\* was let through no earlier than the call began.
AwaitWithinDeadline ==
  \A c \in Callers :
    /\ pc[c] = "request" => due[c] <= left[c]
    /\ pc[c] = "wait" => due[c] <= left[c] + RetryWait
    /\ pc[c] = "admit" => left[c] >= 0
    /\ left[c] <= Deadline

AttemptLeft ==
  \A c \in Callers :
    /\ pc[c] = "admit" => tries[c] = 0
    /\ pc[c] = "wait" => tries[c] < Attempts

LetThroughInTime ==
  \A c \in Callers : Awaiting(c) => dry <= Deadline - left[c]

FailuresAreInARow == failures <= streak \/ streak = Threshold

OpenedByAFailure ==
  failures >= Threshold =>
    dry <= Deadline + RetryWait + ResetAfter - cooldown

BreakerInv ==
  /\ TypeOK
  /\ AwaitWithinDeadline /\ AttemptLeft /\ LetThroughInTime
  /\ FailuresAreInARow /\ OpenedByAFailure

\* With one caller, the breaker has counted nothing when it goes on to a
\* larger allowance.
EscalationInv ==
  \A c \in Callers :
    /\ pc[c] # "idle" => result[c] = "none"
    /\ pc[c] = "admit" /\ step[c] # 1 => failures = 0
    /\ result[c] = "refused" => step[c] = 1

=============================================================================

------------------------- MODULE OpenAIAdapterProofs -------------------------
(* Proofs about OpenAIAdapter, for any number of callers and any clocks;    *)
(* EscalationCorrect for a single caller.                                  *)
EXTENDS OpenAIAdapter, TLAPS

\* The constants as the provers use them.
LEMMA Clocks ==
  /\ Steps \in Nat \ {0} /\ Attempts \in Nat \ {0}
  /\ Threshold \in Nat \ {0} /\ ResetAfter \in Nat \ {0}
  /\ Deadline \in Nat /\ MinBudget \in Nat /\ RetryWait \in Nat
  /\ Longest \in Nat
BY CountsAssumption, BudgetAssumption DEF Longest

\* The inductive invariant holds when the process has started.
THEOREM InitBreaker == Init => BreakerInv
BY Clocks DEF Init, BreakerInv, TypeOK, AwaitWithinDeadline, AttemptLeft, LetThroughInTime,
   FailuresAreInARow, OpenedByAFailure, Awaiting, Results, Longest

\* Every step of a caller, and of the clocks, preserves the invariant.
THEOREM StepBreaker == BreakerInv /\ [Next]_vars => BreakerInv'
<1> SUFFICES ASSUME BreakerInv, [Next]_vars PROVE BreakerInv'
  OBVIOUS
<1> USE Clocks DEF BreakerInv, TypeOK, AwaitWithinDeadline, AttemptLeft, LetThroughInTime,
      FailuresAreInARow, OpenedByAFailure, Awaiting, Results, Longest
<1>1. ASSUME NEW c \in Callers, Call(c) PROVE BreakerInv'
  BY <1>1 DEF Call, breakerUnchanged, breakerVars
<1>2. ASSUME NEW c \in Callers, GiveUp(c) \/ Refuse(c) PROVE BreakerInv'
  BY <1>2 DEF GiveUp, Refuse, Finish, breakerUnchanged, breakerVars
<1>3. ASSUME NEW c \in Callers, Admit(c) PROVE BreakerInv'
  BY <1>3 DEF Admit, Allow, Request
<1>4. ASSUME NEW c \in Callers, AdmitTooLate(c) PROVE BreakerInv'
  BY <1>4 DEF AdmitTooLate, Finish
<1>5. ASSUME NEW c \in Callers, Respond(c) PROVE BreakerInv'
  BY <1>5 DEF Respond, Finish, RecordSuccess
<1>6. ASSUME NEW c \in Callers, CutShort(c) PROVE BreakerInv'
  BY <1>6 DEF CutShort, Finish, RecordSuccess
<1>7. ASSUME NEW c \in Callers,
             RequestFails(c) \/ LastTimeout(c) \/ BudgetExhausted(c)
      PROVE BreakerInv'
  BY <1>7 DEF RequestFails, LastTimeout, BudgetExhausted, Finish, RecordFailure
<1>8. ASSUME NEW c \in Callers, Pause(c) PROVE BreakerInv'
  BY <1>8 DEF Pause, breakerUnchanged, breakerVars
<1>9. ASSUME NEW c \in Callers, Retry(c) PROVE BreakerInv'
  BY <1>9 DEF Retry, Request, breakerUnchanged, breakerVars
<1>10. CASE Tick
  BY <1>10 DEF Tick
<1>11. CASE UNCHANGED vars
  BY <1>11 DEF vars, breakerVars, callVars
<1> QED
  BY <1>1, <1>2, <1>3, <1>4, <1>5, <1>6, <1>7, <1>8, <1>9, <1>10, <1>11
     DEF Next, CallStep

\* The inductive invariant of the breaker and the calls in flight.
THEOREM BreakerCorrect == Spec => []BreakerInv
<1> QED BY InitBreaker, StepBreaker, PTL DEF Spec

\* A call never outlives its deadline by more than the retry pause.
THEOREM DeadlineCorrect == Spec => []DeadlineKept
<1>1. BreakerInv => DeadlineKept
  BY Clocks DEF BreakerInv, TypeOK, AwaitWithinDeadline, DeadlineKept
<1> QED BY <1>1, BreakerCorrect, PTL

\* Calls are refused only after Threshold failures in a row.
THEOREM RefusalCorrect == Spec => []RefusedForCause
<1>1. BreakerInv => RefusedForCause
  BY Clocks DEF BreakerInv, TypeOK, FailuresAreInARow, RefusedForCause, Refusing
<1> QED BY <1>1, BreakerCorrect, PTL

\* The breaker lets a call through in bounded time, however late the calls
\* fail that were in flight when it opened.
THEOREM OpenCorrect == Spec => []OpenIsBounded
<1>1. BreakerInv => OpenIsBounded
  BY Clocks DEF BreakerInv, TypeOK, OpenedByAFailure, OpenIsBounded, Refusing,
     Longest
<1> QED BY <1>1, BreakerCorrect, PTL

-----------------------------------------------------------------------------
(* The worker, that makes one call at a time.                              *)

\* Each step of the only caller keeps what the escalation relies on.
LEMMA StepEscalation ==
  ASSUME TypeOK, EscalationInv, \A c, d \in Callers : c = d, [Next]_vars
  PROVE  EscalationInv'
<1> USE DEF EscalationInv, TypeOK
<1>1. ASSUME NEW c \in Callers, Call(c) PROVE EscalationInv'
  BY <1>1 DEF Call
<1>2. ASSUME NEW c \in Callers, GiveUp(c) PROVE EscalationInv'
  BY <1>2 DEF GiveUp, Finish
<1>3. ASSUME NEW c \in Callers, Refuse(c) PROVE EscalationInv'
  <2>1. failures # 0
    BY <1>3, Clocks DEF Refuse, Refusing
  <2>2. step[c] = 1
    BY <1>3, <2>1 DEF Refuse
  <2> QED
    BY <1>3, <2>2 DEF Refuse, Finish
<1>4. ASSUME NEW c \in Callers, Admit(c) \/ Retry(c) PROVE EscalationInv'
  BY <1>4 DEF Admit, Retry, Request
<1>5. ASSUME NEW c \in Callers,
             \/ AdmitTooLate(c) \/ Respond(c) \/ RequestFails(c)
             \/ LastTimeout(c) \/ BudgetExhausted(c)
      PROVE  EscalationInv'
  BY <1>5 DEF AdmitTooLate, Respond, RequestFails, LastTimeout, BudgetExhausted, Finish
<1>6. ASSUME NEW c \in Callers, CutShort(c) PROVE EscalationInv'
  BY <1>6 DEF CutShort, RecordSuccess, Finish
<1>7. ASSUME NEW c \in Callers, Pause(c) PROVE EscalationInv'
  BY <1>7 DEF Pause
<1>8. CASE Tick \/ UNCHANGED vars
  BY <1>8 DEF Tick, vars, breakerVars, callVars
<1> QED
  BY <1>1, <1>2, <1>3, <1>4, <1>5, <1>6, <1>7, <1>8 DEF Next, CallStep

\* A larger allowance is never refused to a worker, whatever the clocks and
\* the threshold.  Other callers may fail in between and open the breaker.
THEOREM EscalationCorrect ==
  (\A c, d \in Callers : c = d) => (Spec => []EscalationNotRefused)
<1>1. Init => EscalationInv
  BY DEF Init, EscalationInv
<1>2. (\A c, d \in Callers : c = d) /\ BreakerInv /\ EscalationInv /\ [Next]_vars =>
        EscalationInv'
  BY StepEscalation DEF BreakerInv
<1>3. EscalationInv => EscalationNotRefused
  BY DEF EscalationInv, EscalationNotRefused
<1>4. CASE \A c, d \in Callers : c = d
  BY <1>1, <1>2, <1>3, <1>4, BreakerCorrect, PTL DEF Spec
<1> QED
  BY <1>4

=============================================================================

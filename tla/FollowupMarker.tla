----------------------------- MODULE FollowupMarker -----------------------------
(***************************************************************************)
(* _extract_followup_request: the markers [[FOLLOWUP_REQUEST: ...]] of the *)
(* model's output are taken out of what is told, an unfinished last one    *)
(* too, and the last request that is not empty is offered as a follow-up.  *)
(* An output is a sequence of tokens; output grows by a token at a time,   *)
(* as the model writes it until its output limit cuts it off, and both     *)
(* patterns scan it from left to right.                                    *)
(***************************************************************************)
EXTENDS Integers, Sequences, FiniteSetsExt

CONSTANT MaxTokensOut  \* bound: tokens of an output

ASSUME OutputAssumption == MaxTokensOut \in Nat

VARIABLES
  output,
  scan   \* told is outside the markers, held is what the marker the scan is
         \* inside of holds so far, requests are those of the finished markers

outputVars == <<output, scan>>

\* "open" is [[FOLLOWUP_REQUEST:, "close" is ]].
OutputTokens == {"open", "close", "one", "two"}

Start == [told |-> << >>, inside |-> FALSE, held |-> << >>, requests |-> << >>]

\* Mutant of Scanned: a marker without a request does not end.
Scanned_Empty(s, t) ==
  CASE t = "open" /\ ~s.inside -> [s EXCEPT !.inside = TRUE]
    [] t = "close" /\ s.inside /\ s.held # << >> ->
         [s EXCEPT !.inside = FALSE, !.held = << >>, !.requests = Append(@, s.held)]
    [] s.inside /\ t # "close" -> [s EXCEPT !.held = Append(@, t)]
    [] OTHER -> [s EXCEPT !.told = Append(@, t)]

Scanned(s, t) ==
  CASE t = "open" /\ ~s.inside -> [s EXCEPT !.inside = TRUE]
    [] t = "close" /\ s.inside ->
         [s EXCEPT !.inside = FALSE, !.held = << >>, !.requests = Append(@, s.held)]
    [] s.inside /\ t # "close" -> [s EXCEPT !.held = Append(@, t)]
    [] OTHER -> [s EXCEPT !.told = Append(@, t)]

OutputInit == output = << >> /\ scan = Start

Emit ==
  /\ Len(output) < MaxTokensOut
  /\ \E t \in OutputTokens :
       output' = Append(output, t) /\ scan' = Scanned(scan, t)

OutputSpec == OutputInit /\ [][Emit]_outputVars

\* Mutant of Visible: an unfinished marker is told.
Visible_Fragment ==
  scan.told \o (IF scan.inside THEN <<"open">> ELSE << >>) \o scan.held

\* What is told: an unfinished marker goes with everything behind it.
Visible == scan.told

\* The last request that is not empty, the empty sequence for None.
Request ==
  LET asked == {i \in 1..Len(scan.requests) : scan.requests[i] # << >>}
  IN  IF asked = {} THEN << >> ELSE scan.requests[Max(asked)]

-----------------------------------------------------------------------------

\* Some marker opened at or before i is not closed before i.
Inside(i) ==
  \E k \in 1..i : output[k] = "open" /\ \A j \in k..i - 1 : output[j] # "close"

\* However often the model opens and closes markers and wherever its output
\* is cut off, nothing inside a marker is told and everything outside one is
\* (openai_adapter.py:321-324).
Outside == {i \in 1..Len(output) : ~Inside(i)}

MarkersUntold ==
  /\ Len(Visible) = Cardinality(Outside)
  /\ \A i \in Outside : Visible[Cardinality({k \in Outside : k <= i})] = output[i]

\* The token at i opens a marker: it is not within one already.
Opens(i) ==
  output[i] = "open" /\ (i > 1 => ~Inside(i - 1) \/ output[i - 1] = "close")

\* A follow-up is offered when, and only when, some finished marker asks for
\* one, and it is the last that does: an unfinished or empty marker behind it
\* does not take it away (openai_adapter.py:326-332).
Asking ==
  {i \in 2..Len(output) : output[i] = "close" /\ Inside(i) /\ ~Opens(i - 1)}

Offered(end) ==
  SubSeq(output, Max({k \in 1..end : Opens(k)}) + 1, end - 1)

LastRequestOffered ==
  Request = IF Asking = {} THEN << >> ELSE Offered(Max(Asking))

\* Why: the scan is inside the marker that opened last and holds what came
\* since, and what is inside a marker is behind one that opens.
OpenedAt(o) ==
  /\ Opens(o)
  /\ \A k \in o + 1..Len(output) : ~Opens(k)
  /\ Len(scan.held) = Len(output) - o
  /\ \A j \in 1..Len(scan.held) : scan.held[j] = output[o + j]

HeldInv ==
  /\ scan.inside <=> Len(output) > 0 /\ Inside(Len(output)) /\ output[Len(output)] # "close"
  /\ IF scan.inside THEN \E o \in 1..Len(output) : OpenedAt(o) ELSE scan.held = << >>
  /\ \A i \in 1..Len(output) : Inside(i) => \E k \in 1..i : Opens(k)

ScanInv == HeldInv /\ MarkersUntold /\ LastRequestOffered

=============================================================================

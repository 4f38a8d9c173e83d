---------------------------------- MODULE Intent ----------------------------------
(***************************************************************************)
(* is_continue_intent: whether what the user said asks for more.  An       *)
(* utterance is the sequence of the kinds of its words; heard grows by a   *)
(* word at a time.                                                         *)
(***************************************************************************)
EXTENDS PendingReply, Integers, Sequences

CONSTANTS
  MaxTokens,  \* _MAX_CONTINUE_TOKENS, 5
  MaxWords    \* bound: words of an utterance

ASSUME TokensAssumption == MaxTokens \in Nat \ {0} /\ MaxWords \in Nat

VARIABLE heard

\* _AFFIRMATION_TOKENS, _CONTINUE_TOKENS, _FILLER_TOKENS, any other word.
Words == {"affirmation", "more", "filler", "other"}

IntentInit == heard = << >>
Hear == Len(heard) < MaxWords /\ \E w \in Words : heard' = Append(heard, w)
IntentSpec == IntentInit /\ [][Hear]_heard

Said(words) == {words[i] : i \in 1..Len(words)}

\* CONTINUE_MARKERS, by the kinds of their words (every kind of marker has a
\* word that asks for more, so the second disjunct accepts them as well).
Markers ==
  {<<"more">>, <<"affirmation", "more">>, <<"more", "more">>, <<"filler", "more">>,
   <<"more", "filler">>, <<"more", "more", "more">>}

\* Mutant of AsksForMore: "yes" asks for more with nothing pending.
AsksForMore_Eager(words, pendingExists) ==
  \/ words \in Markers
  \/ words # << >> /\ Len(words) <= MaxTokens /\ "other" \notin Said(words)

AsksForMore(words, pendingExists) ==
  \/ words \in Markers
  \/ /\ words # << >>
     /\ Len(words) <= MaxTokens
     /\ "other" \notin Said(words)
     /\ "more" \in Said(words) \/ pendingExists

\* The kind of utterance the conversation goes by.
KindOf(words) ==
  CASE words = << >> -> "blank"
    [] words # << >> /\ AsksForMore(words, FALSE) -> "continue"
    [] words # << >> /\ AsksForMore(words, TRUE) /\ ~AsksForMore(words, FALSE)
         -> "affirmation"
    [] OTHER -> "question"

\* No question is taken for a "continue": an utterance that asks for something
\* goes to the model whatever else it says, and so does a "yes" unless a reply
\* is pending; with one pending only a foreign word or a sixth one makes it a
\* question (prompting.py:56-74).
QuestionsAreAsked ==
  heard # << >> =>
    /\ "other" \in Said(heard) => KindOf(heard) = "question"
    /\ KindOf(heard) = "question" => "other" \in Said(heard) \/ Len(heard) > MaxTokens
    /\ "more" \notin Said(heard) => Handle(KindOf(heard), NoPending).next = "ask"

=============================================================================

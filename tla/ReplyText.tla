-------------------------------- MODULE ReplyText --------------------------------
(***************************************************************************)
(* How the text of an answer is cut: the unfinished last word is dropped,  *)
(* a text too long for one reply is split into a head that is told at once *)
(* and a tail that "continue" tells, and what is told is clipped to what   *)
(* Alice accepts.                                                          *)
(*                                                                         *)
(* A text is the sequence of the classes of its characters, and a cut is a *)
(* position in it.  The text is what is left of the model's output without *)
(* markup and follow-up marker; TextSpec grows it a character at a time.   *)
(***************************************************************************)
EXTENDS Integers, Sequences, FiniteSetsExt

CONSTANTS
  Limit,          \* _SHORT_REPLY_LIMIT, 420
  Headroom,       \* _SHORT_REPLY_HEADROOM, 24
  MinSentence,    \* 120
  MinWord,        \* 80
  MinStable,      \* 40
  Dots,           \* length of "...", 3
  Hint,           \* length of " Скажи: подробнее.", 18
  FieldLimit,     \* MAX_ALICE_FIELD_LENGTH, 1024
  MinTruncation,  \* MIN_SENTENCE_TRUNCATION_INDEX, 200
  MaxLength       \* bound: length of a text

ASSUME TextAssumption ==
  /\ {Limit, Headroom, MinSentence, MinWord, MinStable, Dots, Hint, FieldLimit,
      MinTruncation, MaxLength} \subseteq Nat
  /\ Dots > 0 /\ Dots + Hint <= Headroom /\ Headroom < Limit /\ Limit <= FieldLimit

VARIABLE text

\* "stop" is one of . ! ? and the ellipsis, "colon" one of ; and :
Classes == {"letter", "stop", "comma", "colon", "space"}
Separators == {"space", "comma", "colon"}

TextInit == text = << >>
Grow == Len(text) < MaxLength /\ \E c \in Classes : text' = Append(text, c)
TextSpec == TextInit /\ [][Grow]_text

-----------------------------------------------------------------------------
(* str.rfind, rstrip and lstrip, as positions; 0 is -1 of the code.        *)

Larger(a, b) == IF a >= b THEN a ELSE b

\* The last of the first n characters that is in the classes, 0 if none is.
LastOf(t, classes, n) ==
  LET found == {i \in 1..n : t[i] \in classes}
  IN  IF found = {} THEN 0 ELSE Max(found)

\* How much of the first n characters rstrip leaves.
Stripped(t, classes, n) == LastOf(t, Classes \ classes, n)

\* The first character from n on that is not a space, after the end if none.
FirstFrom(t, n) ==
  LET found == {i \in n..Len(t) : t[i] # "space"}
  IN  IF found = {} THEN Len(t) + 1 ELSE Min(found)

-----------------------------------------------------------------------------
(* _prepare_llm_reply.                                                     *)

\* strip leaves no space at the ends.
Normalized(t) == t # << >> /\ t[1] # "space" /\ t[Len(t)] # "space"

\* What an unfinished text keeps: its last word goes, if that is not too much.
LastSpace(t) == LastOf(t, {"space"}, Len(t))
Trimmed(t) ==
  Stripped(t, Separators, IF LastSpace(t) = 0 THEN Len(t) ELSE LastSpace(t))

\* Mutant of Stabilized: short texts and long last words are cut as well.
Stabilized_Always(t) ==
  IF t[Len(t)] = "stop" THEN t
  ELSE SubSeq(t, 1, Trimmed(t)) \o [i \in 1..Dots |-> "stop"]

Stabilized(t) ==
  IF t[Len(t)] = "stop" \/ Trimmed(t) < Larger(MinStable, (6 * Len(t)) \div 10) THEN t
  ELSE SubSeq(t, 1, Trimmed(t)) \o [i \in 1..Dots |-> "stop"]

\* A split: how much is the head, whether dots are added to it, and where the
\* tail begins.
Cut(head, dots, tail) == [head |-> head, dots |-> dots, tail |-> tail]

Cutoff == Limit - Headroom
SentenceEnd(t) == LastOf(t, {"stop"}, Cutoff)
WordEnd(t) == LastOf(t, {"space"}, Cutoff)
AtSentence(t) == SentenceEnd(t) > Larger(MinSentence, Cutoff \div 2)
AtWord(t) == ~AtSentence(t) /\ WordEnd(t) > Larger(MinWord, Cutoff \div 2)

\* Mutants of Split: the tail starts a character late, no headroom is left.
Split_Late(t) ==
  CASE AtSentence(t) -> Cut(SentenceEnd(t), 0, FirstFrom(t, SentenceEnd(t) + 2))
    [] AtWord(t) -> Cut(Stripped(t, Separators, WordEnd(t) - 1), Dots,
                        FirstFrom(t, WordEnd(t)))
    [] OTHER -> Cut(Stripped(t, Separators, Cutoff), Dots, FirstFrom(t, Cutoff + 1))

Split_Full(t) ==
  Cut(Stripped(t, Separators, Limit), Dots, FirstFrom(t, Limit + 1))

\* _split_short_and_tail of a text longer than the limit: behind a sentence,
\* else behind a word, else anywhere.
Split(t) ==
  CASE AtSentence(t) -> Cut(SentenceEnd(t), 0, FirstFrom(t, SentenceEnd(t) + 1))
    [] AtWord(t) -> Cut(Stripped(t, Separators, WordEnd(t) - 1), Dots,
                        FirstFrom(t, WordEnd(t)))
    [] ~AtSentence(t) /\ ~AtWord(t) ->
         Cut(Stripped(t, Separators, Cutoff), Dots, FirstFrom(t, Cutoff + 1))

-----------------------------------------------------------------------------
(* _clip of the renderer, with the ellipsis it adds.                       *)

\* Mutant of Clipped: the ellipsis is forgotten in the count.
Clipped_Full(t) == IF Len(t) <= FieldLimit THEN Len(t) ELSE FieldLimit + 1

\* How much of the first n characters is kept: to a sentence's end, else to a
\* word's, else all of it.
Kept(t, n) ==
  LET sentence == LastOf(t, {"stop"}, n)
      word == LastOf(t, {"space"}, n)
  IN  IF sentence > MinTruncation THEN sentence
      ELSE IF word > Larger(MinWord, FieldLimit \div 2) THEN word - 1
      ELSE n

Clipped(t) ==
  IF Len(t) <= FieldLimit THEN Len(t)
  ELSE Stripped(t, {"space", "comma"}, Kept(t, FieldLimit - 1)) + 1

-----------------------------------------------------------------------------
(* Properties, of every text the model can have given.                     *)

Prepared == Stabilized(text)
Long == Normalized(text) /\ Len(Prepared) > Limit

\* The head of a long answer fits the limit with its dots and the hint that
\* there is more, and so is never clipped (openai_adapter.py:237-239).
HeadFits ==
  Long => Split(Prepared).head + Split(Prepared).dots + Hint <= Limit

\* A long answer always has a tail to tell, as the READY_TAIL of PendingReply
\* assumes; the tail begins behind the head, so nothing is told twice, and
\* only separators are lost between them (openai_adapter.py:298-318).
NothingSkipped ==
  Long => LET cut == Split(Prepared)
          IN  /\ cut.head < cut.tail /\ cut.tail <= Len(Prepared)
              /\ Prepared[cut.tail] # "space"
              /\ \A i \in cut.head + 1..cut.tail - 1 : Prepared[i] \in Separators

\* Of a text that does not end in a full stop at most one word is dropped,
\* and never so much that less than half is left (openai_adapter.py:249-255).
OneWordDropped ==
  Normalized(text) /\ Prepared # text =>
    /\ 2 * Trimmed(text) >= Len(text)
    /\ \A i, j \in Trimmed(text) + 1..Len(text) :
         i < j /\ text[j] = "space" => text[i] \in Separators

\* A reply too long for Alice is told up to what she accepts, ellipsis and
\* all, and is cut inside a word only if no word ends in its second half
\* (renderer.py:36-47).
ToldFits ==
  Len(text) > FieldLimit =>
    LET told == Clipped(text)
    IN  /\ told <= FieldLimit
        /\ told > 1 /\ text[told - 1] = "letter" /\ text[told] = "letter" =>
             \A i \in Larger(MinWord, FieldLimit \div 2) + 1..FieldLimit - 1 :
               text[i] # "space"

=============================================================================

----------------------------- MODULE ReplyTextProofs -----------------------------
(***************************************************************************)
(* Of every text, whatever the limits: at most one word is dropped, the     *)
(* head of a long answer fits, nothing between head and tail is lost, and  *)
(* what is told fits.  Of every output of the model: no marker is told and *)
(* the last request is offered.  Of every utterance: no question is taken  *)
(* for a "continue".                                                       *)
(***************************************************************************)
EXTENDS ReplyText, FollowupMarker, Intent, FiniteSetTheorems,
  SequenceTheorems, WellFoundedInduction, TLAPS

-----------------------------------------------------------------------------
(* Greatest and least elements exist.                                      *)

LEMMA LeastExists ==
  ASSUME NEW S, S \subseteq Nat, S # {}
  PROVE  Min(S) \in S /\ \A x \in S : Min(S) <= x
<1>1. IsWellFoundedOn(OpToRel(<, Nat), Nat)
  BY NatLessThanWellFounded
<1>2. PICK m \in S : \A y \in S : ~(<<y, m>> \in OpToRel(<, Nat))
  BY <1>1, WFMin, Zenon
<1>3. \A y \in S : m <= y
  <2>1. SUFFICES ASSUME NEW y \in S, ~(m <= y) PROVE FALSE
    OBVIOUS
  <2>2. <<y, m>> \in OpToRel(<, Nat)
    BY <2>1 DEF OpToRel
  <2> QED
    BY <1>2, <2>2
<1> QED
  BY <1>2, <1>3 DEF Min

LEMMA GreatestExists ==
  ASSUME NEW n \in Nat, NEW S, S \subseteq 1..n, S # {}
  PROVE  Max(S) \in S /\ \A x \in S : x <= Max(S)
<1> DEFINE T == {n - x : x \in S}
<1>1. T \subseteq Nat /\ T # {}
  <2>1. \A x \in S : x \in Nat /\ n - x \in Nat
    OBVIOUS
  <2> QED
    BY <2>1
<1>2. Min(T) \in T /\ \A y \in T : Min(T) <= y
  BY <1>1, LeastExists
<1>3. PICK m \in S : Min(T) = n - m
  BY <1>2
<1>4. \A x \in S : m >= x
  <2>1. SUFFICES ASSUME NEW x \in S PROVE m >= x
    OBVIOUS
  <2>2. n - x \in T
    OBVIOUS
  <2>3. n - m <= n - x
    BY <1>2, <1>3, <2>2
  <2> QED
    BY <2>3
<1>5. Max(S) \in S /\ \A x \in S : Max(S) >= x
  BY <1>4 DEF Max
<1> QED
  BY <1>5

-----------------------------------------------------------------------------
(* What rfind, rstrip and lstrip return.                                   *)

LEMMA LastOfIsLast ==
  ASSUME NEW t, NEW classes, NEW n \in Nat
  PROVE  /\ LastOf(t, classes, n) \in 0..n
         /\ LastOf(t, classes, n) > 0 => t[LastOf(t, classes, n)] \in classes
         /\ \A i \in LastOf(t, classes, n) + 1..n : t[i] \notin classes
<1> DEFINE found == {i \in 1..n : t[i] \in classes}
<1>1. CASE found = {}
  BY <1>1 DEF LastOf
<1>2. CASE found # {}
  <2>1. Max(found) \in found /\ \A x \in found : x <= Max(found)
    BY <1>2, GreatestExists
  <2>2. LastOf(t, classes, n) = Max(found)
    BY <1>2 DEF LastOf
  <2> QED
    BY <2>1, <2>2
<1> QED
  BY <1>1, <1>2

LEMMA StrippedKeepsAll ==
  ASSUME NEW t \in Seq(Classes), NEW classes, NEW n \in Nat, n <= Len(t)
  PROVE  /\ Stripped(t, classes, n) \in 0..n
         /\ \A i \in Stripped(t, classes, n) + 1..n : t[i] \in classes
<1>1. \A i \in 1..n : t[i] \in Classes
  OBVIOUS
<1> QED
  BY <1>1, LastOfIsLast DEF Stripped

LEMMA FirstFromIsFirst ==
  ASSUME NEW t \in Seq(Classes), NEW n \in Nat \ {0}, n <= Len(t), t[Len(t)] # "space"
  PROVE  /\ FirstFrom(t, n) \in n..Len(t)
         /\ t[FirstFrom(t, n)] # "space"
         /\ \A i \in n..FirstFrom(t, n) - 1 : t[i] = "space"
<1> DEFINE found == {i \in n..Len(t) : t[i] # "space"}
<1>1. Len(t) \in found /\ found \subseteq Nat
  OBVIOUS
<1>2. Min(found) \in found /\ \A x \in found : Min(found) <= x
  BY <1>1, LeastExists
<1>3. FirstFrom(t, n) = Min(found)
  BY <1>1 DEF FirstFrom
<1>4. FirstFrom(t, n) \in n..Len(t) /\ t[FirstFrom(t, n)] # "space"
  BY <1>2, <1>3
<1>5. \A i \in n..Len(t) : t[i] # "space" => FirstFrom(t, n) <= i
  BY <1>2, <1>3
<1> HIDE DEF found
<1> QED
  BY <1>4, <1>5

-----------------------------------------------------------------------------
(* The prepared text.                                                      *)

LEMMA LimitsAreNaturals ==
  /\ Limit \in Nat /\ Headroom \in Nat /\ Dots \in Nat \ {0} /\ Hint \in Nat
  /\ Cutoff \in Nat \ {0} /\ Cutoff < Limit /\ Cutoff + Dots + Hint <= Limit
  BY TextAssumption DEF Cutoff

LEMMA PreparedIsText ==
  ASSUME text \in Seq(Classes), Normalized(text)
  PROVE  Prepared \in Seq(Classes) /\ Prepared[Len(Prepared)] # "space"
<1> DEFINE dots == [i \in 1..Dots |-> "stop"]
           kept == SubSeq(text, 1, Trimmed(text))
<1>1. CASE Prepared = text
  BY <1>1 DEF Normalized
<1>2. CASE Prepared # text
  <2>1. Prepared = kept \o dots
    BY <1>2 DEF Prepared, Stabilized
  <2>2. LastSpace(text) \in 0..Len(text)
    BY LastOfIsLast DEF LastSpace
  <2>3. Trimmed(text) \in 0..Len(text)
    <3>1. Trimmed(text) = Stripped(text, Separators, Len(text))
            \/ Trimmed(text) = Stripped(text, Separators, LastSpace(text))
      BY DEF Trimmed
    <3> QED
      BY <2>2, <3>1, StrippedKeepsAll
  <2>4. kept \in Seq(Classes)
    BY <2>3
  <2>5. dots \in Seq(Classes) /\ Len(dots) = Dots /\ Dots \in Nat \ {0}
    BY LimitsAreNaturals DEF Classes
  <2>6. Prepared \in Seq(Classes) /\ Len(Prepared) = Len(kept) + Dots
    BY <2>1, <2>4, <2>5
  <2>7. Prepared[Len(Prepared)] = "stop"
    BY <2>1, <2>4, <2>5, <2>6
  <2> QED
    BY <2>6, <2>7
<1> QED
  BY <1>1, <1>2

-----------------------------------------------------------------------------
(* A split of a text longer than the limit.                                *)

LEMMA SplitIsSound ==
  ASSUME NEW t \in Seq(Classes), Len(t) > Limit, t[Len(t)] # "space"
  PROVE  /\ Split(t).head \in 0..Cutoff
         /\ Split(t).dots \in {0, Dots}
         /\ Split(t).tail \in 1..Len(t) /\ Split(t).head < Split(t).tail
         /\ t[Split(t).tail] # "space"
         /\ \A i \in Split(t).head + 1..Split(t).tail - 1 : t[i] \in Separators
<1> USE LimitsAreNaturals
<1>0. Cutoff < Len(t) /\ Len(t) \in Nat
  OBVIOUS
<1>1. CASE AtSentence(t)
  <2>1. Split(t) = Cut(SentenceEnd(t), 0, FirstFrom(t, SentenceEnd(t) + 1))
    BY <1>1 DEF Split, AtWord
  <2>2. SentenceEnd(t) \in 0..Cutoff
    BY LastOfIsLast DEF SentenceEnd
  <2>3. /\ FirstFrom(t, SentenceEnd(t) + 1) \in SentenceEnd(t) + 1..Len(t)
        /\ t[FirstFrom(t, SentenceEnd(t) + 1)] # "space"
        /\ \A i \in SentenceEnd(t) + 1..FirstFrom(t, SentenceEnd(t) + 1) - 1 :
             t[i] = "space"
    BY <1>0, <2>2, FirstFromIsFirst
  <2> QED
    BY <2>1, <2>2, <2>3 DEF Cut, Separators
<1>2. CASE AtWord(t)
  <2> DEFINE w == WordEnd(t)
             head == Stripped(t, Separators, w - 1)
             tail == FirstFrom(t, w)
  <2>1. Split(t) = Cut(head, Dots, tail)
    BY <1>2 DEF Split, AtWord
  <2>2. w \in 1..Cutoff
    <3>1. w \in 0..Cutoff
      BY LastOfIsLast DEF WordEnd
    <3>2. w > 0
      <4>1. MinWord \in Nat /\ Cutoff \div 2 \in Nat
        BY TextAssumption
      <4> QED
        BY <1>2, <3>1, <4>1 DEF AtWord, Larger
    <3> QED
      BY <3>1, <3>2
  <2>3. head \in 0..w - 1 /\ \A i \in head + 1..w - 1 : t[i] \in Separators
    BY <1>0, <2>2, StrippedKeepsAll
  <2>4. /\ tail \in w..Len(t) /\ t[tail] # "space"
        /\ \A i \in w..tail - 1 : t[i] = "space"
    BY <1>0, <2>2, FirstFromIsFirst
  <2> QED
    BY <2>1, <2>2, <2>3, <2>4 DEF Cut, Separators
<1>3. CASE ~AtSentence(t) /\ ~AtWord(t)
  <2> DEFINE head == Stripped(t, Separators, Cutoff)
             tail == FirstFrom(t, Cutoff + 1)
  <2>1. Split(t) = Cut(head, Dots, tail)
    BY <1>3 DEF Split
  <2>2. head \in 0..Cutoff /\ \A i \in head + 1..Cutoff : t[i] \in Separators
    BY <1>0, StrippedKeepsAll
  <2>3. /\ tail \in Cutoff + 1..Len(t) /\ t[tail] # "space"
        /\ \A i \in Cutoff + 1..tail - 1 : t[i] = "space"
    BY <1>0, FirstFromIsFirst
  <2> QED
    BY <2>1, <2>2, <2>3 DEF Cut, Separators
<1> QED
  BY <1>1, <1>2, <1>3

-----------------------------------------------------------------------------

LEMMA TextIsText == TextSpec => [](text \in Seq(Classes))
<1>1. TextInit => text \in Seq(Classes)
  BY DEF TextInit
<1>2. text \in Seq(Classes) /\ [Grow]_text => (text \in Seq(Classes))'
  BY DEF Grow
<1> QED
  BY <1>1, <1>2, PTL DEF TextSpec

\* Every head fits the limit with its dots and the hint, whatever the limits.
THEOREM HeadsFit == TextSpec => []HeadFits
<1>1. text \in Seq(Classes) => HeadFits
  <2>1. SUFFICES ASSUME text \in Seq(Classes), Long
                 PROVE  Split(Prepared).head + Split(Prepared).dots + Hint <= Limit
    BY DEF HeadFits
  <2>2. Split(Prepared).head \in 0..Cutoff /\ Split(Prepared).dots \in {0, Dots}
    BY <2>1, PreparedIsText, SplitIsSound DEF Long
  <2> QED
    BY <2>2, LimitsAreNaturals
<1> QED
  BY <1>1, TextIsText, PTL

\* Every long answer has a tail that begins behind its head, and the two
\* together lose separators only, whatever the text and the limits.
THEOREM NothingLost == TextSpec => []NothingSkipped
<1>1. text \in Seq(Classes) => NothingSkipped
  <2>1. SUFFICES ASSUME text \in Seq(Classes), Long PROVE NothingSkipped
    BY DEF NothingSkipped
  <2> QED
    BY <2>1, PreparedIsText, SplitIsSound DEF Long, NothingSkipped
<1> QED
  BY <1>1, TextIsText, PTL

\* What is told is no longer than Alice accepts and cut inside a word only if
\* no word ends in its second half, whatever the text and the limits.
THEOREM ClipFits == TextSpec => []ToldFits
<1>1. text \in Seq(Classes) => ToldFits
  <2> SUFFICES ASSUME text \in Seq(Classes), Len(text) > FieldLimit PROVE ToldFits
    BY DEF ToldFits
  <2> DEFINE n == FieldLimit - 1
             sentence == LastOf(text, {"stop"}, n)
             word == LastOf(text, {"space"}, n)
             bound == Larger(MinWord, FieldLimit \div 2)
             cut == Kept(text, n)
             told == Clipped(text)
  <2>1. /\ FieldLimit \in Nat /\ n \in Nat /\ n < Len(text) /\ Len(text) \in Nat
        /\ MinTruncation \in Nat /\ bound \in Nat
    BY TextAssumption DEF Larger
  <2>2. /\ sentence \in 0..n /\ word \in 0..n
        /\ sentence > 0 => text[sentence] = "stop"
        /\ word > 0 => text[word] = "space"
        /\ \A i \in word + 1..n : text[i] # "space"
    BY <2>1, LastOfIsLast
  <2>3. \/ sentence > MinTruncation /\ cut = sentence
        \/ word > bound /\ cut = word - 1
        \/ ~(word > bound) /\ cut = n
    BY DEF Kept
  <2>4. cut \in 0..n
    BY <2>1, <2>2, <2>3
  <2>5. /\ told - 1 \in 0..cut /\ told \in Nat
        /\ \A i \in told..cut : text[i] \in {"space", "comma"}
    <3>1. told = Stripped(text, {"space", "comma"}, cut) + 1
      BY <2>1 DEF Clipped
    <3>2. /\ Stripped(text, {"space", "comma"}, cut) \in 0..cut
          /\ \A i \in Stripped(text, {"space", "comma"}, cut) + 1..cut :
               text[i] \in {"space", "comma"}
      BY <2>1, <2>4, StrippedKeepsAll
    <3> QED
      BY <3>1, <3>2
  <2>6. told <= FieldLimit
    BY <2>1, <2>4, <2>5
  <2>7. ASSUME told > 1, text[told - 1] = "letter", text[told] = "letter",
               NEW i \in bound + 1..n
        PROVE  text[i] # "space"
    <3>1. told = cut + 1
      BY <2>4, <2>5, <2>7
    <3>2. ~(sentence > MinTruncation /\ cut = sentence)
      BY <2>1, <2>2, <2>7, <3>1
    <3>3. ~(word > bound /\ cut = word - 1)
      BY <2>1, <2>2, <2>7, <3>1
    <3> QED
      BY <2>1, <2>2, <2>3, <3>2, <3>3
  <2> HIDE DEF n, bound, told
  <2>8. \A i \in bound + 1..n :
          told > 1 /\ text[told - 1] = "letter" /\ text[told] = "letter" =>
            text[i] # "space"
    BY <2>7
  <2> QED
    BY <2>6, <2>8 DEF ToldFits, told, bound, n
<1> QED
  BY <1>1, TextIsText, PTL

\* Of an unfinished text at most a word is dropped and at least half is left,
\* whatever the text and the limits, if a text of three characters is short.
THEOREM OneWordCorrect == MinStable >= 2 => (TextSpec => []OneWordDropped)
<1>1. MinStable >= 2 /\ text \in Seq(Classes) => OneWordDropped
  <2> SUFFICES ASSUME MinStable >= 2, text \in Seq(Classes), Normalized(text), Prepared # text
               PROVE  /\ 2 * Trimmed(text) >= Len(text)
                      /\ \A i, j \in Trimmed(text) + 1..Len(text) :
                           i < j /\ text[j] = "space" => text[i] \in Separators
    BY DEF OneWordDropped
  <2> DEFINE space == LastSpace(text)
             kept == IF space = 0 THEN Len(text) ELSE space
  <2>1. Len(text) \in Nat /\ MinStable \in Nat
    BY TextAssumption
  <2>2. space \in 0..Len(text) /\ \A i \in space + 1..Len(text) : text[i] # "space"
    BY <2>1, LastOfIsLast DEF LastSpace
  <2>3. /\ Trimmed(text) \in 0..kept
        /\ \A i \in Trimmed(text) + 1..kept : text[i] \in Separators
    BY <2>1, <2>2, StrippedKeepsAll DEF Trimmed
  <2>4. Trimmed(text) >= Larger(MinStable, (6 * Len(text)) \div 10)
    BY <2>1, <2>2, <2>3 DEF Prepared, Stabilized, Larger
  <2>5. 2 * Trimmed(text) >= Len(text)
    BY <2>1, <2>3, <2>4 DEF Larger
  <2>6. ASSUME NEW i \in Trimmed(text) + 1..Len(text), NEW j \in Trimmed(text) + 1..Len(text),
               i < j, text[j] = "space"
        PROVE  text[i] \in Separators
    <3>1. j <= space
      BY <2>1, <2>2, <2>3, <2>6
    <3> QED
      BY <2>1, <2>2, <2>3, <2>6, <3>1
  <2> QED
    BY <2>5, <2>6
<1>2. CASE MinStable >= 2
  BY <1>1, <1>2, TextIsText, PTL
<1> QED
  BY <1>2

-----------------------------------------------------------------------------
(* The markers of the model's output.                                      *)

LEMMA GreatestIs ==
  ASSUME NEW S, S \subseteq Int, NEW m \in S, \A x \in S : x <= m
  PROVE  Max(S) = m
<1>1. m \in S /\ \A y \in S : m >= y
  OBVIOUS
<1>2. Max(S) \in S /\ \A y \in S : Max(S) >= y
  BY <1>1 DEF Max
<1>3. m \in Int /\ Max(S) \in Int /\ Max(S) >= m /\ Max(S) <= m
  BY <1>2
<1> QED
  BY <1>3

MarkerType ==
  /\ output \in Seq(OutputTokens)
  /\ scan \in [told : Seq(OutputTokens), inside : BOOLEAN, held : Seq(OutputTokens),
               requests : Seq(Seq(OutputTokens))]

\* What a token does to the places before it, and to its own.
LEMMA TokenAdded ==
  ASSUME MarkerType, ScanInv, NEW t \in OutputTokens, output' = Append(output, t),
         NEW n, n = Len(output)
  PROVE  /\ n \in Nat /\ Len(output') = n + 1
         /\ \A i \in 1..n : output'[i] = output[i]
         /\ output'[n + 1] = t
         /\ \A i \in 1..n : Inside(i)' <=> Inside(i)
         /\ Inside(n + 1)' <=> t = "open" \/ scan.inside
         /\ \A i \in 1..n : Opens(i)' <=> Opens(i)
         /\ Opens(n + 1)' <=> t = "open" /\ ~scan.inside
<1>1. /\ n \in Nat /\ Len(output') = n + 1 /\ output'[n + 1] = t
      /\ \A i \in 1..n : output'[i] = output[i]
  BY DEF MarkerType
<1>2. \A i \in 1..n : Inside(i)' <=> Inside(i)
  BY <1>1 DEF Inside
<1>3. Inside(n + 1)' <=> t = "open" \/ (n > 0 /\ Inside(n) /\ output[n] # "close")
  <2>1. Inside(n + 1)' <=> \E k \in 1..n + 1 : output'[k] = "open"
                                /\ \A j \in k..n : output'[j] # "close"
    <3>1. (n + 1) - 1 = n
      BY <1>1
    <3> QED
      BY <3>1 DEF Inside
  <2>2. Inside(n) <=> \E k \in 1..n : output[k] = "open"
                           /\ \A j \in k..n - 1 : output[j] # "close"
    BY DEF Inside
  <2>3. ASSUME Inside(n + 1)' PROVE t = "open" \/ (n > 0 /\ Inside(n) /\ output[n] # "close")
    <3>1. PICK k \in 1..n + 1 : output'[k] = "open" /\ \A j \in k..n : output'[j] # "close"
      BY <2>1, <2>3
    <3>2. CASE k = n + 1
      BY <1>1, <3>1, <3>2
    <3>3. CASE k # n + 1
      <4>1. k \in 1..n /\ n > 0 /\ n \in k..n /\ \A j \in k..n - 1 : j \in k..n /\ j \in 1..n
        BY <1>1, <3>3
      <4> QED
        BY <1>1, <2>2, <3>1, <4>1
    <3> QED
      BY <3>2, <3>3
  <2>4. ASSUME t = "open" PROVE Inside(n + 1)'
    BY <1>1, <2>1, <2>4
  <2>5. ASSUME n > 0, Inside(n), output[n] # "close" PROVE Inside(n + 1)'
    <3>1. PICK k \in 1..n : output[k] = "open" /\ \A j \in k..n - 1 : output[j] # "close"
      BY <2>2, <2>5
    <3>2. \A j \in k..n : output'[j] # "close"
      BY <1>1, <2>5, <3>1
    <3> QED
      BY <1>1, <2>1, <3>1, <3>2
  <2> QED
    BY <2>3, <2>4, <2>5
<1>4. scan.inside <=> n > 0 /\ Inside(n) /\ output[n] # "close"
  BY DEF ScanInv, HeldInv
<1>5. \A i \in 1..n : Opens(i)' <=> Opens(i)
  <2>1. SUFFICES ASSUME NEW i \in 1..n PROVE Opens(i)' <=> Opens(i)
    OBVIOUS
  <2>2. i > 1 => i - 1 \in 1..n
    BY <1>1
  <2>3. i > 1 => (Inside(i - 1)' <=> Inside(i - 1)) /\ output'[i - 1] = output[i - 1]
    BY <1>1, <1>2, <2>2
  <2> QED
    BY <1>1, <2>3 DEF Opens
<1>6. Opens(n + 1)' <=> t = "open" /\ ~scan.inside
  <2>1. Opens(n + 1)' <=> t = "open" /\ (n > 0 => ~Inside(n)' \/ output'[n] = "close")
    <3>1. (n + 1) - 1 = n /\ (n + 1 > 1 <=> n > 0)
      BY <1>1
    <3> QED
      BY <1>1, <3>1 DEF Opens
  <2>2. n > 0 => n \in 1..n
    BY <1>1
  <2> QED
    BY <1>1, <1>2, <1>4, <2>1, <2>2
<1> QED
  BY <1>1, <1>2, <1>3, <1>4, <1>5, <1>6

\* What a token does to the scan, by whether it is within a marker.
LEMMA ScannedCases ==
  ASSUME NEW t, scan' = Scanned(scan, t)
  PROVE  /\ t = "open" /\ ~scan.inside => scan' = [scan EXCEPT !.inside = TRUE]
         /\ t = "close" /\ scan.inside =>
              scan' = [scan EXCEPT !.inside = FALSE, !.held = << >>,
                                   !.requests = Append(scan.requests, scan.held)]
         /\ t # "close" /\ scan.inside =>
              scan' = [scan EXCEPT !.held = Append(scan.held, t)]
         /\ t # "open" /\ ~scan.inside =>
              scan' = [scan EXCEPT !.told = Append(scan.told, t)]
<1>1. t = "open" /\ ~scan.inside => scan' = [scan EXCEPT !.inside = TRUE]
  BY DEF Scanned
<1>2. t = "close" /\ scan.inside =>
        scan' = [scan EXCEPT !.inside = FALSE, !.held = << >>,
                             !.requests = Append(scan.requests, scan.held)]
  BY DEF Scanned
<1>3. t # "close" /\ scan.inside => scan' = [scan EXCEPT !.held = Append(scan.held, t)]
  BY DEF Scanned
<1>4. t # "open" /\ ~scan.inside => scan' = [scan EXCEPT !.told = Append(scan.told, t)]
  BY DEF Scanned
<1> QED
  BY <1>1, <1>2, <1>3, <1>4

LEMMA ScannedIs ==
  ASSUME MarkerType, NEW t \in OutputTokens, scan' = Scanned(scan, t)
  PROVE  /\ t = "open" /\ ~scan.inside =>
              /\ scan'.inside /\ scan'.told = scan.told
              /\ scan'.held = scan.held /\ scan'.requests = scan.requests
         /\ t = "close" /\ scan.inside =>
              /\ ~scan'.inside /\ scan'.told = scan.told
              /\ scan'.held = << >> /\ scan'.requests = Append(scan.requests, scan.held)
         /\ t # "close" /\ scan.inside =>
              /\ scan'.inside /\ scan'.told = scan.told
              /\ scan'.held = Append(scan.held, t) /\ scan'.requests = scan.requests
         /\ t # "open" /\ ~scan.inside =>
              /\ ~scan'.inside /\ scan'.told = Append(scan.told, t)
              /\ scan'.held = scan.held /\ scan'.requests = scan.requests
<1>1. scan \in [told : Seq(OutputTokens), inside : BOOLEAN, held : Seq(OutputTokens),
               requests : Seq(Seq(OutputTokens))]
  BY DEF MarkerType
<1>2. CASE t = "open" /\ ~scan.inside
  <2>1. scan' = [scan EXCEPT !.inside = TRUE]
    BY <1>2, ScannedCases
  <2> QED
    BY <1>1, <1>2, <2>1
<1>3. CASE t = "close" /\ scan.inside
  <2>1. scan' = [scan EXCEPT !.inside = FALSE, !.held = << >>,
                             !.requests = Append(scan.requests, scan.held)]
    BY <1>3, ScannedCases
  <2> QED
    BY <1>1, <1>3, <2>1
<1>4. CASE t # "close" /\ scan.inside
  <2>1. scan' = [scan EXCEPT !.held = Append(scan.held, t)]
    BY <1>4, ScannedCases
  <2> QED
    BY <1>1, <1>4, <2>1
<1>5. CASE t # "open" /\ ~scan.inside
  <2>1. scan' = [scan EXCEPT !.told = Append(scan.told, t)]
    BY <1>5, ScannedCases
  <2> QED
    BY <1>1, <1>5, <2>1
<1> QED
  BY <1>2, <1>3, <1>4, <1>5

LEMMA MarkerTypeCorrect == OutputSpec => []MarkerType
<1>1. OutputInit => MarkerType
  BY DEF OutputInit, MarkerType, Start
<1>2. MarkerType /\ [Emit]_outputVars => MarkerType'
  <2> SUFFICES ASSUME MarkerType, [Emit]_outputVars PROVE MarkerType'
    OBVIOUS
  <2>1. CASE Emit
    <3>1. PICK t \in OutputTokens : output' = Append(output, t) /\ scan' = Scanned(scan, t)
      BY <2>1 DEF Emit
    <3>2. output' \in Seq(OutputTokens)
      BY <3>1 DEF MarkerType
    <3>3. /\ scan \in [told : Seq(OutputTokens), inside : BOOLEAN, held : Seq(OutputTokens),
                       requests : Seq(Seq(OutputTokens))]
          /\ scan.told \in Seq(OutputTokens) /\ scan.held \in Seq(OutputTokens)
          /\ scan.requests \in Seq(Seq(OutputTokens))
      BY DEF MarkerType
    <3>4. /\ Append(scan.told, t) \in Seq(OutputTokens)
          /\ Append(scan.held, t) \in Seq(OutputTokens)
          /\ Append(scan.requests, scan.held) \in Seq(Seq(OutputTokens))
          /\ << >> \in Seq(OutputTokens)
      BY <3>3
    <3>5. scan' \in [told : Seq(OutputTokens), inside : BOOLEAN, held : Seq(OutputTokens),
                     requests : Seq(Seq(OutputTokens))]
      <4>1. \/ scan' = [scan EXCEPT !.inside = TRUE]
            \/ scan' = [scan EXCEPT !.inside = FALSE, !.held = << >>,
                                    !.requests = Append(scan.requests, scan.held)]
            \/ scan' = [scan EXCEPT !.held = Append(scan.held, t)]
            \/ scan' = [scan EXCEPT !.told = Append(scan.told, t)]
        <5>1. scan' = Scanned(scan, t)
          BY <3>1
        <5> QED
          BY <5>1, ScannedCases
      <4> QED
        BY <3>3, <3>4, <4>1, Zenon
    <3> QED
      BY <3>2, <3>5 DEF MarkerType
  <2>2. CASE UNCHANGED outputVars
    BY <2>2 DEF MarkerType, outputVars
  <2> QED
    BY <2>1, <2>2
<1> QED
  BY <1>1, <1>2, PTL DEF OutputSpec

LEMMA TokenHeld ==
  ASSUME MarkerType, ScanInv, NEW t \in OutputTokens, output' = Append(output, t),
         scan' = Scanned(scan, t)
  PROVE  HeldInv'
<1> DEFINE n == Len(output)
<1>1. PICK m : m = n
  OBVIOUS
<1>2. /\ m \in Nat /\ Len(output') = m + 1 /\ output'[m + 1] = t
      /\ \A i \in 1..m : output'[i] = output[i]
      /\ \A i \in 1..m : Inside(i)' <=> Inside(i)
      /\ Inside(m + 1)' <=> t = "open" \/ scan.inside
      /\ \A i \in 1..m : Opens(i)' <=> Opens(i)
      /\ Opens(m + 1)' <=> t = "open" /\ ~scan.inside
  BY <1>1, TokenAdded
<1>3. /\ scan.inside \in BOOLEAN /\ scan.held \in Seq(OutputTokens)
      /\ scan.inside => \E o \in 1..m : OpenedAt(o)
      /\ ~scan.inside => scan.held = << >>
      /\ \A i \in 1..m : Inside(i) => \E k \in 1..i : Opens(k)
  BY <1>1 DEF MarkerType, ScanInv, HeldInv
<1>4. scan'.inside <=> Inside(m + 1)' /\ t # "close"
  BY <1>2, <1>3, ScannedIs DEF OutputTokens
<1>5. (scan.inside <=> Len(output) > 0 /\ Inside(Len(output)) /\ output[Len(output)] # "close")'
  <2>1. Inside(Len(output))' <=> Inside(m + 1)'
    BY <1>2
  <2> QED
    BY <1>2, <1>4, <2>1
<1>6. ASSUME scan'.inside PROVE \E o \in 1..m + 1 : OpenedAt(o)'
  <2>1. CASE scan.inside
    <3>1. PICK o \in 1..m : OpenedAt(o)
      BY <1>3, <2>1
    <3>2. scan'.held = Append(scan.held, t)
      BY <1>2, <1>4, <1>6, <2>1, ScannedIs
    <3>0. /\ Len(scan'.held) = Len(scan.held) + 1 /\ scan'.held[Len(scan.held) + 1] = t
          /\ \A j \in 1..Len(scan.held) : scan'.held[j] = scan.held[j]
      BY <1>3, <3>2, AppendProperties
    <3>3. Opens(o)' /\ \A k \in o + 1..m + 1 : ~Opens(k)'
      <4>1. SUFFICES ASSUME NEW k \in o + 1..m + 1 PROVE ~Opens(k)'
        BY <1>2, <3>1 DEF OpenedAt
      <4>2. CASE k = m + 1
        BY <1>2, <2>1, <4>2
      <4>3. CASE k # m + 1
        <5>1. k \in 1..m /\ k \in o + 1..m
          BY <1>2, <4>3
        <5> QED
          BY <1>1, <1>2, <3>1, <5>1 DEF OpenedAt
      <4> QED
        BY <4>2, <4>3
    <3>4. Len(scan'.held) = m + 1 - o
      BY <1>1, <1>2, <3>0, <3>1 DEF OpenedAt
    <3>5. \A j \in 1..Len(scan'.held) : scan'.held[j] = output'[o + j]
      <4>1. /\ Len(scan.held) = m - o
            /\ \A j \in 1..Len(scan.held) : scan.held[j] = output[o + j]
        BY <1>1, <3>1 DEF OpenedAt
      <4>2. SUFFICES ASSUME NEW j \in 1..m + 1 - o PROVE scan'.held[j] = output'[o + j]
        BY <3>4
      <4>3. CASE j = m + 1 - o
        BY <1>2, <3>0, <3>1, <4>1, <4>3
      <4>4. CASE j # m + 1 - o
        <5>1. j \in 1..Len(scan.held) /\ o + j \in 1..m
          BY <1>2, <4>1, <4>4
        <5> QED
          BY <1>2, <3>0, <4>1, <5>1
      <4> QED
        BY <4>3, <4>4
    <3>6. OpenedAt(o)'
      BY <1>2, <3>3, <3>4, <3>5 DEF OpenedAt
    <3> QED
      BY <1>2, <3>6
  <2>2. CASE ~scan.inside
    <3>1. t = "open" /\ scan'.held = << >>
      BY <1>2, <1>3, <1>4, <1>6, <2>2, ScannedIs
    <3>2. Opens(m + 1)'
      BY <1>2, <2>2, <3>1
    <3>3. OpenedAt(m + 1)'
      BY <1>2, <3>1, <3>2 DEF OpenedAt
    <3> QED
      BY <1>2, <3>3
  <2> QED
    BY <2>1, <2>2
<1>7. ~scan'.inside => scan'.held = << >>
  BY <1>2, <1>3, ScannedIs DEF OutputTokens
<1>8. \A i \in 1..m + 1 : Inside(i)' => \E k \in 1..i : Opens(k)'
  <2>1. SUFFICES ASSUME NEW i \in 1..m + 1, Inside(i)' PROVE \E k \in 1..i : Opens(k)'
    OBVIOUS
  <2>2. CASE i # m + 1
    <3>1. i \in 1..m
      BY <1>2, <2>2
    <3>2. PICK k \in 1..i : Opens(k)
      BY <1>2, <1>3, <2>1, <3>1
    <3>3. k \in 1..m
      BY <1>2, <3>1
    <3> QED
      BY <1>2, <3>2, <3>3
  <2>3. CASE i = m + 1 /\ scan.inside
    <3>1. PICK o \in 1..m : OpenedAt(o)
      BY <1>3, <2>3
    <3>2. Opens(o)' /\ o \in 1..i
      BY <1>2, <2>3, <3>1 DEF OpenedAt
    <3> QED
      BY <3>2
  <2>4. CASE i = m + 1 /\ ~scan.inside
    BY <1>2, <2>1, <2>4
  <2> QED
    BY <2>2, <2>3, <2>4
<1>9. (IF scan.inside THEN \E o \in 1..Len(output) : OpenedAt(o) ELSE scan.held = << >>)'
  BY <1>2, <1>6, <1>7
<1>10. (\A i \in 1..Len(output) : Inside(i) => \E k \in 1..i : Opens(k))'
  BY <1>2, <1>8
<1> QED
  BY <1>5, <1>9, <1>10 DEF HeldInv

\* Nothing inside a marker is told, and everything outside one is.
LEMMA TokenTold ==
  ASSUME MarkerType, ScanInv, NEW t \in OutputTokens, output' = Append(output, t),
         scan' = Scanned(scan, t)
  PROVE  MarkersUntold'
<1>1. PICK m : m = Len(output)
  OBVIOUS
<1>2. /\ m \in Nat /\ Len(output') = m + 1 /\ output'[m + 1] = t
      /\ \A i \in 1..m : output'[i] = output[i]
      /\ \A i \in 1..m : Inside(i)' <=> Inside(i)
      /\ Inside(m + 1)' <=> t = "open" \/ scan.inside
  BY <1>1, TokenAdded
<1>3. Outside' = {i \in 1..m + 1 : ~Inside(i)'} /\ Outside = {i \in 1..m : ~Inside(i)}
  BY <1>1, <1>2 DEF Outside
<1>4. /\ scan.told \in Seq(OutputTokens) /\ Len(scan.told) = Cardinality(Outside)
      /\ \A i \in Outside : scan.told[Cardinality({k \in Outside : k <= i})] = output[i]
  BY DEF MarkerType, ScanInv, MarkersUntold, Visible
<1>5. CASE t = "open" \/ scan.inside
  <2>1. Outside' = Outside
    BY <1>2, <1>3, <1>5
  <2>2. scan'.told = scan.told
    BY <1>5, ScannedIs
  <2>3. \A i \in Outside : output'[i] = output[i]
    BY <1>2, <1>3
  <2> QED
    BY <1>4, <2>1, <2>2, <2>3 DEF MarkersUntold, Visible
<1>6. CASE t # "open" /\ ~scan.inside
  <2>1. scan'.told = Append(scan.told, t)
    BY <1>6, ScannedIs
  <2>2. Outside' = Outside \cup {m + 1} /\ m + 1 \notin Outside
    BY <1>2, <1>3, <1>6
  <2>3. IsFiniteSet(Outside)
    <3>1. IsFiniteSet(1..m)
      BY <1>2, FS_Interval
    <3> QED
      BY <1>3, <3>1, FS_Subset
  <2>4. Cardinality(Outside') = Cardinality(Outside) + 1
    BY <2>2, <2>3, FS_AddElement
  <2>5. /\ Len(scan'.told) = Len(scan.told) + 1 /\ scan'.told[Len(scan.told) + 1] = t
        /\ \A j \in 1..Len(scan.told) : scan'.told[j] = scan.told[j]
    BY <1>4, <2>1, AppendProperties
  <2>6. ASSUME NEW i \in Outside'
        PROVE  scan'.told[Cardinality({k \in Outside' : k <= i})] = output'[i]
    <3>1. CASE i = m + 1
      <4>1. {k \in Outside' : k <= i} = Outside'
        BY <1>2, <1>3, <3>1
      <4> QED
        BY <1>2, <1>4, <2>4, <2>5, <3>1, <4>1
    <3>2. CASE i # m + 1
      <4> DEFINE before == {k \in Outside : k <= i}
      <4>1. i \in Outside /\ i \in 1..m
        BY <1>3, <2>2, <3>2
      <4>2. {k \in Outside' : k <= i} = before
        BY <1>2, <2>2, <4>1
      <4>3. Cardinality(before) \in 1..Len(scan.told)
        <5>1. before \in SUBSET Outside /\ i \in before
          BY <1>2, <4>1
        <5>2. IsFiniteSet(before) /\ Cardinality(before) <= Cardinality(Outside)
          BY <2>3, <5>1, FS_Subset
        <5>3. Cardinality(before) # 0
          BY <5>1, <5>2, FS_EmptySet
        <5>4. Cardinality(before) \in Nat /\ Cardinality(Outside) \in Nat
          BY <2>3, <5>2, FS_CardinalityType
        <5> HIDE DEF before
        <5> QED
          BY <1>4, <5>2, <5>3, <5>4
      <4>4. scan'.told[Cardinality(before)] = output[i]
        BY <1>4, <2>5, <4>1, <4>3
      <4> QED
        BY <1>2, <4>1, <4>2, <4>4
    <3> QED
      BY <3>1, <3>2
  <2>7. Len(scan'.told) = Cardinality(Outside')
    BY <1>4, <2>4, <2>5
  <2> QED
    BY <2>6, <2>7 DEF MarkersUntold, Visible
<1> QED
  BY <1>5, <1>6

LEMMA SubSeqIs ==
  ASSUME NEW S, NEW s, NEW a \in Int, NEW b \in Int, \A i \in a..b : s[i] \in S,
         NEW u \in Seq(S), Len(u) = (IF a <= b THEN b - a + 1 ELSE 0),
         \A j \in 1..Len(u) : u[j] = s[a + j - 1]
  PROVE  SubSeq(s, a, b) = u
<1> DEFINE v == SubSeq(s, a, b)
<1>1. /\ v \in Seq(S) /\ Len(v) = (IF a <= b THEN b - a + 1 ELSE 0)
      /\ \A j \in 1..b - a + 1 : v[j] = s[a + j - 1]
  BY SubSeqProperties
<1> HIDE DEF v
<1>2. Len(u) = Len(v) /\ \A j \in 1..Len(u) : u[j] = v[j]
  BY <1>1
<1>3. u = v
  BY <1>1, <1>2, SeqEqual
<1> QED
  BY <1>3 DEF v

\* Of the markers that are finished, the last that asks for something counts.
LEMMA TokenAsked ==
  ASSUME MarkerType, ScanInv, NEW t \in OutputTokens, output' = Append(output, t),
         scan' = Scanned(scan, t)
  PROVE  LastRequestOffered'
<1>1. PICK m : m = Len(output)
  OBVIOUS
<1>2. /\ m \in Nat /\ Len(output') = m + 1 /\ output'[m + 1] = t
      /\ \A i \in 1..m : output'[i] = output[i]
      /\ \A i \in 1..m : Inside(i)' <=> Inside(i)
      /\ Inside(m + 1)' <=> t = "open" \/ scan.inside
      /\ \A i \in 1..m : Opens(i)' <=> Opens(i)
      /\ Opens(m + 1)' <=> t = "open" /\ ~scan.inside
  BY <1>1, TokenAdded
<1>3. /\ Asking' = {i \in 2..m + 1 : output'[i] = "close" /\ Inside(i)' /\ ~Opens(i - 1)'}
      /\ Asking = {i \in 2..m : output[i] = "close" /\ Inside(i) /\ ~Opens(i - 1)}
  BY <1>1, <1>2 DEF Asking
<1>4. \A i \in 1..m : i \in Asking' <=> i \in Asking
  <2>1. SUFFICES ASSUME NEW i \in 2..m PROVE i \in Asking' <=> i \in Asking
    BY <1>2, <1>3
  <2>2. i \in 1..m /\ i - 1 \in 1..m /\ i \in 2..m + 1
    BY <1>2
  <2> QED
    BY <1>2, <1>3, <2>2
<1>5. m + 1 \in Asking' <=> m > 0 /\ t = "close" /\ scan.inside /\ ~Opens(m)
  <2>1. (m + 1) - 1 = m /\ (m + 1 \in 2..m + 1 <=> m > 0) /\ (m > 0 => m \in 1..m)
    BY <1>2
  <2> QED
    BY <1>2, <1>3, <2>1
<1>6. Asking \subseteq 1..m /\ Asking' \subseteq 1..m + 1 /\ Asking \subseteq Asking'
  BY <1>2, <1>3, <1>4
<1>7. m + 1 \notin Asking' => Asking' = Asking
  <2>1. \A i \in 1..m + 1 : i = m + 1 \/ i \in 1..m
    BY <1>2
  <2> QED
    BY <1>4, <1>6, <2>1
<1>8. /\ \A i \in 1..m : output[i] \in OutputTokens
      /\ \A i \in 1..m + 1 : output'[i] \in OutputTokens
      /\ scan.held \in Seq(OutputTokens) /\ scan.requests \in Seq(Seq(OutputTokens))
      /\ scan.inside => \E o \in 1..m : OpenedAt(o)
      /\ \A i \in 1..m : Inside(i) => \E k \in 1..i : Opens(k)
      /\ Request = IF Asking = {} THEN << >> ELSE Offered(Max(Asking))
  BY <1>1, <1>2 DEF MarkerType, ScanInv, HeldInv, LastRequestOffered
<1>9. ASSUME NEW end \in Asking PROVE Offered(end)' = Offered(end)
  <2> DEFINE opened == {k \in 1..end : Opens(k)}
  <2>1. end \in 1..m /\ end \in Nat
    BY <1>2, <1>6
  <2>2. \A k \in 1..end : k \in 1..m
    BY <1>2, <2>1
  <2>3. {k \in 1..end : Opens(k)'} = opened
    BY <1>2, <2>2
  <2>4. opened # {}
    BY <1>3, <1>8, <2>1
  <2>5. Max(opened) \in 1..end
    BY <2>1, <2>4, GreatestExists
  <2> HIDE DEF opened
  <2> DEFINE a == Max(opened) + 1
             b == end - 1
             u == SubSeq(output, a, b)
  <2>6. a \in Int /\ b \in Int /\ \A i \in a..b : i \in 1..m
    BY <1>2, <2>1, <2>5
  <2> HIDE DEF a, b
  <2>7. /\ u \in Seq(OutputTokens) /\ Len(u) = (IF a <= b THEN b - a + 1 ELSE 0)
        /\ \A j \in 1..b - a + 1 : u[j] = output[a + j - 1]
    BY <1>8, <2>6, SubSeqProperties
  <2> HIDE DEF u
  <2>8. \A j \in 1..Len(u) : u[j] = output'[a + j - 1]
    <3>1. SUFFICES ASSUME NEW j \in 1..Len(u) PROVE u[j] = output'[a + j - 1]
      OBVIOUS
    <3>2. j \in 1..b - a + 1 /\ a + j - 1 \in a..b
      BY <2>6, <2>7
    <3> QED
      BY <1>2, <2>6, <2>7, <3>2
  <2>9. \A i \in a..b : output'[i] \in OutputTokens
    BY <1>2, <1>8, <2>6
  <2>10. SubSeq(output', a, b) = u
    BY <2>6, <2>7, <2>8, <2>9, SubSeqIs
  <2>11. Offered(end)' = SubSeq(output', a, b) /\ Offered(end) = u
    BY <2>3 DEF Offered, a, b, u, opened
  <2> QED
    BY <2>10, <2>11
<1>10. CASE Asking' = Asking /\ Request' = Request
  <2>1. Asking # {} => Max(Asking) \in Asking
    BY <1>2, <1>6, GreatestExists
  <2>2. Asking # {} => Offered(Max(Asking))' = Offered(Max(Asking))
    <3>1. SUFFICES ASSUME Asking # {} PROVE Offered(Max(Asking))' = Offered(Max(Asking))
      OBVIOUS
    <3>2. PICK end : end = Max(Asking)
      OBVIOUS
    <3>3. Offered(end)' = Offered(end)
      BY <1>9, <2>1, <3>1, <3>2
    <3> QED
      BY <1>10, <3>2, <3>3
  <2> QED
    BY <1>8, <1>10, <2>2 DEF LastRequestOffered
<1>11. CASE ~(t = "close" /\ scan.inside)
  <2>1. scan'.requests = scan.requests
    BY <1>11, ScannedIs DEF OutputTokens
  <2>2. Asking' = Asking
    BY <1>5, <1>11, <1>7
  <2>3. Request' = Request
    BY <2>1 DEF Request
  <2> QED
    BY <1>10, <2>2, <2>3
<1>12. CASE t = "close" /\ scan.inside
  <2> DEFINE r == Len(scan.requests)
             asked == {i \in 1..r : scan.requests[i] # << >>}
             asked1 == {i \in 1..r + 1 : scan'.requests[i] # << >>}
  <2>1. PICK o \in 1..m : OpenedAt(o)
    BY <1>8, <1>12
  <2>2. /\ Opens(o) /\ \A k \in o + 1..m : ~Opens(k)
        /\ Len(scan.held) = m - o /\ \A j \in 1..Len(scan.held) : scan.held[j] = output[o + j]
    BY <1>1, <2>1 DEF OpenedAt
  <2>3. /\ r \in Nat /\ Len(scan'.requests) = r + 1 /\ scan'.requests[r + 1] = scan.held
        /\ \A i \in 1..r : scan'.requests[i] = scan.requests[i]
    <3>1. scan'.requests = Append(scan.requests, scan.held)
      BY <1>12, ScannedIs
    <3> QED
      BY <1>8, <3>1, AppendProperties
  <2>4. Request' = IF asked1 = {} THEN << >> ELSE scan'.requests[Max(asked1)]
    BY <2>3 DEF Request
  <2>5. Request = IF asked = {} THEN << >> ELSE scan.requests[Max(asked)]
    BY DEF Request
  <2> HIDE DEF r
  <2>6. CASE scan.held = << >>
    <3>1. Opens(m)
      BY <1>2, <2>1, <2>2, <2>6
    <3>2. Asking' = Asking
      BY <1>5, <1>7, <3>1
    <3>3. asked1 = asked
      BY <2>3, <2>6
    <3>4. asked # {} => Max(asked) \in 1..r
      BY <2>3, GreatestExists
    <3>5. Request' = Request
      BY <2>3, <2>4, <2>5, <3>3, <3>4
    <3> QED
      BY <1>10, <3>2, <3>5
  <2>7. CASE scan.held # << >>
    <3>1. o < m
      BY <1>2, <1>8, <2>1, <2>2, <2>7
    <3>2. m + 1 \in Asking'
      <4>1. m > 0 /\ m \in o + 1..m
        BY <1>2, <2>1, <3>1
      <4>2. ~Opens(m)
        BY <2>2, <4>1
      <4> QED
        BY <1>5, <1>12, <4>1, <4>2
    <3>3. Max(Asking') = m + 1
      <4>1. Asking' \subseteq Int /\ m + 1 \in Asking' /\ \A x \in Asking' : x <= m + 1
        BY <1>2, <1>6, <3>2
      <4> QED
        BY <4>1, GreatestIs
    <3>4. Request' = scan.held
      <4>1. r + 1 \in asked1 /\ \A i \in asked1 : i <= r + 1
        BY <2>3, <2>7
      <4>2. asked1 \subseteq Int
        BY <2>3
      <4>3. Max(asked1) = r + 1
        BY <4>1, <4>2, GreatestIs
      <4> QED
        BY <2>3, <2>4, <4>1, <4>3
    <3>5. Offered(m + 1)' = scan.held
      <4> DEFINE opened == {k \in 1..m + 1 : Opens(k)'}
      <4>1. o \in opened
        BY <1>2, <2>1, <2>2
      <4>2. ASSUME NEW k \in opened PROVE k <= o
        <5>1. k # m + 1
          BY <1>2, <1>12
        <5>2. k \in 1..m /\ Opens(k)
          BY <1>2, <5>1
        <5> QED
          BY <1>2, <2>1, <2>2, <5>2
      <4>3. opened \subseteq Int
        BY <1>2
      <4>4. Max(opened) = o
        BY <4>1, <4>2, <4>3, GreatestIs
      <4>5. Offered(m + 1)' = SubSeq(output', o + 1, m)
        <5>1. (m + 1) - 1 = m
          BY <1>2
        <5> QED
          BY <4>4, <5>1 DEF Offered
      <4>6. /\ o + 1 \in Int /\ m \in Int /\ Len(scan.held) = m - o
            /\ Len(scan.held) = (IF o + 1 <= m THEN m - (o + 1) + 1 ELSE 0)
            /\ \A i \in o + 1..m : output'[i] \in OutputTokens
        BY <1>2, <1>8, <2>1, <2>2, <3>1
      <4>7. \A j \in 1..Len(scan.held) : scan.held[j] = output'[(o + 1) + j - 1]
        <5>1. SUFFICES ASSUME NEW j \in 1..Len(scan.held)
                       PROVE  scan.held[j] = output'[(o + 1) + j - 1]
          OBVIOUS
        <5>2. o + j \in 1..m /\ (o + 1) + j - 1 = o + j
          BY <1>2, <2>1, <4>6
        <5> QED
          BY <1>2, <2>2, <5>2
      <4>8. SubSeq(output', o + 1, m) = scan.held
        <5> DEFINE a == o + 1
                   u == scan.held
        <5>1. /\ a \in Int /\ m \in Int /\ \A i \in a..m : output'[i] \in OutputTokens
              /\ u \in Seq(OutputTokens) /\ Len(u) = (IF a <= m THEN m - a + 1 ELSE 0)
              /\ \A j \in 1..Len(u) : u[j] = output'[a + j - 1]
          BY <1>8, <4>6, <4>7
        <5> HIDE DEF a, u
        <5>2. SubSeq(output', a, m) = u
          BY <5>1, SubSeqIs
        <5> QED
          BY <5>2 DEF a, u
      <4> QED
        BY <4>5, <4>8
    <3>6. PICK end : end = m + 1
      OBVIOUS
    <3>7. Offered(end)' = scan.held /\ Max(Asking') = end /\ Asking' # {}
      BY <3>2, <3>3, <3>5, <3>6
    <3> QED
      BY <3>4, <3>7 DEF LastRequestOffered
  <2> QED
    BY <2>6, <2>7
<1> QED
  BY <1>11, <1>12

LEMMA ScanCorrect == OutputSpec => []ScanInv
<1>1. OutputInit => ScanInv
  <2> SUFFICES ASSUME OutputInit PROVE ScanInv
    OBVIOUS
  <2>1. output = << >> /\ scan = Start /\ Len(output) = 0
    BY DEF OutputInit
  <2>2. HeldInv
    BY <2>1 DEF HeldInv, Start
  <2>3. MarkersUntold
    <3>1. Outside = {}
      BY <2>1 DEF Outside
    <3> QED
      BY <2>1, <3>1, FS_EmptySet DEF MarkersUntold, Visible, Start
  <2>4. LastRequestOffered
    <3>1. Asking = {} /\ Request = << >>
      BY <2>1 DEF Asking, Request, Start
    <3> QED
      BY <3>1 DEF LastRequestOffered
  <2> QED
    BY <2>2, <2>3, <2>4 DEF ScanInv
<1>2. MarkerType /\ ScanInv /\ [Emit]_outputVars => ScanInv'
  <2> SUFFICES ASSUME MarkerType, ScanInv, [Emit]_outputVars PROVE ScanInv'
    OBVIOUS
  <2>1. CASE Emit
    <3>1. PICK t \in OutputTokens : output' = Append(output, t) /\ scan' = Scanned(scan, t)
      BY <2>1 DEF Emit
    <3> QED
      BY <3>1, TokenHeld, TokenTold, TokenAsked DEF ScanInv
  <2>2. CASE UNCHANGED outputVars
    <3>1. output' = output /\ scan' = scan
      BY <2>2 DEF outputVars
    <3>2. HeldInv'
      BY <3>1 DEF ScanInv, HeldInv, Inside, Opens, OpenedAt
    <3>3. MarkersUntold'
      <4>1. Outside' = Outside /\ Visible' = Visible
        BY <3>1 DEF Outside, Inside, Visible
      <4> QED
        BY <3>1, <4>1 DEF ScanInv, MarkersUntold
    <3>4. LastRequestOffered'
      <4>1. Asking' = Asking /\ Request' = Request
        BY <3>1 DEF Asking, Request, Inside, Opens
      <4>2. Offered(Max(Asking))' = Offered(Max(Asking))
        BY <3>1, <4>1 DEF Offered, Opens, Inside
      <4> QED
        BY <4>1, <4>2 DEF ScanInv, LastRequestOffered
    <3> QED
      BY <3>2, <3>3, <3>4 DEF ScanInv
  <2> QED
    BY <2>1, <2>2
<1> QED
  BY <1>1, <1>2, MarkerTypeCorrect, PTL DEF OutputSpec

\* Whatever the model writes, of whatever length, nothing inside a marker is
\* told and everything outside one is.
THEOREM MarkersCorrect == OutputSpec => []MarkersUntold
<1>1. ScanInv => MarkersUntold
  BY DEF ScanInv
<1> QED
  BY <1>1, ScanCorrect, PTL

\* Whatever the model writes, the follow-up offered is that of the last
\* finished marker that asks for one, and none is offered without one.
THEOREM LastRequestCorrect == OutputSpec => []LastRequestOffered
<1>1. ScanInv => LastRequestOffered
  BY DEF ScanInv
<1> QED
  BY <1>1, ScanCorrect, PTL

-----------------------------------------------------------------------------
(* What the user said.                                                     *)

LEMMA HeardIsWords == IntentSpec => [](heard \in Seq(Words))
<1>1. IntentInit => heard \in Seq(Words)
  BY DEF IntentInit
<1>2. heard \in Seq(Words) /\ [Hear]_heard => (heard \in Seq(Words))'
  BY DEF Hear
<1> QED
  BY <1>1, <1>2, PTL DEF IntentSpec

\* A marker asks for more, and has no foreign word.
LEMMA MarkersAsk ==
  ASSUME NEW words \in Markers
  PROVE  "more" \in Said(words) /\ "other" \notin Said(words)
BY SMT DEF Markers, Said

\* No utterance with a foreign word is taken for a "continue", nor a "yes"
\* with nothing pending, however many words count as short.
THEOREM QuestionsCorrect == IntentSpec => []QuestionsAreAsked
<1>1. heard \in Seq(Words) => QuestionsAreAsked
  <2> SUFFICES ASSUME heard \in Seq(Words), heard # << >> PROVE QuestionsAreAsked
    BY DEF QuestionsAreAsked
  <2>1. "other" \in Said(heard) => ~AsksForMore(heard, TRUE) /\ ~AsksForMore(heard, FALSE)
    BY MarkersAsk DEF AsksForMore
  <2>2. "other" \notin Said(heard) /\ Len(heard) <= MaxTokens => AsksForMore(heard, TRUE)
    BY DEF AsksForMore
  <2>3. "more" \notin Said(heard) => ~AsksForMore(heard, FALSE)
    BY MarkersAsk DEF AsksForMore
  <2>4. \/ AsksForMore(heard, FALSE) /\ KindOf(heard) = "continue"
        \/ /\ AsksForMore(heard, TRUE) /\ ~AsksForMore(heard, FALSE)
           /\ KindOf(heard) = "affirmation"
        \/ /\ ~AsksForMore(heard, TRUE) /\ ~AsksForMore(heard, FALSE)
           /\ KindOf(heard) = "question"
    BY DEF KindOf
  <2>5. KindOf(heard) \in {"affirmation", "question"} =>
          Handle(KindOf(heard), NoPending).next = "ask"
    BY DEF Handle, IsContinueIntent, HandleQuestion, NoPending, PendingRecord, Decision
  <2>6. Len(heard) <= MaxTokens \/ Len(heard) > MaxTokens
    BY TokensAssumption
  <2>7. "other" \in Said(heard) => KindOf(heard) = "question"
    BY <2>1, <2>4
  <2>8. KindOf(heard) = "question" => "other" \in Said(heard) \/ Len(heard) > MaxTokens
    BY <2>2, <2>4, <2>6
  <2>9. "more" \notin Said(heard) => Handle(KindOf(heard), NoPending).next = "ask"
    BY <2>3, <2>4, <2>5
  <2> QED
    BY <2>7, <2>8, <2>9 DEF QuestionsAreAsked
<1> QED
  BY <1>1, HeardIsWords, PTL

=============================================================================

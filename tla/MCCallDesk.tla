------------------------------- MODULE MCCallDesk -------------------------------
(***************************************************************************)
(* Instances of CallDesk for TLC, and what SpokenNumbers computes for the  *)
(* phrases of a small vocabulary.                                          *)
(***************************************************************************)
EXTENDS CallDesk, SpokenNumbers

-----------------------------------------------------------------------------
(* The right way to say a number, and its words one by one.                 *)

SayBelow100(n) ==
    IF n = 0 THEN <<>>
    ELSE IF n < 10 THEN <<Unit(n)>>
    ELSE IF n < 20 THEN <<Teen(n)>>
    ELSE <<Ten(n - (n % 10))>> \o (IF n % 10 = 0 THEN <<>> ELSE <<Unit(n % 10)>>)

Scales == <<100000, 1000, 100>>

\* Lakhs, thousands and hundreds, each of one to ninety-nine, and the rest.
SayAll(n) ==
    LET lakhs == n \div 100000
        thousands == (n \div 1000) % 100
        hundreds == (n \div 100) % 10
        Part(k, scale) == IF k = 0 THEN <<>> ELSE SayBelow100(k) \o <<Scale(scale)>>
    IN  Part(lakhs, 100000) \o Part(thousands, 1000) \o Part(hundreds, 100) \o SayBelow100(n % 100)

\* Figures in place of words, as a recogniser mixes them.
Mixed(phrase) ==
    [i \in DOMAIN phrase |->
        IF phrase[i].kind \in {"unit", "teen"} THEN [phrase[i] EXCEPT !.kind = "figure"] ELSE phrase[i]]

Part == {0, 1, 2, 10, 12, 20, 22, 90, 99}

Numbers == {100000 * l + 1000 * t + 100 * h + r : l \in {0, 1, 22}, t \in Part, h \in {0, 1, 9}, r \in Part}
               \ {0}

\* A number that is said the right way is read as the number it is, in words
\* and in words and figures mixed, and so is one with a half or a quarter
\* (_arithmetic).
ASSUME WellSaid ==
    /\ \A n \in Numbers : Arithmetic(SayAll(n)) = Just(4 * n) /\ Arithmetic(Mixed(SayAll(n))) = Just(4 * n)
    /\ \A n \in 1 .. 9, scale \in {100, 1000, 100000}, q \in {2, 1, -1} :
          Arithmetic(<<Fraction(q), Unit(n), Scale(scale)>>) = Just((4 * n + q) * scale)

\* "Repetition and disorder are what a garbled number looks like, and neither is
\* worth guessing at" (numbers.py:52-53): a word that is said twice, or two that
\* are swapped, make the phrase another well-said number or none.
Stuttered(phrase, i) == SubSeq(phrase, 1, i) \o SubSeq(phrase, i, Len(phrase))

ASSUME StutterIsDeclined ==
    \A n \in Numbers : LET phrase == SayAll(n)
                       IN  \A i \in DOMAIN phrase : ~Arithmetic(Stuttered(phrase, i)).any

\* A scale that has lost the words before it is no number (numbers.py:336-339).
ASSUME TailIsDeclined ==
    \A n \in Numbers : LET phrase == SayAll(n)
                       IN  \A i \in DOMAIN phrase : phrase[i].kind = "scale" =>
                              ~Rewrite(SubSeq(phrase, i, Len(phrase)), LastMark, LastMark).rewritten

-----------------------------------------------------------------------------
(* Transcripts.                                                             *)

Vocabulary ==
    {Unit(4), Tok("unit", 8, TRUE), Teen(12), Ten(20), Scale(100), Scale(1000), Figure(5), Figure(640),
     Repeater(2), Fixed(6), Fraction(2), Mark("currency"), Mark("abbreviation"), Mark("symbol"),
     Mark("comma"), Mark("dot"), Mark("word")}

Phrases(length) == UNION {[1 .. k -> Vocabulary] : k \in 0 .. length}

\* Money is heard as money, before its currency and after it, and counted once;
\* what is passed on names its currency once (normalise, _rewrite).
ASSUME MoneyIsHeard ==
    \A n \in Numbers : \A c \in {"currency", "abbreviation", "symbol"} :
        LET before == Normalise(<<Mark(c)>> \o SayAll(n))
            after == Normalise(SayAll(n) \o <<Mark(c)>>)
            InRupees(t) == IsCurrency(t) \/ t.kind = "written"
        IN  \A found \in {before, after} :
                /\ found.amounts = <<4 * n>> /\ found.values = <<4 * n>>
                /\ Len(SelectSeq(found.out, InRupees)) = 1

\* Nothing is read across the end of a sentence: what two sentences tell is what
\* each of them tells, unless the first ends in an abbreviation's own full stop.
\* "The run continued across the sentence boundary ... and invented 642"
\* (numbers.py:165-168).
ASSUME SentencesStandAlone ==
    \A first, second \in Phrases(2) :
        first # <<>> /\ Last(first).kind \notin {"abbreviation", "dot"} =>
            LET both == Normalise(first \o <<Mark("dot")>> \o second)
                one == Normalise(first)
                two == Normalise(second)
            IN  /\ both.values = one.values \o two.values
                /\ both.amounts = one.amounts \o two.amounts
                /\ both.references = one.references \o two.references

\* "AMBIGUITY IS LEFT ALONE" (numbers.py:25): a word that may be no number is
\* one only beside another, and no transcript is rewritten where it names none.
ASSUME AmbiguityIsLeftAlone ==
    \A phrase \in Phrases(3) :
        (\A i \in DOMAIN phrase : phrase[i].ambiguous \/ ~IsNumber(phrase[i])) =>
            LET found == Normalise(phrase)
            IN  found.values = <<>> /\ found.references = <<>> /\ Len(found.out) <= Len(phrase)

\* Who needs one amount gets one that was said, and none when there are two.
ASSUME OneAmountOrNone ==
    \A first, second \in {SayAll(n) : n \in {640, 4500, 22000}} :
        SpokenAmount(<<Mark("currency")>> \o first \o <<Mark("comma"), Mark("currency")>> \o second) =
            IF first = second THEN Arithmetic(first) ELSE Nothing

-----------------------------------------------------------------------------
(* Receipts.                                                                *)

Clauses == 1 .. 4
Contradictory == {{1, 2}, {3, 4}}

\* A clause of one channel that contradicts one of the other is never called
\* consistent, whatever else the two have in common (build_receipt); the
\* tracker's way to err, to credit the call with a clause too many, hides no
\* such pair.
ASSUME SplitPairsShow ==
    \A text, voice, tooMany \in SUBSET Clauses :
        (\E pair \in Contradictory : \E c \in pair \cap text : pair \ {c} \subseteq voice \ text) =>
            ~BuildReceipt(text, voice \cup tooMany, Contradictory).consistent
================================================================================

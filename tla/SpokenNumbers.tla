----------------------------- MODULE SpokenNumbers -----------------------------
(***************************************************************************)
(* What a call makes of the numbers a customer speaks                      *)
(* (sanwaad/voice/numbers.py), and of the clauses the two channels relied  *)
(* on (sanwaad/voice/brief.py, sanwaad/consistency.py).                    *)
(*                                                                         *)
(* A transcript is a sequence of tokens without its white space.  Which    *)
(* words of which language mean what is left out: a token has a kind and a *)
(* value.  Values are in quarters, for the words that mean a half or a     *)
(* quarter; a figure is written in digits, and is whole.  All is pure; a   *)
(* transcript is read from the left, one run of number words at a time.    *)
(***************************************************************************)
EXTENDS Integers, Sequences, FiniteSets, SequencesExt

\* ambiguous: an English word too, as do, char and sat are.
Tok(kind, value, ambiguous) == [kind |-> kind, value |-> value, ambiguous |-> ambiguous]

Unit(n) == Tok("unit", 4 * n, FALSE)
Teen(n) == Tok("teen", 4 * n, FALSE)
Ten(n) == Tok("ten", 4 * n, FALSE)
Figure(n) == Tok("figure", 4 * n, FALSE)
Repeater(n) == Tok("repeater", n, FALSE)
Scale(n) == Tok("scale", n, FALSE)
Fixed(quarters) == Tok("fixed", quarters, FALSE)   \* dedh, dhai, adha
Fraction(quarters) == Tok("fraction", quarters, FALSE)  \* saadhe, sava, paune
Mark(kind) == Tok(kind, 0, FALSE)

Additive == {"unit", "teen", "ten", "figure"}

IsNumber(t) == t.kind \in Additive \cup {"scale", "repeater", "fixed", "fraction"}

\* rs and inr are written with a full stop.
IsCurrency(t) == t.kind \in {"currency", "abbreviation", "symbol"}

Nothing == [quarters |-> 0, any |-> FALSE]

Just(quarters) == [quarters |-> quarters, any |-> TRUE]

-----------------------------------------------------------------------------
(* One run of number words.                                                 *)

\* Only a word that can be nothing but a number makes its neighbours numbers.
Anchored(run) == \E i \in DOMAIN run : ~run[i].ambiguous /\ run[i].kind # "figure"

HasQuantity(run) == \E i \in DOMAIN run : run[i].kind \in Additive \cup {"fixed"}

\* Digits read out one by one, some of them doubled; none if it is no such run.
Spelled(s, t) ==
    CASE t.kind = "repeater" -> [s EXCEPT !.times = t.value]
      [] t.kind = "unit" \/ (t.kind = "figure" /\ t.value < 40) ->
            [s EXCEPT !.digits = @ \o [i \in 1 .. s.times |-> t.value \div 4], !.times = 1]
      [] OTHER -> [s EXCEPT !.ok = FALSE]

AsDigitString(run) ==
    LET s == FoldLeft(Spelled, [digits |-> <<>>, times |-> 1, ok |-> TRUE], run)
    IN  IF Len(run) >= 2 /\ s.ok /\ s.times = 1 THEN s.digits ELSE <<>>

Beyond == 2000000000    \* more than any scale

Band(t) == IF t.value >= 40 THEN 10 ELSE 1

\* pending: the fraction of the next scale that is to be added, or 0.
Begun == [total |-> 0, current |-> 0, pending |-> 0,
          lastScale |-> Beyond, lastAdd |-> Beyond, ok |-> TRUE]

AddWord(s, t) ==
    IF Band(t) >= s.lastAdd THEN [s EXCEPT !.ok = FALSE]
    ELSE [s EXCEPT !.lastAdd = Band(t), !.current = @ + t.value]

\* A scale has something before it, and is smaller than the one before.
Scaled(s, t) ==
    IF t.value >= s.lastScale \/ (s.current = 0 /\ s.pending = 0)
    THEN [s EXCEPT !.ok = FALSE]
    ELSE LET base == (IF s.current = 0 /\ s.pending # 0 THEN 4 ELSE s.current) + s.pending
             whole == t.value >= 1000
         IN  [s EXCEPT !.lastScale = t.value, !.lastAdd = 100, !.pending = 0,
                       !.total = IF whole THEN @ + base * t.value ELSE @,
                       !.current = IF whole THEN 0 ELSE base * t.value]

Accumulated(s, t) ==
    CASE ~s.ok -> s
      [] s.ok /\ t.kind = "repeater" -> [s EXCEPT !.ok = FALSE]
      [] s.ok /\ t.kind = "fixed" -> [s EXCEPT !.current = @ + t.value]
      [] s.ok /\ t.kind = "fraction" -> [s EXCEPT !.pending = t.value]
      [] s.ok /\ t.kind \in Additive -> AddWord(s, t)
      [] OTHER -> Scaled(s, t)

\* The number a run is, or Nothing: what is malformed is not repaired.
Arithmetic(run) ==
    LET s == FoldLeft(Accumulated, Begun, run)
    IN  IF run # <<>> /\ s.ok /\ s.pending = 0 THEN Just(s.total + s.current) ELSE Nothing

-----------------------------------------------------------------------------
(* The pass over a transcript.                                              *)

IsFigures(run) == \A i \in DOMAIN run : run[i].kind = "figure"

LastMark == Mark("none")

\* The word to the left, also through the full stop of an abbreviation.
WordBefore(out) ==
    CASE out = <<>> -> LastMark
      [] out # <<>> /\ Last(out).kind # "dot" -> Last(out)
      [] OTHER -> IF Len(out) > 1 /\ out[Len(out) - 1].kind = "abbreviation"
                  THEN out[Len(out) - 1] ELSE LastMark

WordAfter(tokens, j) == IF j \in DOMAIN tokens THEN tokens[j] ELSE LastMark

CommaBetweenFigures(out) ==
    Len(out) > 1 /\ Last(out).kind = "comma" /\ out[Len(out) - 1].kind = "figure"

\* What becomes of a run between two words: it is left as it was or rewritten,
\* and read as nothing, a reference, a value or an amount of money.
Reading(rewritten, as, value, digits) ==
    [rewritten |-> rewritten, as |-> as, value |-> value, digits |-> digits]

LeftAlone == Reading(FALSE, "nothing", 0, <<>>)

Rewrite(run, before, after) ==
    LET isAmount == IsCurrency(before) \/ IsCurrency(after)
        digits == AsDigitString(run)
        value == Arithmetic(run)
    IN  CASE IsFigures(run) ->
                IF Len(run) = 1 /\ after.kind # "comma" /\ isAmount
                THEN Reading(FALSE, "amount", run[1].value, <<>>) ELSE LeftAlone
          [] ~IsFigures(run) /\ (~Anchored(run) \/ ~HasQuantity(run)) -> LeftAlone
          [] ~IsFigures(run) /\ Anchored(run) /\ HasQuantity(run) /\ digits # <<>> ->
                Reading(TRUE, "reference", 0, digits)
          [] OTHER ->
                IF ~value.any \/ (Len(run) = 1 /\ run[1].kind = "unit" /\ ~isAmount)
                THEN LeftAlone
                ELSE Reading(TRUE, IF isAmount THEN "amount" ELSE "value", value.quarters, <<>>)

\* The end of the run that starts at i.
RunEnd(tokens, i) ==
    CHOOSE j \in i .. Len(tokens) :
        /\ \A k \in i .. j : IsNumber(tokens[k])
        /\ j < Len(tokens) => ~IsNumber(tokens[j + 1])

\* An amount takes the place of the currency word beside it; a run that is left
\* alone is one piece of text.
Placed(out, run, r, before) ==
    CASE r.rewritten /\ r.as = "amount" /\ before.kind # "symbol" ->
            Append(IF out # <<>> /\ IsCurrency(Last(out)) THEN Front(out) ELSE out,
                   Tok("written", r.value, FALSE))
      [] r.rewritten /\ ~(r.as = "amount" /\ before.kind # "symbol") ->
            Append(out, IF r.as = "reference" THEN Mark("digits") ELSE Tok("figure", r.value, FALSE))
      [] OTHER -> Append(out, IF Len(run) = 1 THEN run[1] ELSE Mark("word"))

Unread == [out |-> <<>>, amounts |-> <<>>, values |-> <<>>, references |-> <<>>, skip |-> FALSE]

ReadRun(s, tokens, i) ==
    LET j == RunEnd(tokens, i)
        run == SubSeq(tokens, i, j)
        before == WordBefore(s.out)
        after == WordAfter(tokens, j + 1)
        r == IF CommaBetweenFigures(s.out) THEN LeftAlone ELSE Rewrite(run, before, after)
    IN  [out |-> Placed(s.out, run, r, before),
         amounts |-> IF r.as = "amount" THEN Append(s.amounts, r.value) ELSE s.amounts,
         values |-> IF r.as \in {"amount", "value"} THEN Append(s.values, r.value) ELSE s.values,
         references |-> IF r.as = "reference" THEN Append(s.references, r.digits) ELSE s.references,
         skip |-> r.rewritten /\ r.as = "amount" /\ before.kind # "symbol" /\ IsCurrency(after)]

Normalise(tokens) ==
    LET Read(s, i) ==
            CASE IsNumber(tokens[i]) /\ i > 1 /\ IsNumber(tokens[i - 1]) -> s
              [] IsNumber(tokens[i]) /\ ~(i > 1 /\ IsNumber(tokens[i - 1])) -> ReadRun(s, tokens, i)
              [] ~IsNumber(tokens[i]) /\ s.skip -> [s EXCEPT !.skip = FALSE]
              [] OTHER -> [s EXCEPT !.out = Append(@, tokens[i])]
    IN  FoldLeftDomain(Read, Unread, tokens)

\* The single amount of a phrase.
SpokenAmount(tokens) ==
    LET found == Normalise(tokens)
        unique == ToSet(IF found.amounts # <<>> THEN found.amounts ELSE found.values)
    IN  IF Cardinality(unique) = 1 THEN Just(CHOOSE v \in unique : TRUE) ELSE Nothing

-----------------------------------------------------------------------------
(* The clauses of a call, by the terms that were spoken, and the receipt.   *)

Used(terms, spoken, minTerms) ==
    {c \in DOMAIN terms : Cardinality(terms[c] \cap spoken) >= minTerms}

BuildReceipt(text, voice, contradictory) ==
    LET shared == text \cap voice
        contradicted == \E pair \in contradictory : pair \subseteq text \cup voice
                                                       /\ ~(pair \subseteq shared)
    IN  IF voice = {} THEN [shared |-> text, consistent |-> TRUE]
        ELSE [shared |-> shared,
              consistent |-> ~contradicted /\ (shared # {} \/ text = {})]
================================================================================

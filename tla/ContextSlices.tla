--------------------------- MODULE ContextSlices ---------------------------
(***************************************************************************)
(* core/optimizer/context.ts: what of a task's context a subtask is given. *)
(* A context is its paragraphs in order, each with its length and the      *)
(* score its words give it for the subtask's role; the paragraphs of a     *)
(* text are joined by two characters.  Code is dense: its tokens are       *)
(* shorter.  Paragraphs of more than 60 lines, which are cut into          *)
(* overlapping windows, are left out.                                      *)
(***************************************************************************)
EXTENDS Integers, SequencesExt

CONSTANTS
  MaxTokens,         \* rule.maxTokens of the role
  HeadTokens,        \* HEAD_TOKENS
  ExtractThreshold,  \* LLM_EXTRACT_THRESHOLD_TOKENS
  MinExtract         \* an extract must have more tokens than this: 200

ASSUME ContextSlicesAssumption ==
  {MaxTokens, HeadTokens, ExtractThreshold, MinExtract} \subseteq Nat \ {0}

-----------------------------------------------------------------------------
(* infra/text.ts. A text here is the lengths of its paragraphs.            *)

CeilDiv(a, b) == (a + b - 1) \div b

\* Four characters to a token, 3.2 in code.
countTokens(chars, dense) == IF dense THEN CeilDiv(10 * chars, 32) ELSE CeilDiv(chars, 4)

Joint == 2

Chars(text) ==
  IF text = <<>> THEN 0 ELSE FoldLeft(+, 0, text) + Joint * (Len(text) - 1)

\* slice.lastIndexOf('\n\n'), 0 for none.
LastBreak(text, limit) ==
  Max({0} \cup {Chars(SubSeq(text, 1, i)) : i \in {j \in 1..(Len(text) - 1) :
                                        Chars(SubSeq(text, 1, j)) + Joint <= limit}})

\* Where the slice is cut: at its last paragraph break, if that is late enough.
CutAt(text, limit) ==
  LET lastBreak == LastBreak(text, limit)
  IN  IF 10 * lastBreak > 6 * limit THEN lastBreak ELSE limit

\* How many characters of a text are left of it: the tokens it may have are
\* counted as four characters each, in code too.
truncateToTokens(text, dense, max) ==
  IF countTokens(Chars(text), dense) <= max THEN Chars(text) ELSE CutAt(text, 4 * max)

-----------------------------------------------------------------------------
(* A context is [chunks |-> a sequence of [chars, score], dense |-> its    *)
(* kind, extracted |-> the length of what the extractor answers, 0 for a   *)
(* failed call or none].                                                   *)

Lengths(chunks) == [i \in DOMAIN chunks |-> chunks[i].chars]
TokensOf(context, i) == countTokens(context.chunks[i].chars, context.dense)
TokensBefore(context) == countTokens(Chars(Lengths(context.chunks)), context.dense)

\* What every slice begins with.
Opening(context) == truncateToTokens(Lengths(context.chunks), context.dense, HeadTokens)

\* The chunks by score; the sort is stable.
Scored(context) ==
  LET score(i) == context.chunks[i].score
  IN  SortSeq([i \in DOMAIN context.chunks |-> i],
              LAMBDA i, j : score(i) > score(j) \/ (score(i) = score(j) /\ i < j))

\* Slip: the budget is only looked at, never charged.
ChargedNothing(context, choice, i) == [choice EXCEPT !.kept = @ \cup {i}]

Charged(context, choice, i) ==
  [kept |-> choice.kept \cup {i}, budget |-> choice.budget - TokensOf(context, i)]

Passed(context, choice, i) ==
  \/ choice.budget <= 0
  \/ choice.kept # {} /\ (context.chunks[i].score <= 0 \/ TokensOf(context, i) > choice.budget)

\* The chunks that are kept: by score, as many as there is room for.
Kept(context) ==
  FoldLeft(LAMBDA choice, i :
             IF Passed(context, choice, i) THEN choice ELSE Charged(context, choice, i),
           [kept |-> {}, budget |-> MaxTokens - countTokens(Opening(context), context.dense)],
           Scored(context)).kept

\* The head, the mark of what was left out and the kept chunks, in their order.
Composed(context) ==
  LET kept == Kept(context)
      lengths == Lengths(context.chunks)
      Ellipsis == 3
  IN  IF kept = DOMAIN context.chunks THEN lengths
      ELSE <<Opening(context), Ellipsis>> \o
           FoldLeft(LAMBDA body, i : IF i \in kept THEN Append(body, lengths[i]) ELSE body,
                    <<>>, [i \in DOMAIN lengths |-> i])

Extract(context) == truncateToTokens(<<context.extracted>>, context.dense, MaxTokens)

Strategy(context) ==
  CASE TokensBefore(context) <= MaxTokens -> "passthrough"
    [] /\ TokensBefore(context) > MaxTokens
       /\ TokensBefore(context) > ExtractThreshold
       /\ countTokens(Extract(context), context.dense) > MinExtract -> "llm"
    [] OTHER -> "keyword"

\* The length of the slice.
buildContextSlice(context) ==
  CASE Strategy(context) = "passthrough" -> Chars(Lengths(context.chunks))
    [] Strategy(context) = "llm" -> Extract(context)
    [] Strategy(context) = "keyword" -> truncateToTokens(Composed(context), context.dense, MaxTokens)

-----------------------------------------------------------------------------
(* Properties of one context. *)

\* A slice is never empty and never over the role's budget by more than the
\* quarter that text.ts:21 gives code (context.ts:153, 220).
SliceFits(context) ==
  LET after == countTokens(buildContextSlice(context), context.dense)
  IN  /\ after > 0
      /\ after <= IF context.dense THEN CeilDiv(5 * MaxTokens, 4) ELSE MaxTokens

\* A relevant chunk is left out only for want of room: those kept with a score
\* as high as its own do not leave it enough (context.ts:208-214).
LeftOutForRoom(context) ==
  LET kept == Kept(context)
      ahead(i) == {j \in kept : context.chunks[j].score >= context.chunks[i].score}
      taken(i) == countTokens(Opening(context), context.dense)
                    + FoldFunctionOnSet(+, 0, [j \in kept |-> TokensOf(context, j)], ahead(i))
  IN  Strategy(context) = "keyword" =>
        /\ kept # {}
        /\ \A i \in DOMAIN context.chunks \ kept :
             context.chunks[i].score > 0 => taken(i) + TokensOf(context, i) > MaxTokens

\* What was kept arrives: the final cut takes what the budget did not count, the
\* marks and joints between the chunks, and the paragraph it falls in, unless the
\* first chunk alone was too large (context.ts:211, 219-223).
KeptArrives(context) ==
  LET text == Composed(context)
      uncounted == Chars(text) - Chars(<<Opening(context)>>) - FoldLeft(+, 0, SubSeq(text, 3, Len(text)))
      oversized == \E i \in Kept(context) :
        TokensOf(context, i) > MaxTokens - countTokens(Opening(context), context.dense)
  IN  Strategy(context) = "keyword" /\ Kept(context) # DOMAIN context.chunks /\ ~oversized =>
        Chars(text) - buildContextSlice(context) <= uncounted + Max(Range(text))

\* A slice is the best the loop can do: it fits, leaves out what has no room or
\* no score, and delivers what it kept.
BestEffort(context) == SliceFits(context) /\ LeftOutForRoom(context) /\ KeptArrives(context)
=============================================================================

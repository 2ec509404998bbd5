------------------------------ MODULE Extraction ------------------------------
(***************************************************************************)
(* What the grader reads out of a completion: the tail (grade/pool.py),    *)
(* the boxed and last-integer policies (grade/extract.py) and the position *)
(* of the answer (grade/tokenpos.py), as grade/runner.py combines them.    *)
(*                                                                         *)
(* A completion is a sequence of symbols, each one unit of text: "\boxed{" *)
(* is one symbol, digits are digits, and blanks, signs and commas, which   *)
(* the code strips, are left out. A token is a piece of text of any        *)
(* length: at a symbol any number of tokens of Density may begin, none     *)
(* where the symbol continues the token before it.                         *)
(***************************************************************************)
EXTENDS Integers, Sequences, SequencesExt

CONSTANTS
    Digit, Other,  \* symbols besides the braces
    TAIL,          \* TAIL_BYTES
    Density,       \* how many tokens may begin at a symbol
    MaxLen         \* bound on the length of a completion

Box == "boxed{"
Symbol == {Box, "{", "}"} \cup Digit \cup Other

ASSUME ExtractionAssumption ==
    /\ Digit \cap (Other \cup {Box, "{", "}"}) = {} /\ Other \cap {Box, "{", "}"} = {}
    /\ TAIL \in Nat \ {0} /\ MaxLen \in Nat /\ Density \subseteq Nat

VARIABLES
    text,  \* the completion so far
    begun  \* begun[i]: how many of its tokens have begun by symbol i

vars == <<text, begun>>

-----------------------------------------------------------------------------
\* Mutant: the head is kept.
clip_head(s) == IF Len(s) <= TAIL THEN s ELSE SubSeq(s, 1, TAIL)

clip_tail(s) == IF Len(s) <= TAIL THEN s ELSE SubSeq(s, Len(s) - TAIL + 1, Len(s))

Depth(s, i, j) ==
    Cardinality({x \in i..j : s[x] \in {Box, "{"}}) - Cardinality({x \in i..j : s[x] = "}"})

\* _balanced_after: where the group opened at i closes; 0 if it is never closed.
Close(s, i) ==
    LET ends == {j \in i..Len(s) : Depth(s, i, j) = 0}
    IN  IF ends = {} THEN 0 ELSE Min(ends)

Content(s, i) == SubSeq(s, i + 1, Close(s, i) - 1)

\* Mutant: the search ends at a box that is never closed.
iter_boxedUntilOpen(s) ==
    LET take(found, i) ==
            IF s[i] = Box /\ i >= found.consumed_to /\ \A h \in 1..i : s[h] = Box => Close(s, h) # 0
            THEN [out |-> Append(found.out, Content(s, i)), consumed_to |-> Close(s, i) + 1]
            ELSE found
    IN  FoldLeft(take, [out |-> <<>>, consumed_to |-> 0], [i \in 1..Len(s) |-> i]).out

\* Left to right, past each box taken; an unbalanced one is passed over, not its inside.
iter_boxed(s) ==
    LET take(found, i) ==
            IF s[i] = Box /\ i >= found.consumed_to /\ Close(s, i) # 0
            THEN [out |-> Append(found.out, Content(s, i)), consumed_to |-> Close(s, i) + 1]
            ELSE found
    IN  FoldLeft(take, [out |-> <<>>, consumed_to |-> 0], [i \in 1..Len(s) |-> i]).out

\* One round of _unwrap_nested: a box alone, or followed by text without one.
Unwrap(s) ==
    IF s # <<>> /\ s[1] = Box /\ Len(iter_boxed(s)) = 1 THEN iter_boxed(s)[1] ELSE s

\* Mutant: a single round.
unwrap_once(s) == Unwrap(s)

\* Four rounds; once a round changes nothing the rest do not either.
unwrap_nested(s) == Unwrap(Unwrap(Unwrap(Unwrap(s))))

\* No answer is the empty sequence, which is what an empty box gives as well.
boxed_last(s) ==
    LET boxes == iter_boxed(s) IN IF boxes = <<>> THEN <<>> ELSE unwrap_nested(Last(boxes))

boxed_strict(s) == IF Len(iter_boxed(s)) > 1 THEN <<>> ELSE boxed_last(s)

\* The places of the last maximal run of digits.
LastRun(s) ==
    LET digits == {i \in 1..Len(s) : s[i] \in Digit}
    IN  {i \in digits : \A j \in i..Max(digits) : j \in digits}

last_int(s) ==
    IF LastRun(s) = {} THEN <<>> ELSE SubSeq(s, Min(LastRun(s)), Max(LastRun(s)))

-----------------------------------------------------------------------------
\* find_answer_char: places before the last occurrence of the answer (rfind).
FindAnswer(s, answer) ==
    Max({i \in 0..Len(s) - Len(answer) : SubSeq(s, i + 1, i + Len(answer)) = answer})

\* round(x / y): to the nearest, ties to the even one.
Round(x, y) ==
    LET q == x \div y
        r == x % y
    IN  IF 2 * r > y \/ (2 * r = y /\ q % 2 = 1) THEN q + 1 ELSE q

NO_ANSWER == -1

\* Mutant: the end of the answer counts, not where it begins.
answer_token_posEnd(s, n) ==
    LET tail == clip_tail(s)
        answer == boxed_last(tail)
    IN  IF answer = <<>> THEN NO_ANSWER
        ELSE Round((FindAnswer(tail, answer) + Len(answer)) * n, Len(tail))

\* The place of boxed_last's answer in the tail, as a fraction of the tail, times the n
\* tokens of the whole completion. Nothing is before or past the tail, so the bounds 0.0 and
\* 1.0 of the fraction are never met.
answer_token_pos(s, n) ==
    LET tail == clip_tail(s)
    IN  IF boxed_last(tail) = <<>> THEN NO_ANSWER
        ELSE Round(FindAnswer(tail, boxed_last(tail)) * n, Len(tail))

-----------------------------------------------------------------------------
\* The tokens begun in the first i symbols, and in all of them.
Before(i) == IF i = 0 THEN 0 ELSE begun[i]
n_completion_tokens == Before(Len(text))

Init == text = <<>> /\ begun = <<>>

\* Any completion, symbol by symbol, and any division of it into tokens.
Emit(c, k) ==
    /\ Len(text) < MaxLen
    /\ text = <<>> => k > 0
    /\ text' = Append(text, c)
    /\ begun' = Append(begun, Before(Len(text)) + k)

Next == \E c \in Symbol, k \in Density : Emit(c, k)
Spec == Init /\ [][Next]_vars

-----------------------------------------------------------------------------
TypeOK ==
    /\ Len(text) <= MaxLen /\ ToSet(text) \subseteq Symbol
    /\ Len(begun) = Len(text) /\ ToSet(begun) \subseteq Nat

\* The places of the boxes that are closed, and of those in no other such box.
Balanced == {i \in 1..Len(text) : text[i] = Box /\ Close(text, i) # 0}
Outermost == {i \in Balanced : \A j \in Balanced : j < i => Close(text, j) < i}

\* iter_boxed gives the content of each outermost balanced box once, in order, also after an
\* unbalanced opener, braces of other kinds and stray closers (extract.py:41-60).
OutermostBoxes ==
    /\ Len(iter_boxed(text)) = Cardinality(Outermost)
    /\ \A i \in Outermost :
         iter_boxed(text)[Cardinality({j \in Outermost : j <= i})] = Content(text, i)

\* A box around a box is never ambiguous and does not change the answer, as far as the four
\* rounds reach; beyond them one box of the nest is left around it (extract.py:42-46, 64-72).
WrapHarmless ==
    text # <<>> /\ text[1] = Box /\ Close(text, 1) = Len(text) =>
        LET wrapped == <<Box>> \o text \o <<"}">>
        IN  /\ boxed_strict(wrapped) = boxed_last(wrapped)
            /\ Cardinality(Balanced) <= 4 => boxed_last(wrapped) = boxed_last(text)
            /\ Unwrap(boxed_last(wrapped)) = boxed_last(text)

\* The tail decides as the whole completion does whenever it holds the last box, or all of
\* the last run of digits (pool.py:19).
TailDecides ==
    LET cut == Len(text) - Len(clip_tail(text))
    IN  /\ Outermost # {} /\ Max(Outermost) > cut =>
               boxed_last(clip_tail(text)) = boxed_last(text)
        /\ LastRun(text) # {} /\ Min(LastRun(text)) > cut =>
               last_int(clip_tail(text)) = last_int(text)

\* The recorded position is one of the completion's tokens and "roughly calibrated": where
\* the text up to the answer's last occurrence has at least the tokens per symbol of the
\* whole, it is not past the token at which that occurrence begins; where that text has at
\* most as many and the tail cuts nothing off, it is not before it (tokenpos.py:18-36,
\* runner.py:77-80).
PositionCalibrated ==
    LET N == n_completion_tokens
        L == Len(text)
        place == FindAnswer(text, boxed_last(clip_tail(text)))
        pos == answer_token_pos(text, N)
    IN  pos # NO_ANSWER =>
            /\ pos \in 0..N
            /\ Before(place) * L >= place * N => pos <= Before(place)
            /\ L <= TAIL /\ Before(place) * L <= place * N => pos >= Before(place)

\* correct_at_budget drops no answer whose box a generation cap would have left whole: the
\* recorded position is not past the tokens that the box needs (truncation analysis is
\* "exact", tokenpos.py:3-6; "would this sample still have been correct", tokenpos.py:40).
C5KeepsWhatFits ==
    answer_token_pos(text, n_completion_tokens) # NO_ANSWER =>
        answer_token_pos(text, n_completion_tokens) <= Before(Close(text, Max(Outermost)))

\* The same of a completion that does not repeat its answer after the box: there it is the
\* share of the characters, taken for a share of the tokens, that decides (tokenpos.py:21-28).
C5KeepsUnrepeated ==
    answer_token_pos(text, n_completion_tokens) # NO_ANSWER
    /\ FindAnswer(text, boxed_last(clip_tail(text))) < Close(text, Max(Outermost)) =>
        answer_token_pos(text, n_completion_tokens) <= Before(Close(text, Max(Outermost)))
=============================================================================

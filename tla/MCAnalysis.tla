------------------------------ MODULE MCAnalysis ------------------------------
(* Two sampled problems of a recent dataset and one of an old one, two samples  *)
(* each.  The second and third problem of "new" share their answer, and so do   *)
(* both of "old"; the first has one of its own.                                 *)
EXTENDS Analysis, TLC

MCGold == <<"new", 0>> :> 10 @@ <<"new", 1>> :> 20 @@ <<"new", 2>> :> 20
          @@ <<"old", 0>> :> 30 @@ <<"old", 1>> :> 30
MCNullOf == <<"new", 0>> :> <<"new", 1>> @@ <<"new", 1>> :> <<"new", 2>>
            @@ <<"new", 2>> :> <<"new", 0>>
            @@ <<"old", 0>> :> <<"old", 1>> @@ <<"old", 1>> :> <<"old", 0>>

Of(m, d, i, s, pred, tokens, pos) ==
    [model |-> m, problem |-> <<d, i>>, sample |-> s, variant |-> "native", usable |-> TRUE,
     pred |-> pred, tokens |-> tokens, pos |-> pos]

\* What a sample of the base may have come to: nothing, or the answer.
BaseSample(d, i, s, gold) == {Of("base", d, i, s, NoInt, 4, -1), Of("base", d, i, s, gold, 3, 2)}
\* And one of the trained model: the answer early, or later than the base ever answers.
RlSample(d, i, s, gold) == {Of("rl", d, i, s, gold, 1, 1), Of("rl", d, i, s, gold, 5, 4)}
\* A wrong answer; at the first problem it is the null gold.
RlMiss(d, i, s) == Of("rl", d, i, s, IF d = "new" THEN 20 - 10 * i ELSE 10, 2, 2)

MCSample ==
    UNION {
        UNION {BaseSample("new", 0, s, 10) : s \in 0..1}, BaseSample("new", 1, 0, 20),
        {Of("base", "new", 1, 1, 20, 1, 1)}, {Of("base", "old", 0, s, 30, 1, 1) : s \in 0..1},
        RlSample("new", 0, 0, 10), {Of("rl", "new", 0, 0, NoInt, 5, -1), RlMiss("new", 0, 1)},
        {RlMiss("new", 1, 0)}, RlSample("new", 1, 1, 20), {RlMiss("old", 0, s) : s \in 0..1},
        \* another prompt variant, and nulls left by another grader configuration
        {[RlMiss("old", 0, 0) EXCEPT !.variant = "shared"],
         [RlMiss("old", 0, 1) EXCEPT !.usable = FALSE]}}
=============================================================================

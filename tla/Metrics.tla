------------------------------ MODULE Metrics ------------------------------
(***************************************************************************)
(* The metrics of an experiment and its status: evaluation/metrics and     *)
(* the end of evaluation/runner.                                           *)
(*                                                                         *)
(* An outcome says whether the question was processed without error (ok),  *)
(* whether an abstention is expected, which chunks are expected, retrieved *)
(* (in order) and cited, how generation ended, and how long it took.  A    *)
(* number is a fraction of naturals; NoFraction is that of nothing.        *)
(***************************************************************************)
EXTENDS Integers, Sequences, FiniteSetsExt, Functions

CONSTANTS MaxErrors  \* max_question_error_rate (code: 0.10)

NoFraction == <<0, 0>>
Fraction(n, d) == IF d = 0 THEN NoFraction ELSE <<n, d>>
Below(f, g) == f # NoFraction /\ g # NoFraction /\ f[1] * g[2] < g[1] * f[2]

\* Sets of questions are sets of their places among the outcomes.
Share(some, all) == Fraction(Cardinality(some), Cardinality(all))

\* A common denominator of 1/n, for lists and citations of at most three chunks.
Unit == 6

Mean(score) == Fraction(SumFunction(score), Unit * Cardinality(DOMAIN score))

Processed(outcomes) == {i \in DOMAIN outcomes : outcomes[i].ok}

-----------------------------------------------------------------------------
(* Retrieval *)

Eligible(outcomes, includeAbstain) ==
    {i \in Processed(outcomes) :
        (includeAbstain \/ ~outcomes[i].expectAbstention) /\ outcomes[i].expected # {}}

Hits(o) == {rank \in DOMAIN o.retrieved : o.retrieved[rank] \in o.expected}

RecallAtK(outcomes, includeAbstain) ==
    LET eligible == Eligible(outcomes, includeAbstain)
    IN  Share({i \in eligible : Hits(outcomes[i]) # {}}, eligible)

\* Mutant: every expected chunk found counts.
ReciprocalRank_AllHits(o) == MapThenSumSet(LAMBDA rank : Unit \div rank, Hits(o))

ReciprocalRank(o) == IF Hits(o) = {} THEN 0 ELSE Unit \div Min(Hits(o))

Mrr(outcomes, includeAbstain) ==
    Mean([i \in Eligible(outcomes, includeAbstain) |-> ReciprocalRank(outcomes[i])])

-----------------------------------------------------------------------------
(* Generation *)

Precision(o) == (Unit * Cardinality(o.cited \cap o.expected)) \div Cardinality(o.cited)

IsAccurate(o) == o.cited = o.expected

\* Every citation was retrieved, and there is one: whether it was expected is not asked.
IsGrounded(o) == o.reply = "completed" /\ o.cited # {} /\ o.cited \subseteq Range(o.retrieved)

Answerable(outcomes) == {i \in Processed(outcomes) : ~outcomes[i].expectAbstention}

Judged(outcomes) ==
    {i \in Answerable(outcomes) : outcomes[i].reply = "completed" /\ outcomes[i].expected # {}}

Groundedness(outcomes) ==
    Share({i \in Judged(outcomes) : IsGrounded(outcomes[i])}, Answerable(outcomes))

Cited(outcomes) == {i \in Judged(outcomes) : outcomes[i].cited # {}}

CitationPrecisionMean(outcomes) == Mean([i \in Cited(outcomes) |-> Precision(outcomes[i])])

CitationAccuracy(outcomes) ==
    Share({i \in Judged(outcomes) : IsAccurate(outcomes[i])}, Judged(outcomes))

Abstained(outcomes) == {i \in Processed(outcomes) : outcomes[i].reply = "abstained"}
ToAbstain(outcomes) == {i \in Processed(outcomes) : outcomes[i].expectAbstention}

AbstentionPrecision(outcomes) ==
    Share(Abstained(outcomes) \cap ToAbstain(outcomes), Abstained(outcomes))

AbstentionRecall(outcomes) ==
    Share(Abstained(outcomes) \cap ToAbstain(outcomes), ToAbstain(outcomes))

-----------------------------------------------------------------------------
(* Latency *)

UpTo(values, v) == {i \in DOMAIN values : values[i] <= v}

\* percentile: the value at the nearest rank of the sorted list, when there is one.
Percentile(values, p) ==
    LET rank == (p * Len(values) + 99) \div 100
    IN  Min({v \in Range(values) : Cardinality(UpTo(values, v)) >= Max({1, Min({rank, Len(values)})})})

-----------------------------------------------------------------------------
(* aggregate_metrics and the status *)

Report(outcomes, includeAbstain) ==
    [recallAtK |-> RecallAtK(outcomes, includeAbstain), mrr |-> Mrr(outcomes, includeAbstain),
     groundedness |-> Groundedness(outcomes),
     citationPrecisionMean |-> CitationPrecisionMean(outcomes),
     citationAccuracy |-> CitationAccuracy(outcomes),
     abstentionPrecision |-> AbstentionPrecision(outcomes),
     abstentionRecall |-> AbstentionRecall(outcomes)]

Gates == {"recallAtK", "mrr", "groundedness", "citationPrecisionMean", "abstentionPrecision"}

\* evaluate_thresholds: a gate without a threshold, or without a number, is passed.
Failing(report, threshold) == {g \in Gates : Below(report[g], threshold[g])}

ErrorRate(outcomes) ==
    IF outcomes = <<>> THEN <<1, 1>>
    ELSE Share(DOMAIN outcomes \ Processed(outcomes), DOMAIN outcomes)

Passed(outcomes, includeAbstain, threshold) ==
    /\ Failing(Report(outcomes, includeAbstain), threshold) = {}
    /\ ~Below(MaxErrors, ErrorRate(outcomes))

-----------------------------------------------------------------------------
(* Properties *)

\* A first hit cannot weigh more than a hit, nor a full match more than a precise
\* one, nor half of the questions be slower than most.
MetricsAgree(outcomes, includeAbstain) ==
    LET r == Report(outcomes, includeAbstain)
    IN  /\ ~Below(r.recallAtK, r.mrr)
        /\ ~Below(r.citationPrecisionMean, r.citationAccuracy)
        /\ ~Below(<<1, 1>>, r.mrr) /\ ~Below(<<1, 1>>, r.groundedness)
        /\ LET ms == [i \in DOMAIN outcomes |-> outcomes[i].ms]
           IN  ms # <<>> => Percentile(ms, 50) <= Percentile(ms, 95)

\* The best answer to a question that says what it expects.
Best(o) ==
    [o EXCEPT !.ok = TRUE,
              !.retrieved = CHOOSE s \in [1..Cardinality(o.expected) -> o.expected] : IsInjective(s),
              !.cited = IF o.expectAbstention THEN {} ELSE o.expected,
              !.reply = IF o.expectAbstention THEN "abstained" ELSE "completed"]

\* A run that passed does not fail because a question that ended in an error is
\* answered in the best way instead, although errors leave every denominator.
BetterStillPasses(outcomes, includeAbstain, threshold) ==
    \A i \in DOMAIN outcomes :
        ~outcomes[i].ok /\ (outcomes[i].expected # {} \/ outcomes[i].expectAbstention)
          /\ Passed(outcomes, includeAbstain, threshold) =>
            Passed([outcomes EXCEPT ![i] = Best(@)], includeAbstain, threshold)
=============================================================================

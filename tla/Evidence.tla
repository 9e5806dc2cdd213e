------------------------------ MODULE Evidence ------------------------------
(***************************************************************************)
(* Evidence selection (generation/evidence_selection.py): of the chunks a  *)
(* search returned, those that go into the prompt.  A chunk has a text, a  *)
(* heading (no line, or one), the score of the search in hundredths, and   *)
(* its place: the document and its index there.                            *)
(*                                                                         *)
(* Signals are percentages and weights hundredths, so a selection score    *)
(* counts ten-thousandths.                                                 *)
(***************************************************************************)
EXTENDS Words

MaxPrimary == 3
MaxSupplementary == 2
PrimaryThreshold == 4200
SupplementaryThreshold == 2800
HardFloor == 1800
DistractorPenalty == 1200

\* The heading is put before the text: its last word and the first of the text.
Joint(c) == IF c.heading = <<>> \/ c.text = <<>> THEN {}
            ELSE LET heading == c.heading[Len(c.heading)].words
                 IN  {<<heading[Len(heading)], c.text[1].words[1]>>}

\* Entities are the tokens that stand out: every content token does here.
Signals(query, chunks, i) ==
    LET c == chunks[i]
        whole == c.heading \o c.text
        best == Max({chunks[j].score : j \in DOMAIN chunks})
    IN  [lexical |-> Jaccard(ContentTokens(query), ContentTokens(c.text)),
         persian |-> Jaccard(ContentTokens(query) \cap Persian, ContentTokens(whole) \cap Persian),
         heading |-> Jaccard(ContentTokens(query), ContentTokens(c.heading)),
         faq |-> BestFaq(query, c.text),
         phrase |-> IF PhraseOf(query, whole) THEN 100
                    ELSE (50 * Cardinality(Bigrams(query) \cap Joint(c)))
                            \div Max({1, Cardinality(Bigrams(query))}),
         numeric |-> IF NumbersOf(query) = {} THEN 0
                     ELSE (100 * Cardinality(NumbersOf(query) \cap NumbersOf(c.text)))
                             \div Cardinality(NumbersOf(query)),
         entity |-> Jaccard(ContentTokens(query), ContentTokens(whole)),
         rc32 |-> IF best = 0 THEN 0 ELSE (100 * c.score) \div best,
         rank |-> 100 \div i]

Penalty(query, c) == IF Distracts(query, c.text) THEN DistractorPenalty ELSE 0

Combine(s, proximity, penalty) ==
    Max({0, 14 * s.lexical + 12 * s.persian + 10 * s.heading + 16 * s.faq + 12 * s.phrase
              + 8 * s.numeric + 6 * s.entity + 5 * proximity + 10 * s.rc32 + 7 * s.rank
              - penalty})

Proximity(anchor, other) ==
    LET distance == Max({anchor.index - other.index, other.index - anchor.index})
    IN  CASE other = anchor -> 100
          [] other # anchor /\ other.document # anchor.document -> 0
          [] OTHER -> CASE distance = 0 -> 90 [] distance = 1 -> 70 [] distance = 2 -> 40
                        [] distance \in 3..4 -> 20 [] OTHER -> 0

\* The first position of the highest score.
Best(scores) ==
    CHOOSE i \in DOMAIN scores :
        \A j \in DOMAIN scores : scores[j] < scores[i] \/ (scores[j] = scores[i] /\ i <= j)

Scores(query, chunks) ==
    LET signals == [i \in DOMAIN chunks |-> Signals(query, chunks, i)]
        first == [i \in DOMAIN chunks |-> Combine(signals[i], 0, Penalty(query, chunks[i]))]
        anchor == chunks[Best(first)]
    IN  [i \in DOMAIN chunks |->
            Combine(signals[i], Proximity(anchor, chunks[i]), Penalty(query, chunks[i]))]

Label(s, score) ==
    LET direct == \/ s.faq >= 45
                  \/ s.phrase >= 75
                  \/ s.numeric >= 100 /\ s.lexical >= 15
                  \/ s.heading >= 50 /\ s.lexical >= 20
    IN  IF score >= PrimaryThreshold \/ (direct /\ score >= SupplementaryThreshold) THEN "primary"
        ELSE IF score >= SupplementaryThreshold THEN "supplementary" ELSE "irrelevant"

\* Mutant: the best of irrelevant chunks is promoted whatever its score.
Promotes_Always(score) == TRUE

Promotes(score) == score >= HardFloor

Labelled(query, chunks, scores, label) ==
    {i \in DOMAIN chunks : Label(Signals(query, chunks, i), scores[i]) = label}

\* select_evidence: the positions of the chunks selected, in the order of the prompt.
Select(query, chunks) ==
    LET scores == Scores(query, chunks)
        direct == Labelled(query, chunks, scores, "primary")
        best == Best(scores)
        primary == IF direct = {} /\ Promotes(scores[best]) THEN {best} ELSE direct
        support == Labelled(query, chunks, scores, "supplementary") \ primary
        place == [i \in DOMAIN chunks |-> <<-scores[i], i>>]
    IN  IF chunks = <<>> THEN [primary |-> <<>>, supplementary |-> <<>>]
        ELSE [primary |-> Cut(SortedBy(primary, place), MaxPrimary),
              supplementary |-> Cut(SortedBy(support, place), MaxSupplementary)]

-----------------------------------------------------------------------------
(* Properties of Select *)

\* No chunk is selected twice, and none whose score is below the floor; the prompt is
\* never fed by support alone.
SelectionSound(query, chunks, selected) ==
    LET all == selected.primary \o selected.supplementary
    IN  /\ IsInjective(all)
        /\ \A i \in Range(all) : Scores(query, chunks)[i] >= HardFloor
        /\ selected.supplementary # <<>> => selected.primary # <<>>

\* Of hits in the order of their scores, the first of which does not distract, one is
\* always selected: a turn abstains for want of evidence only by the penalty.
FirstHitSuffices(query, chunks, selected) ==
    chunks # <<>> /\ Penalty(query, chunks[1]) = 0 /\ chunks[1].score > 0
        => selected.primary # <<>>
=============================================================================

------------------------------- MODULE Words -------------------------------
(***************************************************************************)
(* Texts as the lexical heuristics of retrieval/ranking.py, retrieval/     *)
(* hybrid.py and generation/evidence_selection.py see them after           *)
(* normalization: sequences of lines, a line the sequence of its tokens    *)
(* with a flag for a question.  Ratios are percentages, rounded down.      *)
(***************************************************************************)
EXTENDS Integers, Sequences, FiniteSetsExt, Functions

CONSTANTS
    Stopwords,    \* they and only they have fewer than three letters
    Numbers,      \* of three digits
    Persian,
    Distractors   \* pairs of sets: the sense asked for, and the one that distracts from it

Line(words, question) == [words |-> words, question |-> question]

Tokens(text) == UNION {Range(text[i].words) : i \in DOMAIN text}
ContentTokens(text) == Tokens(text) \ Stopwords
NumbersOf(text) == Tokens(text) \cap Numbers

\* _extract_question_lines, by their positions.
QuestionLines(text) == {i \in DOMAIN text : text[i].question}

Jaccard(A, B) ==
    IF A = {} \/ B = {} THEN 0 ELSE (100 * Cardinality(A \cap B)) \div Cardinality(A \cup B)

Bigrams(text) ==
    UNION {{<<text[i].words[j], text[i].words[j + 1]>> : j \in 1..Len(text[i].words) - 1} :
              i \in DOMAIN text}

\* _candidate_phrases: a longer phrase is there only if its bigrams are.
PhraseOf(query, text) == Bigrams(query) \cap Bigrams(text) # {}

\* How much the question of the text that is most like the query is like it.
BestFaq(query, text) ==
    Max({0} \cup {Jaccard(ContentTokens(query), ContentTokens(<<text[i]>>)) : i \in QuestionLines(text)})

\* The query asks for one sense, and the text has only the other.
Distracts(query, text) ==
    \E pair \in Distractors :
        /\ ContentTokens(query) \cap pair[1] # {}
        /\ ContentTokens(text) \cap pair[2] # {}
        /\ ContentTokens(text) \cap pair[1] = {}

\* sorted(key = ...): tuples of numbers are compared at the first place where they differ.
Less(a, b) == \E k \in DOMAIN a : a[k] < b[k] /\ \A j \in 1..k - 1 : a[j] = b[j]

\* The members of S by their keys, of which no two are equal.
SortedBy(S, key) ==
    [k \in 1..Cardinality(S) |->
        CHOOSE x \in S : Cardinality({y \in S : Less(key[y], key[x])}) = k - 1]

Cut(s, n) == SubSeq(s, 1, Min({n, Len(s)}))
=============================================================================

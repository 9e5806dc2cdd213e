----------------------------- MODULE Retrieval -----------------------------
(***************************************************************************)
(* One hybrid search (retrieval/service.py) over the chunks of a knowledge *)
(* base: BM25 over question-led segments (bm25.py), boosts and reciprocal  *)
(* rank fusion with the vector hits (hybrid.py), and the calibration that  *)
(* has the last word (ranking.py).                                         *)
(*                                                                         *)
(* A chunk has a text, a heading (no line, or one), its document and index *)
(* there, the cosine of its vector with the query's in thousandths, and    *)
(* whether it is in the database (live) and in the lexical index (known),  *)
(* which may be older.  Its id is its position.  Scores are thousandths,   *)
(* rounded down.  Permissions are taken to have been granted.              *)
(***************************************************************************)
EXTENDS Words

CONSTANTS
    Browsers,
    Pool,       \* candidates of each channel (code: 30)
    Cap,        \* fused candidates that are ranked (code: 24)
    MaxTopK     \* code: 50

RrfK == 60
MaxBonus == 180
MaxPenalty == 100

\* The members of a set of ids by falling score, equal ones by rising id.
ByScore(ids, score) ==
    SortedBy(ids, [c \in ids |-> <<-score[c], c>>])

-----------------------------------------------------------------------------
(* BM25 *)

Lines(chunk) == chunk.heading \o chunk.text
WordsOf(query) == query[1].words

\* split_faq_segments: a question begins a segment; more than one, and the whole is another.
Segments(lines) ==
    LET starts == {1} \cup {i \in DOMAIN lines : lines[i].question}
        ends(s) == Min({Len(lines)} \cup {t - 1 : t \in {t \in starts : t > s}})
        parts == {<<s, ends(s)>> : s \in starts}
    IN  parts \cup {<<1, Len(lines)>>}

\* BM25Index: the segments of all chunks, each a document of its own.
Index(chunks) ==
    UNION {{[chunk |-> c, span |-> s] : s \in Segments(Lines(chunks[c]))} :
           c \in {c \in DOMAIN chunks : chunks[c].known}}

\* The places of a segment that hold a word, and those that hold the one asked for.
Places(chunks, item) ==
    LET lines == Lines(chunks[item.chunk])
    IN  UNION {{<<i, j>> : j \in DOMAIN lines[i].words} : i \in item.span[1]..item.span[2]}

Occurrences(chunks, item, word) ==
    {p \in Places(chunks, item) : Lines(chunks[item.chunk])[p[1]].words[p[2]] = word}

\* Natural logarithms, in thousandths.
Ln == <<0, 693, 1099, 1386, 1609, 1792, 1946, 2079, 2197, 2303, 2398, 2485, 2565, 2639, 2708,
        2773, 2833, 2890, 2944, 2996, 3045, 3091, 3135, 3178, 3219, 3258>>

\* log(1 + (size - df + 0.5) / (df + 0.5))
Idf(size, df) == Ln[2 * (size + 1)] - Ln[2 * df + 1]

\* _score_document with k1 = 1.5 and b = 0.75, the fraction expanded by 8 times the total.
Term(chunks, index, item, word) ==
    LET size == Cardinality(index)
        length(d) == Cardinality(Places(chunks, d))
        total == SumFunction([d \in index |-> length(d)])
        df == Cardinality({d \in index : Occurrences(chunks, d, word) # {}})
        tf == Cardinality(Occurrences(chunks, item, word))
    IN  IF tf = 0 THEN 0
        ELSE (Idf(size, df) * 20 * tf * total)
                \div (8 * tf * total + 3 * total + 9 * length(item) * size)

Okapi(chunks, index, item, queryWords) ==
    SumFunction([i \in DOMAIN queryWords |-> Term(chunks, index, item, queryWords[i])])

\* BM25Index.search: the best segment of each chunk counts.
LexicalScores(query, chunks) ==
    LET index == Index(chunks)
    IN  [c \in DOMAIN chunks |->
            Max({0} \cup {Okapi(chunks, index, d, WordsOf(query)) : d \in {d \in index : d.chunk = c}})]

Search(scores) == Cut(ByScore({c \in DOMAIN scores : scores[c] > 0}, scores), Pool)

-----------------------------------------------------------------------------
(* Boosts *)

Within(s, t) == \E i \in 0..Len(t) - Len(s) : SubSeq(t, i + 1, i + Len(s)) = s

NearExact(query, line) ==
    /\ WordsOf(query) # <<>> /\ line.words # <<>>
    /\ Within(WordsOf(query), line.words) \/ Within(line.words, WordsOf(query))

Covered(query, line) ==
    LET q == WordsOf(query)
    IN  4 * Cardinality({i \in DOMAIN q : q[i] \in Range(line.words)}) >= 3 * Len(q)

\* _query_phrases: the query itself, or two words of it.
PhraseIn(query, lines) ==
    \/ \E i \in DOMAIN lines : Within(WordsOf(query), lines[i].words)
    \/ PhraseOf(query, lines)

\* apply_persian_bm25_boosts: the factors of a hit, in percent.
Factors(query, chunk) ==
    LET asked == {chunk.text[i] : i \in QuestionLines(chunk.text)}
        long == {i \in DOMAIN WordsOf(query) : WordsOf(query)[i] \notin Stopwords}
    IN  <<IF \E line \in asked : NearExact(query, line) THEN 220
          ELSE IF \E line \in asked : Covered(query, line) THEN 155 ELSE 100,
          IF PhraseIn(query, chunk.text) THEN 125 ELSE 100,
          IF PhraseIn(query, chunk.heading) THEN 115 ELSE 100,
          IF NumbersOf(query) \cap NumbersOf(chunk.text) # {} THEN 130 ELSE 100,
          IF Tokens(query) \cap Browsers # {} /\ Tokens(chunk.text) \cap Browsers # {}
          THEN 125 ELSE 100,
          IF NumbersOf(query) # {} /\ NumbersOf(chunk.text) # {} THEN 120 ELSE 100,
          IF Cardinality(long) = 1 /\ \A i \in long : WordsOf(query)[i] \in Tokens(Lines(chunk))
          THEN 120 ELSE 100>>

Boosted(query, chunks, scores) ==
    LET By(score, factor) == (score * factor) \div 100
    IN  [c \in DOMAIN chunks |->
            LET f == Factors(query, chunks[c])
            IN  By(By(By(By(By(By(By(scores[c], f[1]), f[2]), f[3]), f[4]), f[5]), f[6]), f[7])]

-----------------------------------------------------------------------------
(* Fusion and ranking *)

Rank(list, id) == CHOOSE r \in DOMAIN list : list[r] = id

\* reciprocal_rank_fusion, in millionths.
Vote(list, id) == IF id \in Range(list) THEN 1000000 \div (RrfK + Rank(list, id)) ELSE 0
Rrf(dense, lexical, id) == Vote(dense, id) + Vote(lexical, id)

\* blend_cosine_with_rrf
Blend(cosine, rrf, best) ==
    Max({0, Min({1000, (72 * cosine + (28 * 1000 * rrf) \div best) \div 100})})

Bonus(query, chunk) ==
    LET share(words) == Jaccard(words, ContentTokens(query))
    IN  (120 * BestFaq(query, chunk.text)) \div 100
          + (60 * share(ContentTokens(chunk.heading))) \div 100
          + (IF PhraseOf(query, Lines(chunk)) THEN 100 ELSE 0)
          + (60 * share(ContentTokens(chunk.text))) \div 100

Penalty(query, chunk) ==
    (IF /\ ContentTokens(query) # {} /\ ContentTokens(chunk.text) \cap ContentTokens(query) = {}
        /\ Tokens(chunk.text) \cap Tokens(query) # {} THEN 50 ELSE 0)
      + (IF Distracts(query, chunk.text) THEN 60 ELSE 0)

\* _score_chunk
Adjusted(query, chunk, score) ==
    Max({0, Min({1000, score + Min({MaxBonus, Bonus(query, chunk)})
                             - Min({MaxPenalty, Penalty(query, chunk)})})})

\* rank_dense_hits
Ranked(query, chunks, blended) ==
    LET adjusted == [c \in DOMAIN blended |-> Adjusted(query, chunks[c], blended[c])]
        order == SortedBy(DOMAIN blended,
                          [c \in DOMAIN blended |->
                              <<-adjusted[c], -blended[c], chunks[c].document, chunks[c].index, c>>])
    IN  [i \in DOMAIN order |-> [chunk |-> order[i], score |-> adjusted[order[i]]]]

\* RetrievalService.retrieve, with the lists its stages hand on.
Retrieve(query, chunks, topK) ==
    LET k == Max({1, Min({topK, MaxTopK})})
        live == {c \in DOMAIN chunks : chunks[c].live}
        cosine == [c \in DOMAIN chunks |-> IF chunks[c].live THEN chunks[c].cosine ELSE 0]
        dense == Cut(ByScore(live, cosine), Pool)
        scores == LexicalScores(query, chunks)
        raw == Search(scores)
        lexical == ByScore(Range(raw), Boosted(query, chunks, scores))
        all == Range(dense) \cup Range(lexical)
        rrf == [c \in all |-> Rrf(dense, lexical, c)]
        fused == Cut(ByScore(all, rrf), Max({k, Cap}))
        best == Max({rrf[c] : c \in all})
        blended == [c \in Range(fused) |-> Blend(cosine[c], rrf[c], best)]
    IN  IF live = {}
        THEN [dense |-> <<>>, lexical |-> <<>>, fused |-> <<>>, blended |-> <<>>, results |-> <<>>]
        ELSE [dense |-> dense, lexical |-> lexical, fused |-> fused, blended |-> blended,
              results |-> Cut(Ranked(query, chunks, blended), k)]

-----------------------------------------------------------------------------
(* Properties of Retrieve *)

\* A chunk that shares a word with the query is a lexical hit, however common the word.
CommonWordsFound(query, chunks, r) ==
    r.dense # <<>> /\ Len(chunks) <= Pool
        => Range(r.lexical) =
              {c \in DOMAIN chunks : chunks[c].known /\ Tokens(Lines(chunks[c])) \cap Tokens(query) # {}}

\* A chunk that is not behind another in either channel is not behind it after fusion,
\* unless both channels have them alike and the ids decide.
FusionFair(r) ==
    LET behind(list, a, b) == /\ b \in Range(list)
                              /\ a \in Range(list) => Rank(list, b) < Rank(list, a)
    IN  \A i, j \in DOMAIN r.fused :
            i < j => \/ behind(r.dense, r.fused[j], r.fused[i])
                     \/ behind(r.lexical, r.fused[j], r.fused[i])

\* ranking.py:19: weak matches cannot leapfrog strong ones.
NoLeapfrog(r) ==
    \A i, j \in DOMAIN r.results :
        i < j => r.blended[r.results[j].chunk] - r.blended[r.results[i].chunk]
                    <= MaxBonus + MaxPenalty
=============================================================================

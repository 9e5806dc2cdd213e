----------------------------- MODULE Answering -----------------------------
(***************************************************************************)
(* What a turn makes of the chunks selected and of the model's reply:      *)
(* context_assembly.py, prompt_builder.py, citations.py and the part of    *)
(* generation/service.py that uses them.                                   *)
(*                                                                         *)
(* A chunk has the version and index of its place, a score and a text, a   *)
(* sequence of characters.  A reply of the model is, in this order, the    *)
(* question (or not), an ABSTAIN directive, prose or an ABSTAIN within     *)
(* prose, and markers; the question has more than 24 characters.           *)
(* Headings, which break ties, are left out.                               *)
(***************************************************************************)
EXTENDS Integers, Sequences, FiniteSets, SequencesExt

CONSTANTS
    Similar,        \* pairs of different texts that _is_near_duplicate takes for one
    MaxPrompt,      \* max_prompt_chars
    Excerpt,        \* what a block may show of its text (code: 1600 characters)
    MaxHistory,     \* turns of history that are kept (code: 5 to 10)
    Frame, Header   \* characters of the fixed text of a prompt, and of an evidence entry

\* _is_near_duplicate
NearDuplicate(a, b) == a.text = b.text \/ {a.text, b.text} \in Similar

-----------------------------------------------------------------------------
(* Context *)

\* _dedupe_chunks: of near-duplicates the first stays.
Dedupe(chunks) ==
    FoldLeft(LAMBDA kept, c :
                IF \E e \in ToSet(kept) : NearDuplicate(c, e) THEN kept ELSE Append(kept, c),
             <<>>, chunks)

\* Mutant: chunks are merged whatever their document.
CanMerge_AnyVersion(left, right) == right.index = left.index + 1

\* _can_merge
CanMerge(left, right) == left.version = right.version /\ right.index = left.index + 1

InPlace(chunks) ==
    SetToSortSeq(chunks, LAMBDA a, b : \/ a.version < b.version
                                       \/ a.version = b.version /\ a.index < b.index)

\* _merge_neighbor_blocks: the chains of chunks that follow each other.
Chains(chunks) ==
    FoldLeft(LAMBDA chains, c :
                IF chains # <<>> /\ CanMerge(Last(Last(chains)), c)
                THEN Append(Front(chains), Append(Last(chains), c))
                ELSE Append(chains, <<c>>),
             <<>>, InPlace(ToSet(chunks)))

\* _join_adjacent: the longest beginning of the right text that ends the left one is there once.
Join(left, right) ==
    LET overlaps == {n \in 1..Min({Len(left), Len(right)}) : IsSuffix(SubSeq(right, 1, n), left)}
    IN  left \o (IF overlaps = {} THEN right ELSE SubSeq(right, Max(overlaps) + 1, Len(right)))

Better(a, b) == a.score > b.score \/ (a.score = b.score /\ a.index < b.index)

\* _to_block
Block(chain) ==
    [chunks |-> chain,
     primary |-> CHOOSE c \in ToSet(chain) : \A d \in ToSet(chain) \ {c} : Better(c, d),
     text |-> FoldLeft(LAMBDA text, c : Join(text, c.text), <<>>, chain)]

\* assemble_context: the blocks by falling score of their best chunk.
Assemble(chunks) ==
    LET chains == Chains(Dedupe(chunks))
        blocks == {Block(chain) : chain \in ToSet(chains)}
    IN  SetToSortSeq(blocks, LAMBDA a, b :
            \/ a.primary.score > b.primary.score
            \/ /\ a.primary.score = b.primary.score
               /\ \/ a.primary.version < b.primary.version
                  \/ a.primary.version = b.primary.version /\ a.chunks[1].index < b.chunks[1].index)

-----------------------------------------------------------------------------
(* Prompt *)

\* clamp_history
Clamp(history) ==
    LET said == SelectSeq(history, LAMBDA turn : turn > 0)
    IN  SubSeq(said, Max({1, Len(said) - MaxHistory + 1}), Len(said))

Sum(s) == FoldLeft(LAMBDA a, b : a + b, 0, s)

\* The entries of a block: its best chunk with the text, the others referring to it.
Entries(block) ==
    <<[chunk |-> block.primary, size |-> Header + Min({Excerpt, Len(block.text)})]>>
      \o [i \in 1..Len(block.chunks) - 1 |->
            [chunk |-> SelectSeq(block.chunks, LAMBDA c : c # block.primary)[i], size |-> Header]]

\* _compose_user_prompt: the marker of an entry is its position.
ComposePrompt(blocks, history) ==
    LET entries == FlattenSeq([i \in DOMAIN blocks |-> Entries(blocks[i])])
    IN  [used |-> [i \in DOMAIN entries |-> entries[i].chunk],
         size |-> Frame + Sum(history) + Sum([i \in DOMAIN entries |-> entries[i].size]),
         blocks |-> blocks, history |-> history]

Shorter(blocks) == Front(blocks)

\* PromptBuilder.build: the oldest history goes first, then the last blocks.
Build(chunks, history) ==
    LET all == Assemble(chunks)
        said == Clamp(history)
        Fit(prompt) == prompt.size <= MaxPrompt
        withHistory == {h \in 0..Len(said) :
                            Fit(ComposePrompt(all, SubSeq(said, h + 1, Len(said))))}
        dropped[n \in 0..Len(all)] ==
            IF n = 0 THEN all ELSE Shorter(dropped[n - 1])
        withBlocks == {n \in 0..Len(all) - 1 : Fit(ComposePrompt(dropped[n], <<>>))}
    IN  IF withHistory # {} THEN {ComposePrompt(all, SubSeq(said, Min(withHistory) + 1, Len(said)))}
        ELSE {ComposePrompt(dropped[n], <<>>) :
                 n \in {n \in withBlocks : \A m \in withBlocks : n <= m}}

-----------------------------------------------------------------------------
(* Answer *)

\* is_model_abstention: the directive leads the reply, or the word dominates it.
Abstains(reply) ==
    /\ ~ reply.echo
    /\ \/ reply.abstain = "leads"
       \/ reply.abstain = "within" /\ reply.prose = "short"

\* strip_question_echo: unless nothing is left.
Stripped(reply) ==
    [reply EXCEPT !.echo = @ /\ reply.abstain = "no" /\ reply.prose = "none" /\ reply.markers = <<>>]

\* is_substantive_answer: eight characters besides the markers.
Substantive(reply) == reply.echo \/ reply.abstain # "no" \/ reply.prose = "long"

\* validate_citations
Valid(markers, used) ==
    LET known == SelectSeq(markers, LAMBDA m : m \in DOMAIN used)
    IN  [i \in DOMAIN known |-> used[known[i]]]

\* salvage_top_chunk_citation: marker 1 is always there.
Salvage(used) == IF used = <<>> THEN <<>> ELSE <<used[1]>>

NoAnswer(status, reason) == [status |-> status, reason |-> reason, citations |-> <<>>, text |-> <<>>]

\* generate, after the reply
Answer(reply, used) ==
    LET cleaned == Stripped(reply)
        valid == Valid(cleaned.markers, used)
        citations == IF valid = <<>> THEN Salvage(used) ELSE valid
    IN  IF Abstains(reply) THEN NoAnswer("abstained", "model")
        ELSE IF ~ Substantive(cleaned) THEN NoAnswer("abstained", "empty_or_echo_answer")
        ELSE IF citations = <<>> THEN NoAnswer("abstained", "citation_validation_failed")
        ELSE [status |-> "completed", reason |-> "none", citations |-> citations,
              text |-> <<[cleaned EXCEPT !.markers = IF @ = <<>> THEN <<1>> ELSE @]>>]

Turn(chunks, history, reply) ==
    LET built == Build(chunks, history)
    IN  [prompts |-> built,
         answer |-> IF built = {} THEN NoAnswer("failed", "prompt_too_large")
                    ELSE Answer(reply, (CHOOSE p \in built : TRUE).used)]

-----------------------------------------------------------------------------
(* Properties of Turn *)

\* Each chunk of the prompt has one marker; its block holds neighbours of one version, with
\* the text of each; and what has been left out is a near-duplicate, or scores no higher than
\* any block that stays after all history has gone.
PromptSound(chunks, turn) ==
    \A p \in turn.prompts :
        LET shown == ToSet(p.used)
        IN  /\ Len(p.used) = Cardinality(shown) /\ shown \subseteq ToSet(chunks)
            /\ \A b \in ToSet(p.blocks) :
                  /\ \A i \in 1..Len(b.chunks) - 1 :
                        /\ b.chunks[i].version = b.chunks[i + 1].version
                        /\ b.chunks[i].index + 1 = b.chunks[i + 1].index
                  /\ \A c \in ToSet(b.chunks) :
                        \E i \in 0..Len(b.text) - Len(c.text) :
                            SubSeq(b.text, i + 1, i + Len(c.text)) = c.text
            /\ \A c \in ToSet(chunks) \ shown :
                  \/ \E e \in ToSet(chunks) \ {c} : NearDuplicate(c, e)
                  \/ p.history = <<>> /\ \A b \in ToSet(p.blocks) : c.score <= b.primary.score

\* specs/006-rag-generation, RG-03 and RG-04: a completed answer cites chunks of its prompt,
\* among them all that its markers name; any other answer cites nothing.
AnswerGrounded(turn) ==
    LET a == turn.answer
    IN  /\ a.status = "completed" <=> a.citations # <<>>
        /\ \A p \in turn.prompts :
              /\ ToSet(a.citations) \subseteq ToSet(p.used)
              /\ \A text \in ToSet(a.text) : \A m \in ToSet(text.markers) \cap DOMAIN p.used :
                    p.used[m] \in ToSet(a.citations)

\* generation/service.py:255 and citations.py:35: neither the question nor the model's
\* directive to abstain is returned as an answer.
AnswerIsOne(turn) ==
    \A text \in ToSet(turn.answer.text) : ~ text.echo /\ text.abstain # "leads"

\* What a marker refers to can be read in the prompt.
ShownInFull(turn) == \A p \in turn.prompts : \A b \in ToSet(p.blocks) : Len(b.text) <= Excerpt

\* A completed answer has no marker without a citation.
MarkersKnown(turn) ==
    \A text \in ToSet(turn.answer.text) : \A p \in turn.prompts :
        ToSet(text.markers) \subseteq DOMAIN p.used
=============================================================================

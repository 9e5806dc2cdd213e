---------------------------- MODULE Normalization ----------------------------
(***************************************************************************)
(* normalize_persian_text (processing/normalization.py): the surface of    *)
(* documents and questions made uniform, step after step.                  *)
(*                                                                         *)
(* A text is a sequence of characters, one of each class the steps tell    *)
(* apart.  Composition is that of an alef with a madda above.              *)
(***************************************************************************)
EXTENDS Integers, Sequences, FiniteSets, SequencesExt

\* Each letter that is another letter's form, with that letter.
Translated == [arabicYeh |-> "yeh", persianDigit |-> "digit", fullwidth |-> "mark", nbsp |-> "space"]
Letters == {"alef", "alefMadda", "yeh", "arabicYeh"}

\* The characters of text at the positions where P holds.
Where(text, P(_)) ==
    LET kept == SelectSeq([i \in DOMAIN text |-> i], P) IN [k \in DOMAIN kept |-> text[kept[k]]]

Drop(text, chars) == SelectSeq(text, LAMBDA c : c \notin chars)

Translate(text, chars) ==
    [i \in DOMAIN text |-> IF text[i] \in chars THEN Translated[text[i]] ELSE text[i]]

\* Every run of c is cut to at most n.
CutRuns(text, c, n) ==
    Where(text, LAMBDA i : i <= n \/ \E j \in i - n..i : text[j] # c)

\* unicodedata.normalize("NFC"), which sees past the vowel marks below.
Compose(text) ==
    LET Pair(i, j) == /\ i < j /\ text[i] = "alef" /\ text[j] = "madda"
                      /\ \A k \in i + 1..j - 1 : text[k] = "diacritic"
        composed == [i \in DOMAIN text |->
                        IF \E j \in DOMAIN text : Pair(i, j) THEN "alefMadda"
                        ELSE IF \E j \in DOMAIN text : Pair(j, i) THEN "gone" ELSE text[i]]
    IN  Drop(composed, {"gone"})

RemoveInvisible(text) == Drop(text, {"format"})

NormalizePunctuation(text) ==
    FoldLeft(LAMBDA t, c : t \o IF c = "ellipsis" THEN <<"dot", "dot", "dot">> ELSE <<c>>,
             <<>>, Translate(text, {"fullwidth"}))

CollapseRepeated(text) == CutRuns(CutRuns(text, "mark", 1), "dot", 3)

\* A half-space stays between two letters only.
NormalizeZwnj(text) ==
    LET c == CutRuns(text, "zwnj", 1)
    IN  Where(c, LAMBDA i : c[i] = "zwnj" =>
                    i > 1 /\ i < Len(c) /\ {c[i - 1], c[i + 1]} \subseteq Letters)

LineEndings(text) ==
    LET n == Where(text, LAMBDA i :
                ~(text[i] = "return" /\ i < Len(text) /\ text[i + 1] = "newline"))
    IN  [i \in DOMAIN n |-> IF n[i] = "return" THEN "newline" ELSE n[i]]

StripControls(text) == Drop(text, {"control", "return"})

\* Runs of spaces and tabs become a space, and go at the ends of lines and of half-spaces.
CleanupWhitespace(text) ==
    LET s == CutRuns([i \in DOMAIN text |-> IF text[i] = "tab" THEN "space" ELSE text[i]], "space", 1)
        Edge(i) == i \notin DOMAIN s \/ s[i] \in {"newline", "zwnj"}
    IN  Where(s, LAMBDA i : s[i] = "space" => ~Edge(i - 1) /\ ~Edge(i + 1))

Letterwise(text) == Translate(Drop(RemoveInvisible(Compose(text)), {"tatweel", "diacritic"}),
                              {"arabicYeh", "persianDigit"})
Marked(text) == CollapseRepeated(NormalizePunctuation(text))
Spaced(text) ==
    CleanupWhitespace(StripControls(Translate(LineEndings(text), {"nbsp"})))

\* Mutant: the half-spaces are looked at before what stands between letters is removed.
Normalize_ZwnjFirst(text) == Spaced(Marked(Letterwise(NormalizeZwnj(text))))

Normalize(text) == Spaced(NormalizeZwnj(Marked(Letterwise(text))))

-----------------------------------------------------------------------------
(* Properties *)

\* Whatever comes in, what goes out has one form of each letter and digit, no invisible
\* character, and no space or half-space but between what it separates.
Uniform(text) ==
    LET n == Normalize(text)
        At(i) == IF i \in DOMAIN n THEN n[i] ELSE "newline"
    IN  /\ ToSet(n) \cap {"arabicYeh", "persianDigit", "fullwidth", "nbsp", "format", "tatweel",
                          "diacritic", "control", "return", "tab", "ellipsis"} = {}
        /\ \A i \in DOMAIN n :
            /\ n[i] = "zwnj" => {At(i - 1), At(i + 1)} \subseteq Letters
            /\ n[i] = "space" => {At(i - 1), At(i + 1)} \cap {"space", "newline", "zwnj"} = {}

\* No letter is lost, gained or moved, and lines stay apart.
LettersKept(text) ==
    LET Plain(t) == SelectSeq(Translate(Compose(Drop(t, {"format", "tatweel", "diacritic", "control",
                                                        "return", "zwnj"})), {"arabicYeh"}),
                              LAMBDA c : c \in Letters \cup {"newline"})
    IN  "return" \notin ToSet(text) => Plain(Normalize(text)) = Plain(text)

\* A half-space between two letters is kept if all that is beside it is among beside.
HalfSpacesStay(text, beside) ==
    \A i, j \in DOMAIN text :
        LET between == {text[k] : k \in i + 1..j - 1}
        IN  i < j /\ {text[i], text[j]} \subseteq Letters /\ "zwnj" \in between
              /\ between \subseteq {"zwnj"} \cup beside => "zwnj" \in ToSet(Normalize(text))

\* A half-space between two letters is kept although a tatweel, a vowel mark or an
\* invisible format character is beside it: these go first.
HalfSpacesKept(text) == HalfSpacesStay(text, {"tatweel", "diacritic", "format"})

\* Normalizing what was normalized twice changes nothing.
Settles(text) ==
    LET twice == Normalize(Normalize(text)) IN Normalize(twice) = twice

\* Step 9 is to "never drop letter-ZWNJ-letter half-spaces" (normalization.py:69): this
\* says so of one beside a control character too, which goes after the half-spaces
\* have been judged.
HalfSpacesAmongControls(text) == HalfSpacesStay(text, {"control"})

\* "The pipeline is idempotent: normalize_persian_text(normalize_persian_text(x)) ==
\* normalize_persian_text(x) for all inputs."
Idempotent(text) == Normalize(Normalize(text)) = Normalize(text)
=============================================================================

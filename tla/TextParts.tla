----------------------------- MODULE TextParts -----------------------------
(***************************************************************************)
(* The algorithms that read and write texts, as one: pages and their       *)
(* lines, normalization, chunks, and the prompt and answer of a turn.      *)
(***************************************************************************)
EXTENDS Pdf, Normalization, Splitter, Answering
=============================================================================

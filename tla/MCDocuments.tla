----------------------------- MODULE MCDocuments -----------------------------
(* Pages that have no text, fill one window exactly, or fill two, which      *)
(* share a token.                                                          *)
EXTENDS Documents, TLC

Pdf(pages) == [kind |-> "pdf", pages |-> pages]
MCFiles == {Pdf(<<0>>), Pdf(<<4>>), Pdf(<<0, 7>>)}
             \cup [kind : {"damaged", "other", "large"}, pages : {<<>>}]
Symmetry == Permutations(Uploads)
=============================================================================

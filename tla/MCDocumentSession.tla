-------------------------- MODULE MCDocumentSession --------------------------
(* Small instances of DocumentSession. *)
EXTENDS DocumentSession, TLC

CONSTANTS d1, d2, s1, s2, blank, sample, guide

MCIds == {d1, d2}
MCSlots == {s1, s2}
MCTexts == {blank, sample}
MCMaxActs == [calm |-> 6, hasty |-> 4]

\* Documents and slots are interchangeable.
Symmetry == Permutations(MCIds) \cup Permutations(MCSlots)
=============================================================================

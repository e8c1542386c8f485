------------------------ MODULE ContentPublicationMC ------------------------
(* Small instances of ContentPublication for TLC. *)
EXTENDS ContentPublication, TLC

\* Callers, approvals and publications are interchangeable.
Symmetric == Permutations(Callers) \cup Permutations(Approvals) \cup Permutations(Pubs)
=============================================================================

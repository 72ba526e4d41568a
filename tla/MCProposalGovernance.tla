------------------------ MODULE MCProposalGovernance ------------------------
(* Two callers, one v1 and one v2 candidate content, two review contexts.     *)
EXTENDS ProposalGovernance, TLC

CONSTANTS p1, p2

\* The callers are interchangeable.
Symmetry == Permutations({p1, p2})
=============================================================================

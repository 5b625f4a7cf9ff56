---------------------------- MODULE MCDomainInfo ----------------------------
(* Instances of DomainInfo for TLC. *)
EXTENDS DomainInfo, TLC

CONSTANTS d1, d2

Symmetry == Permutations({d1, d2})
=============================================================================

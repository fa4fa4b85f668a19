--------------------------- MODULE MCDomainService ---------------------------
(***************************************************************************)
(* DomainService on a small instance: model values for ids, so that TLC    *)
(* may treat requests and handlers that differ only by name as one.        *)
(***************************************************************************)
EXTENDS DomainService, TLC

Symmetry == Permutations(Requests) \cup Permutations(Handlers)
=============================================================================

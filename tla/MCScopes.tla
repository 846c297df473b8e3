------------------------------ MODULE MCScopes ------------------------------
(* Programs with two identifiers, which are interchangeable.               *)
EXTENDS Scopes, TLC

Identifiers == Permutations(Names)
=============================================================================

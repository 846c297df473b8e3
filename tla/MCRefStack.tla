------------------------------ MODULE MCRefStack ------------------------------
(* Two stacks of declarators, one typedef and a few nodes, whose addresses *)
(* are interchangeable.                                                    *)
EXTENDS RefStack, TLC

Addresses == Permutations(Nodes)
=============================================================================

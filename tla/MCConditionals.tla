---------------------------- MODULE MCConditionals ----------------------------
(* Conditional inclusion over two macro names and a shallow include stack. *)
EXTENDS Conditionals

CONSTANTS A, B

MCNames == {A, B}

NoMalformed == {}

AnyMalformed == MalformedKinds
=============================================================================

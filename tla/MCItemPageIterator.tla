-------------------------- MODULE MCItemPageIterator --------------------------
(* Values for checking ItemPageIterator with TLC. *)
EXTENDS ItemPageIterator

CONSTANTS c1, c2
=============================================================================

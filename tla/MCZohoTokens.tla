----------------------------- MODULE MCZohoTokens -----------------------------
(* Values for checking ZohoTokens with TLC. *)
EXTENDS ZohoTokens, TLC

CONSTANTS accounts, recruit, c1, c2, c3

MCServiceOf == [c \in Caller |-> IF c = c3 THEN accounts ELSE recruit]

\* The callers of the same service can be exchanged.
MCSymmetry == Permutations({c1, c2})
=============================================================================

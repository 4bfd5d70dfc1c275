-------------------------- MODULE MCRateLimitedFetch --------------------------
(* Values for checking RateLimitedFetch with TLC. *)
EXTENDS RateLimitedFetch

CONSTANTS r1, r2

MCCooldownRate == [l \in {1, 2} |-> l]
=============================================================================

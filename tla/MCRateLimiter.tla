---------------------------- MODULE MCRateLimiter ----------------------------
(* RateLimiter instantiated for TLC.                                        *)
EXTENDS RateLimiter, TLC

\* Instances are interchangeable.
Symmetry == Permutations(Instances)
=============================================================================

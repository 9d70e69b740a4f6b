---------------------------- MODULE MCRateLimiter ----------------------------
(* RateLimiter on small instances.                                         *)
EXTENDS RateLimiter, TLC

\* The limiter does not tell its callers apart.
CallerSymmetry == Permutations(Caller)
=============================================================================

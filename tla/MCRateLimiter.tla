--------------------------- MODULE MCRateLimiter ---------------------------
(* TLC instances of RateLimiter. *)
EXTENDS RateLimiter, TLC

Limit(n, w) == [requests |-> n, window |-> w]

OnePerSecond == {Limit(1, 1)}
NoneOrTwo    == {Limit(0, 1), Limit(2, 1)}

\* Like 5 requests in 60 seconds (config/gateway.json, /api/auth/login):
\* fewer requests than seconds, a refill rate of 0.
OneInTwoSeconds == {Limit(1, 2)}

Symmetry == Permutations(Threads) \cup Permutations(Buckets)
=============================================================================

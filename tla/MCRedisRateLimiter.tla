------------------------- MODULE MCRedisRateLimiter -------------------------
(* TLC instances of RedisRateLimiter. *)
EXTENDS RedisRateLimiter, TLC

CONSTANTS w1, w2, c1, login, elsewhere

\* One request in four ticks: with another worker, three of the four stamps may pass.
OneLevel == [l \in {"ip"} |-> [max |-> 1, window |-> 4]]

\* A client is reset by the limiter's own key, or, as on the dashboard, by its bare address.
BareAddress(c) == <<"bare", c>>
BothNames == {IPKey(c) : c \in Clients} \cup {BareAddress(c) : c \in Clients}

Symmetric == Permutations(Workers)
=============================================================================

-------------------------- MODULE MCSettingsPages ---------------------------
(***************************************************************************)
(* Instances of SettingsPages: two browsers at some pairs of pages, and    *)
(* the document of the mock gateway with one of each kind of field.        *)
(***************************************************************************)
EXTENDS SettingsPages

CONSTANTS b1, b2

Visit(p, q) == [b \in {b1, b2} |-> IF b = b1 THEN p ELSE q]

MCVisits ==
  {Visit("ratelimit", "cache"), Visit("editor", "security"),
   Visit("security", "security")}

SecurityVisits == {Visit("security", "security")}

MCFirstConfig ==
  [rate_limits |-> [global |-> [requests |-> 1000, window |-> 60],
                    per_ip |-> [requests |-> 100, window |-> 60],
                    endpoints |-> Empty],
   cache |-> [enabled |-> TRUE, cacheable_status_codes |-> {200, 404},
              respect_cache_control |-> TRUE],
   jwt |-> [JWTDefaults EXCEPT !.secret = "s"],
   security |-> [cors |-> "c", ip_whitelist |-> {}, api_keys |-> Put(Empty, "k", "key")],
   server |-> Empty]

\* One text that says something else about the rate limits and nothing of
\* the rest.
MCDrafts == {[rate_limits |-> [per_ip_connections |-> 3], server |-> Empty]}
=============================================================================

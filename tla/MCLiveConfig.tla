----------------------------- MODULE MCLiveConfig -----------------------------
(* TLC instances of LiveConfig. *)
EXTENDS LiveConfig, TLC

CONSTANTS v0, v1, v2, a1, a2

Doc(given) == given @@ Nothing

Start == Doc("global" :> v0 @@ "/login" :> v0 @@ "ip_blacklist" :> v0 @@ "cors" :> Odd)

OneEndpoint == <<"/login">>

\* Overlapping, odd, bad in the middle, and beside the others.
SomeDocuments ==
  { Doc("global" :> v1 @@ "/login" :> v1 @@ "ip_blacklist" :> v1),
    Doc("global" :> v2 @@ "ip_whitelist" :> Odd @@ "ip_blacklist" :> v2),
    Doc("/login" :> v2 @@ "ip_whitelist" :> Bad @@ "ip_blacklist" :> v2),
    Doc("per_ip" :> v1 @@ "ip_blacklist" :> v1) }

Symmetric == Permutations(Admins)
=============================================================================

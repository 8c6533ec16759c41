-------------------------- MODULE MCRequestPipeline --------------------------
(* TLC instances of RequestPipeline. *)
EXTENDS RequestPipeline, TLC

CONSTANTS a, b, w1, w2, adm1

R(paths, require_auth) ==
  [paths |-> paths, require_auth |-> require_auth, handler |-> FALSE, bad |-> FALSE]
Broken(r) == [r EXCEPT !.bad = TRUE]
Handled(r) == [r EXCEPT !.handler = TRUE]

OneRoute == <<R({a, b}, FALSE)>>

\* a becomes private; b, behind a malformed private entry, would be public.
SomeTables == { <<R({a}, TRUE), Handled(R({b}, FALSE))>>,
                <<R({}, FALSE), Broken(R({a}, TRUE)), R({a, b}, FALSE)>> }

SomeAnswers == [ok: {TRUE}, forbids: Places]
                 \cup {[ok |-> FALSE, forbids |-> "nowhere"]}

SomePatterns == {{a}}

Ask(path, get, fresh, key, token, flaws) ==
  [path |-> path, get |-> get, fresh |-> fresh, key |-> key, token |-> token, flaws |-> flaws]

SomeRequests ==
  { Ask(a, TRUE, FALSE, FALSE, FALSE, {}), Ask(a, TRUE, TRUE, FALSE, TRUE, {}),
    Ask(b, TRUE, FALSE, TRUE, FALSE, {}), Ask(b, FALSE, FALSE, FALSE, FALSE, {}),
    Ask(a, TRUE, FALSE, TRUE, TRUE, {"address"}), Ask(b, FALSE, FALSE, TRUE, TRUE, {"body"}) }

Symmetric == Permutations(Workers)
=============================================================================

--------------------------- MODULE RateLimitForm ----------------------------
(***************************************************************************)
(* The form of the rate limit panel (src/ui/src/components/ratelimit/      *)
(* RateLimitConfigPanel.tsx): formData as an object with the fields of a   *)
(* RateLimitConfig. After Reset it has the fields the server has, which    *)
(* may be fewer, so no field is certain. Each card of the panel is the set *)
(* of forms that one change in it can make of a form.                      *)
(*                                                                         *)
(* What is typed into the boxes of "Add Endpoint Rule" matters only when   *)
(* Add is clicked and is taken at that moment.                             *)
(***************************************************************************)
EXTENDS DashboardQuery

CONSTANTS
  RulePaths,  \* paths typed for an endpoint rule, trimmed; "" for a blank one
  Amounts     \* numbers typed; 0 for text without a number

RateLimitDefaults ==
  [global |-> [requests |-> 1000, window |-> 60],
   per_ip |-> [requests |-> 100, window |-> 60],
   per_ip_connections |-> 10,
   endpoints |-> Empty]

\* The effect that follows new data.
RateLimitFormOf(limits) ==
  [k \in DOMAIN RateLimitDefaults |-> Get(limits, k, RateLimitDefaults[k])]

UpdateGlobal(f, field, n) ==
  Put(f, "global", Put(Get(f, "global", Empty), field,
                       Number(n, RateLimitDefaults.global[field])))

UpdatePerIP(f, field, n) ==
  Put(f, "per_ip", Put(Get(f, "per_ip", Empty), field,
                       Number(n, RateLimitDefaults.per_ip[field])))

AddEndpointRule(f, path, requests, window) ==
  Put(f, "endpoints",
      Put(Get(f, "endpoints", Empty), path,
          [requests |-> Number(requests, 50), window |-> Number(window, 60)]))

RemoveEndpointRule(f, path) ==
  Put(f, "endpoints", Without(Get(f, "endpoints", Empty), path))

GlobalCard(f) ==
  {UpdateGlobal(f, field, n) : field \in {"requests", "window"}, n \in Amounts}

PerIPInputs(f) ==
  {UpdatePerIP(f, field, n) : field \in {"requests", "window"}, n \in Amounts}

ConnectionsInput(f) == {Put(f, "per_ip_connections", Number(n, 10)) : n \in Amounts}

\* The list of rules, each with a button to remove it.
EndpointRules(f) ==
  {RemoveEndpointRule(f, path) : path \in DOMAIN Get(f, "endpoints", Empty)}

\* The button Add is disabled for a blank path.
NewEndpointRule(f) ==
  {AddEndpointRule(f, path, r, w) : path \in RulePaths \ {""}, r, w \in Amounts}

RateLimitEdits(f) ==
  GlobalCard(f) \cup PerIPInputs(f) \cup ConnectionsInput(f)
    \cup EndpointRules(f) \cup NewEndpointRule(f)
=============================================================================

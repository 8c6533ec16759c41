----------------------------- MODULE CacheForm ------------------------------
(***************************************************************************)
(* The form of the cache panel (src/ui/src/components/cache/               *)
(* CacheConfigPanel.tsx): formData as an object with the fields of a       *)
(* CacheConfig; as in RateLimitForm no field is certain after Reset. Lists *)
(* without duplicates whose order means nothing are sets. Each card is the *)
(* set of forms that one click or input in it can make of a form; the      *)
(* boxes that only hold what is about to be added are left out.            *)
(***************************************************************************)
EXTENDS DashboardQuery

CONSTANTS
  Methods,       \* HTTP_METHODS
  Codes,         \* numbers typed as a status code; 0 for text without one
  CommonCodes,   \* COMMON_STATUS_CODES
  ExcludePaths,  \* paths typed, trimmed; "" for a blank one
  Sizes          \* numbers typed for the TTL and the size; 0 for none

CacheDefaults ==
  [enabled |-> FALSE, backend |-> "redis", default_ttl |-> 300,
   max_entry_size |-> 1048576, cacheable_methods |-> {"GET"},
   cacheable_status_codes |-> {200}, exclude_paths |-> {},
   cache_control_respect |-> TRUE]

\* The effect that follows new data.
CacheFormOf(cache) ==
  [k \in DOMAIN CacheDefaults |-> Get(cache, k, CacheDefaults[k])]

\* updateField with the opposite of what the form has: !undefined is true.
Switch(f, field) == Put(f, field, ~Get(f, field, FALSE))

ToggleMethod(f, m) ==
  LET current == Get(f, "cacheable_methods", {})
  IN  Put(f, "cacheable_methods",
          IF m \in current THEN current \ {m} ELSE current \cup {m})

ListedCodes(f) == Get(f, "cacheable_status_codes", {})

AddStatusCode(f, code) ==
  Put(f, "cacheable_status_codes", ListedCodes(f) \cup {code})

RemoveStatusCode(f, code) ==
  Put(f, "cacheable_status_codes", ListedCodes(f) \ {code})

ListedPaths(f) == Get(f, "exclude_paths", {})

AddExcludePath(f, path) == Put(f, "exclude_paths", ListedPaths(f) \cup {path})

RemoveExcludePath(f, path) == Put(f, "exclude_paths", ListedPaths(f) \ {path})

GeneralSettings(f) ==
  {Switch(f, "enabled"), Switch(f, "cache_control_respect")}
    \cup {Put(f, "backend", backend) : backend \in {"redis", "memory"}}

TTLAndSizeLimits(f) ==
  {Put(f, "default_ttl", Number(n, 300)) : n \in Sizes}
    \cup {Put(f, "max_entry_size", Number(n, 1048576)) : n \in Sizes}

CacheableMethods(f) == {ToggleMethod(f, m) : m \in Methods}

\* Typed codes must be status codes not listed yet; the buttons with common
\* codes are shown for those not listed.
CacheableStatusCodes(f) ==
  {RemoveStatusCode(f, code) : code \in ListedCodes(f)}
    \cup {AddStatusCode(f, code) :
            code \in ({n \in Codes : 100 <= n /\ n <= 599} \cup CommonCodes)
                       \ ListedCodes(f)}

ExcludedPaths(f) ==
  {RemoveExcludePath(f, path) : path \in ListedPaths(f)}
    \cup {AddExcludePath(f, path) : path \in ExcludePaths \ (ListedPaths(f) \cup {""})}

CacheEdits(f) ==
  GeneralSettings(f) \cup TTLAndSizeLimits(f) \cup CacheableMethods(f)
    \cup CacheableStatusCodes(f) \cup ExcludedPaths(f)
=============================================================================

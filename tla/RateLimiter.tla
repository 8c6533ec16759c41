---------------------------- MODULE RateLimiter ----------------------------
(***************************************************************************)
(* RateLimiter: token buckets at three levels, global, per client and per  *)
(* client and endpoint. allowRequest walks the levels; at each one it      *)
(* finds the bucket (under buckets_mutex_), refills it and takes a token   *)
(* (each under the bucket's own mutex), so other requests, the clock, the  *)
(* cleanup thread and the admin API act between any two of these. A bucket *)
(* is a shared object: a thread keeps the one it found even when the map   *)
(* has dropped it.                                                         *)
(*                                                                         *)
(* Time and tokens are counted in fractions: Scale clock ticks make a      *)
(* second and Scale units make a token (1000 in the code, which adds       *)
(* refill_rate * elapsed_ms / 1000.0 tokens: that many units here, exact). *)
(*                                                                         *)
(* getBucket returns a shared pointer, global_bucket_ is used by reference: *)
(* setGlobalLimit frees the bucket a thread is working on, and the memory  *)
(* may become another bucket (a data race in the code; here a thread goes  *)
(* on with whatever bucket is in that memory).                             *)
(*                                                                         *)
(* A definition that nothing uses, just before the one it varies, is a     *)
(* faulty variant: README.md says which property rejects it.               *)
(***************************************************************************)
EXTENDS Integers

CONSTANTS
  Threads,         \* threads in allowRequest
  Clients,         \* client addresses
  Endpoints,       \* request paths
  Buckets,         \* TokenBucket objects in memory
  NoBucket,        \* an absent map entry, a null pointer
  NoLimit,         \* an endpoint without a limit of its own
  Scale,           \* clock ticks per second, units per token
  GlobalLimits,    \* RateLimitConfig values, [requests, window], that
  PerIPLimits,     \* the three set operations are called with
  EndpointLimits,
  IdleSeconds,     \* age at which the cleanup drops a bucket (600)
  MaxNow           \* bound on the clock

ASSUME RateLimiterAssumption ==
  /\ Scale \in Nat \ {0}
  /\ GlobalLimits \subseteq [requests : Nat, window : Nat]
  /\ PerIPLimits \subseteq [requests : Nat, window : Nat]
  /\ EndpointLimits \subseteq [requests : Nat, window : Nat]
  /\ NoLimit \notin EndpointLimits
  /\ NoBucket \notin Buckets
  /\ IdleSeconds \in Nat

VARIABLES
  now,              \* the steady clock, in ticks
  bucket,           \* bucket[b]: the object b
  bucket_of,        \* the maps and global_bucket_: from a key to an object
  per_ip_config,
  global_config,
  endpoint_configs, \* endpoint_configs[e]: a limit or NoLimit
  pc,               \* pc[t]: what t does next at its level
  level,            \* level[t]: the level t is at
  request,          \* request[t]: the client and endpoint t asks about
  held,             \* held[t]: the object t works on
  budget,           \* budget[b]: units b may still hand out: its capacity,
                    \* plus its rate times its age, less those taken (history)
  promise           \* promise[b]: when b should again have a token, by the
                    \* Retry-After of a refusal since the last token taken
                    \* (history)

configs == <<per_ip_config, global_config, endpoint_configs>>
history == <<budget, promise>>
objects == <<bucket, history>>
thread  == <<pc, level, request, held>>
vars == <<now, objects, bucket_of, configs, thread>>

GlobalKey     == <<"global">>
IPKey(c)      == <<"ip", c>>
EPKey(c, e)   == <<"endpoint", c, e>>
Keys ==
  {GlobalKey} \cup {IPKey(c) : c \in Clients}
    \cup {EPKey(c, e) : c \in Clients, e \in Endpoints}

Level == {"global", "ip", "endpoint"}
Below(l) ==
  IF l = "global" THEN "ip" ELSE IF l = "ip" THEN "endpoint" ELSE "global"

KeyOf(t) ==
  LET c == request[t][1]  e == request[t][2] IN
  IF level[t] = "global" THEN GlobalKey
  ELSE IF level[t] = "ip" THEN IPKey(c) ELSE EPKey(c, e)

ConfigOf(t) ==
  IF level[t] = "global" THEN global_config
  ELSE IF level[t] = "ip" THEN per_ip_config ELSE endpoint_configs[request[t][2]]

\* Whether the level limits the request at all.
Applies(t) ==
  IF level[t] = "global" THEN bucket_of[GlobalKey] # NoBucket
  ELSE IF level[t] = "ip" THEN per_ip_config.requests > 0
  ELSE endpoint_configs[request[t][2]] # NoLimit

Least(a, b) == IF a <= b THEN a ELSE b

-----------------------------------------------------------------------------
NoPromise == -1

\* Integer division: 100 requests in 60 seconds refill one token a second,
\* 5 in 60 refill none.
RefillRate(cfg) == IF cfg.window > 0 THEN cfg.requests \div cfg.window ELSE cfg.requests

\* The constructor of TokenBucket: full.
NewBucket(cfg) ==
  [capacity |-> cfg.requests, tokens |-> cfg.requests * Scale,
   refill_rate |-> RefillRate(cfg), last_refill |-> now]

\* Object b becomes a new bucket for key k.
Make(b, k, cfg) ==
  /\ bucket'    = [bucket EXCEPT ![b] = NewBucket(cfg)]
  /\ bucket_of' = [bucket_of EXCEPT ![k] = b]
  /\ budget'    = [budget EXCEPT ![b] = cfg.requests * Scale]
  /\ promise'   = [promise EXCEPT ![b] = NoPromise]

\* Freed, or never allocated: no shared pointer to it. A reference at the
\* global level is not a shared pointer.
Unused(b) ==
  /\ \A k \in Keys : bucket_of[k] # b
  /\ \A t \in Threads : held[t] = b => level[t] = "global"

Init ==
  /\ now = 0
  /\ per_ip_config \in PerIPLimits
  /\ global_config \in GlobalLimits
  /\ endpoint_configs \in [Endpoints -> EndpointLimits \cup {NoLimit}]
  /\ \E b \in Buckets \cup {NoBucket} :
       bucket_of = [k \in Keys |-> IF k = GlobalKey THEN b ELSE NoBucket]
  /\ bucket  = [b \in Buckets |-> NewBucket(global_config)]
  /\ budget  = [b \in Buckets |-> global_config.requests * Scale]
  /\ promise = [b \in Buckets |-> NoPromise]
  /\ pc      = [t \in Threads |-> "idle"]
  /\ level   = [t \in Threads |-> "global"]
  /\ request \in [Threads -> Clients \X Endpoints]
  /\ held    = [t \in Threads |-> NoBucket]

-----------------------------------------------------------------------------
Begin(t, c, e) ==
  /\ pc[t] = "idle"
  /\ pc'      = [pc EXCEPT ![t] = "find"]
  /\ level'   = [level EXCEPT ![t] = "global"]
  /\ request' = [request EXCEPT ![t] = <<c, e>>]
  /\ UNCHANGED <<now, objects, bucket_of, configs, held>>

\* On to the next level, or out of allowRequest with {true, 0}.
Advance(t) ==
  /\ pc'    = [pc EXCEPT ![t] = IF level[t] = "endpoint" THEN "idle" ELSE "find"]
  /\ level' = [level EXCEPT ![t] = Below(@)]
  /\ held'  = [held EXCEPT ![t] = NoBucket]
  /\ UNCHANGED request

\* The level has no limit.
SkipLevel(t) ==
  /\ pc[t] = "find"
  /\ ~Applies(t)
  /\ Advance(t)
  /\ UNCHANGED <<now, objects, bucket_of, configs>>

\* getBucket, the key is there; the argument of refillBucket.
FindBucket(t) ==
  /\ pc[t] = "find"
  /\ Applies(t)
  /\ bucket_of[KeyOf(t)] # NoBucket
  /\ held' = [held EXCEPT ![t] = bucket_of[KeyOf(t)]]
  /\ pc'   = [pc EXCEPT ![t] = "refill"]
  /\ UNCHANGED <<now, objects, bucket_of, configs, level, request>>

\* getBucket, the key is absent: a new bucket with the limit now in force.
CreateBucket(t) ==
  /\ pc[t] = "find"
  /\ Applies(t)
  /\ bucket_of[KeyOf(t)] = NoBucket
  /\ \E b \in {u \in Buckets : Unused(u)} :
       Make(b, KeyOf(t), ConfigOf(t)) /\ held' = [held EXCEPT ![t] = b]
  /\ pc' = [pc EXCEPT ![t] = "refill"]
  /\ UNCHANGED <<now, configs, level, request>>

\* The tokens of b brought up to date, before and after capping.
UncappedTokens(b) ==
  bucket[b].tokens + bucket[b].refill_rate * (now - bucket[b].last_refill)

RefilledTokens(b) == Least(bucket[b].capacity * Scale, UncappedTokens(b))

\* Object b with other tokens and another time of the last refill.
Holding(b, tokens, time) ==
  [capacity |-> bucket[b].capacity, tokens |-> tokens,
   refill_rate |-> bucket[b].refill_rate, last_refill |-> time]

RefilledForgettingTime(b) == Holding(b, RefilledTokens(b), bucket[b].last_refill)

\* The object after refillBucket.
Refilled(b) == Holding(b, RefilledTokens(b), now)

\* The next call gets *global_bucket_ as it is now, *bucket as it was.
NextArgument(t) ==
  held' = [held EXCEPT ![t] = IF level[t] = "global" THEN bucket_of[GlobalKey] ELSE @]

\* refillBucket.
Refill(t) ==
  LET b == held[t] IN
  /\ pc[t] = "refill"
  /\ bucket' = [bucket EXCEPT ![b] = IF now > @.last_refill THEN Refilled(b) ELSE @]
  /\ pc' = [pc EXCEPT ![t] = "consume"]
  /\ NextArgument(t)
  /\ UNCHANGED <<now, history, bucket_of, configs, level, request>>

EnoughWithAnyLeft(b) == bucket[b].tokens > 0

\* A whole token is there.
Enough(b) == bucket[b].tokens >= Scale

\* The object after a token was taken.
Charged(b) == Holding(b, bucket[b].tokens - Scale, bucket[b].last_refill)

\* consumeTokens succeeds.
Consume(t) ==
  LET b == held[t] IN
  /\ pc[t] = "consume"
  /\ Enough(b)
  /\ bucket'  = [bucket EXCEPT ![b] = Charged(b)]
  /\ budget'  = [budget EXCEPT ![b] = @ - Scale]
  /\ promise' = [promise EXCEPT ![b] = NoPromise]
  /\ Advance(t)
  /\ UNCHANGED <<now, bucket_of, configs>>

\* consumeTokens fails.
Refuse(t) ==
  /\ pc[t] = "consume"
  /\ ~Enough(held[t])
  /\ pc' = [pc EXCEPT ![t] = "hint"]
  /\ NextArgument(t)
  /\ UNCHANGED <<now, objects, bucket_of, configs, level, request>>

RetryAfterRoundedDown(b, cfg) == IF bucket[b].refill_rate > 1 THEN 0 ELSE cfg.window

\* calculateRetryAfter, in seconds: ceil(1.0 / refill_rate) is 1 for every
\* whole rate.
RetryAfter(b, cfg) == IF bucket[b].refill_rate > 0 THEN 1 ELSE cfg.window

\* {false, retry_after}. The first such answer since a token was taken sets
\* when the client may expect one.
Deny(t) ==
  LET b == held[t] IN
  /\ pc[t] = "hint"
  /\ promise' = [promise EXCEPT ![b] =
       IF @ = NoPromise THEN now + RetryAfter(b, ConfigOf(t)) * Scale ELSE @]
  /\ pc'    = [pc EXCEPT ![t] = "idle"]
  /\ level' = [level EXCEPT ![t] = "global"]
  /\ held'  = [held EXCEPT ![t] = NoBucket]
  /\ UNCHANGED <<now, bucket, budget, bucket_of, configs, request>>

-----------------------------------------------------------------------------
\* resetBucket, from the admin API: the per-client entry only.
ResetBucket(c) ==
  /\ bucket_of' = [bucket_of EXCEPT ![IPKey(c)] = NoBucket]
  /\ UNCHANGED <<now, objects, configs, thread>>

IdleInTicks(b) == now - bucket[b].last_refill > IdleSeconds

\* "not used in the last 10 minutes", in whole seconds.
Idle(b) == (now - bucket[b].last_refill) \div Scale > IdleSeconds

\* One entry of a pass of cleanupOldBuckets, under buckets_mutex_.
Expire(k) ==
  /\ k # GlobalKey
  /\ bucket_of[k] # NoBucket
  /\ Idle(bucket_of[k])
  /\ bucket_of' = [bucket_of EXCEPT ![k] = NoBucket]
  /\ UNCHANGED <<now, objects, configs, thread>>

\* setGlobalLimit, when the admin API updates the configuration: a new bucket
\* replaces the old one under the threads' feet.
SetGlobalLimit(cfg) ==
  /\ global_config' = cfg
  /\ \E b \in {u \in Buckets : Unused(u)} : Make(b, GlobalKey, cfg)
  /\ UNCHANGED <<now, per_ip_config, endpoint_configs, thread>>

\* setPerIPLimit: the buckets that exist keep their capacity and rate.
SetPerIPLimit(cfg) ==
  /\ per_ip_config' = cfg
  /\ UNCHANGED <<now, objects, bucket_of, global_config, endpoint_configs, thread>>

\* setEndpointLimit, likewise.
SetEndpointLimit(e, cfg) ==
  /\ endpoint_configs' = [endpoint_configs EXCEPT ![e] = cfg]
  /\ UNCHANGED <<now, objects, bucket_of, per_ip_config, global_config, thread>>

Tick ==
  /\ now < MaxNow
  /\ now' = now + 1
  /\ budget' = [b \in Buckets |-> budget[b] + bucket[b].refill_rate]
  /\ UNCHANGED <<bucket, promise, bucket_of, configs, thread>>

AllowRequest(t) ==
  \/ \E c \in Clients, e \in Endpoints : Begin(t, c, e)
  \/ SkipLevel(t)
  \/ FindBucket(t)
  \/ CreateBucket(t)
  \/ Refill(t)
  \/ Consume(t)
  \/ Refuse(t)
  \/ Deny(t)

Configure ==
  \/ \E cfg \in GlobalLimits : SetGlobalLimit(cfg)
  \/ \E cfg \in PerIPLimits : SetPerIPLimit(cfg)
  \/ \E e \in Endpoints, cfg \in EndpointLimits : SetEndpointLimit(e, cfg)

Next ==
  \/ \E t \in Threads : AllowRequest(t)
  \/ \E c \in Clients : ResetBucket(c)
  \/ \E k \in Keys : Expire(k)
  \/ Configure
  \/ Tick

Spec == Init /\ [][Next]_vars

-----------------------------------------------------------------------------
BucketType ==
  [capacity : Nat, tokens : Nat, refill_rate : Nat, last_refill : Nat]

\* Every variable keeps its type: tokens are never negative, and the limits in
\* force are limits that were configured.
TypeOK ==
  /\ now \in Nat
  /\ bucket \in [Buckets -> BucketType]
  /\ bucket_of \in [Keys -> Buckets \cup {NoBucket}]
  /\ per_ip_config \in PerIPLimits
  /\ global_config \in GlobalLimits
  /\ endpoint_configs \in [Endpoints -> EndpointLimits \cup {NoLimit}]
  /\ pc \in [Threads -> {"idle", "find", "refill", "consume", "hint"}]
  /\ level \in [Threads -> Level]
  /\ request \in [Threads -> Clients \X Endpoints]
  /\ held \in [Threads -> Buckets \cup {NoBucket}]
  /\ budget \in [Buckets -> Int]
  /\ promise \in [Buckets -> Int]

(***************************************************************************)
(* README.md: "Rate limiting (token bucket)". Whatever threads do to a     *)
(* bucket between finding it, refilling it and taking from it, and whether *)
(* or not the map still holds it, it never hands out more than its         *)
(* capacity plus its rate times its age: what it holds is at most its      *)
(* capacity, and within that budget.                                       *)
(***************************************************************************)
BucketRateBound ==
  \A b \in Buckets :
    /\ bucket[b].tokens <= bucket[b].capacity * Scale
    /\ bucket[b].tokens <= budget[b]

(***************************************************************************)
(* RateLimiter.cpp: "Calculate how long until 1 token is available". A     *)
(* client told to come back after some seconds finds a token then, if      *)
(* nobody has taken one in the meantime and the bucket refills at all.     *)
(* Limits of fewer requests than seconds have refill_rate 0: such a bucket *)
(* never gets a token back, and Retry-After names the window in vain.      *)
(***************************************************************************)
RetryAfterIsHonoured ==
  \A b \in Buckets :
    /\ bucket[b].refill_rate > 0
    /\ promise[b] # NoPromise
    /\ bucket[b].last_refill >= promise[b]
    => Enough(b)

\* An empty bucket like b is full again by the time the cleanup may drop it.
FillsWhileIdle(b) == bucket[b].capacity <= bucket[b].refill_rate * (IdleSeconds + 1)

(***************************************************************************)
(* The cleanup drops a bucket that fills while idle only when nothing is   *)
(* lost: it would be full again by now, so the new bucket the client gets  *)
(* later gives it no more than the old one would have, also if a thread    *)
(* has just looked the old one up. Of any other bucket, one whose rate is  *)
(* 0 for instance, the cleanup forgets what it had handed out.             *)
(***************************************************************************)
CleanupForgetsNothing ==
  [][\A k \in Keys :
       LET b == bucket_of[k] IN
       Expire(k) /\ FillsWhileIdle(b)
         => bucket[b].capacity * Scale <= UncappedTokens(b)]_vars
=============================================================================

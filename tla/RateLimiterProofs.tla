------------------------- MODULE RateLimiterProofs -------------------------
(***************************************************************************)
(* Theorems about RateLimiter, for any number of threads, clients,         *)
(* endpoints and buckets, any clock resolution and any limits.             *)
(*                                                                         *)
(* The argument goes bucket by bucket: whatever the program does, a step   *)
(* leaves one bucket as it is, makes it anew, refills it, takes a token    *)
(* from it, promises one, or lets the clock tick (BucketMoves). Each       *)
(* invariant about buckets then has six cases.                             *)
(***************************************************************************)
EXTENDS RateLimiter, TLAPS

Working == {"refill", "consume", "hint"}

\* Part of the invariant: a working thread has a bucket; the global bucket,
\* once made, is never without a successor, nor an endpoint without a limit.
HeldOK ==
  \A t \in Threads : pc[t] \in Working =>
    /\ held[t] \in Buckets
    /\ level[t] = "global" => bucket_of[GlobalKey] \in Buckets
    /\ level[t] = "endpoint" => endpoint_configs[request[t][2]] # NoLimit

\* Part of the invariant: no bucket was refilled in the future.
RefilledInThePast == \A b \in Buckets : bucket[b].last_refill <= now

\* The limits a bucket can be made with.
InForce == GlobalLimits \cup {cfg \in PerIPLimits : cfg.requests > 0} \cup EndpointLimits

TypeInv == TypeOK /\ HeldOK /\ RefilledInThePast

-----------------------------------------------------------------------------
\* What the products in the model need of arithmetic.
LEMMA NatProduct == ASSUME NEW i \in Nat, NEW j \in Nat PROVE i * j \in Nat
  OBVIOUS

\* A rate times a sum of times, as time goes on.
LEMMA SumTimes ==
  ASSUME NEW r \in Int, NEW i \in Int, NEW j \in Int
  PROVE r * (i + j) = r * i + r * j
  OBVIOUS

\* The order of factors does not matter.
LEMMA TimesSwap ==
  ASSUME NEW i \in Int, NEW j \in Int, NEW l \in Int
  PROVE i * (j * l) = j * (i * l) /\ i * j = j * i
  OBVIOUS

\* More time refills no less.
LEMMA TimesMonotone ==
  ASSUME NEW r \in Nat, NEW i \in Int, NEW j \in Int, i <= j
  PROVE r * i <= r * j
  OBVIOUS

\* The refill rate of a limit is a natural number.
LEMMA RateIsNat ==
  ASSUME NEW cfg \in [requests : Nat, window : Nat]
  PROVE RefillRate(cfg) \in Nat
  BY DEF RefillRate

\* The three kinds of key are different.
LEMMA KeysDiffer ==
  ASSUME NEW c, NEW e
  PROVE GlobalKey # IPKey(c) /\ GlobalKey # EPKey(c, e)
  BY DEF GlobalKey, IPKey, EPKey

\* The key a thread looks up is a key of the maps.
LEMMA KeysInKeys ==
  ASSUME TypeOK, NEW t \in Threads
  PROVE KeyOf(t) \in Keys /\ GlobalKey \in Keys
  BY DEF TypeOK, KeyOf, Keys, Level

\* A level that applies has a limit, and a level's key is one of the keys.
LEMMA LimitInForce ==
  ASSUME TypeOK, NEW t \in Threads, Applies(t), level[t] # "global"
  PROVE ConfigOf(t) \in InForce
  BY DEF TypeOK, Applies, ConfigOf, InForce, Level

\* A limit in force has requests and a window.
LEMMA InForceType ==
  ASSUME NEW cfg \in InForce
  PROVE cfg \in [requests : Nat, window : Nat]
  BY RateLimiterAssumption DEF InForce

\* A bucket made for a limit is well typed.
LEMMA NewBucketType ==
  ASSUME TypeOK, NEW cfg \in InForce
  PROVE /\ NewBucket(cfg) \in BucketType
        /\ cfg.requests * Scale \in Nat
<1>1. cfg \in [requests : Nat, window : Nat]  BY InForceType
<1>2. cfg.requests * Scale \in Nat
  BY <1>1, NatProduct, RateLimiterAssumption
<1>3. RefillRate(cfg) \in Nat  BY <1>1, RateIsNat
<1> QED  BY <1>1, <1>2, <1>3 DEF NewBucket, BucketType, TypeOK

\* A refill keeps a bucket well typed.
LEMMA RefilledType ==
  ASSUME TypeOK, NEW b \in Buckets, now > bucket[b].last_refill
  PROVE Refilled(b) \in BucketType
<1>1. bucket[b] \in BucketType /\ now \in Nat  BY DEF TypeOK
<1>2. bucket[b].refill_rate * (now - bucket[b].last_refill) \in Nat
  BY <1>1, NatProduct DEF BucketType
<1>3. bucket[b].capacity * Scale \in Nat
  BY <1>1, NatProduct, RateLimiterAssumption DEF BucketType
<1>4. RefilledTokens(b) \in Nat
  BY <1>1, <1>2, <1>3 DEF RefilledTokens, UncappedTokens, Least, BucketType
<1> QED  BY <1>1, <1>4 DEF Refilled, Holding, BucketType

-----------------------------------------------------------------------------
\* Making a bucket keeps the types of what it writes.
LEMMA MakeType ==
  ASSUME TypeOK, NEW b \in Buckets, NEW k \in Keys, NEW cfg \in InForce, Make(b, k, cfg)
  PROVE /\ bucket' \in [Buckets -> BucketType]
        /\ bucket_of' \in [Keys -> Buckets \cup {NoBucket}]
        /\ bucket_of'[k] = b
        /\ \A x \in Keys : x # k => bucket_of'[x] = bucket_of[x]
        /\ budget' \in [Buckets -> Int]
        /\ promise' \in [Buckets -> Int]
        /\ \A x \in Buckets : bucket'[x] = IF x = b THEN NewBucket(cfg) ELSE bucket[x]
        /\ \A x \in Buckets : budget'[x] = IF x = b THEN cfg.requests * Scale ELSE budget[x]
        /\ \A x \in Buckets : promise'[x] = IF x = b THEN NoPromise ELSE promise[x]
<1>1. NewBucket(cfg) \in BucketType /\ cfg.requests * Scale \in Int
  BY NewBucketType
<1> HIDE DEF NewBucket, BucketType
<1> QED  BY <1>1 DEF Make, TypeOK, NoPromise

\* Going on to the next level.
LEMMA AdvanceType ==
  ASSUME TypeOK, NEW t \in Threads, Advance(t)
  PROVE /\ pc' \in [Threads -> {"idle", "find", "refill", "consume", "hint"}]
        /\ level' \in [Threads -> Level]
        /\ request' \in [Threads -> Clients \X Endpoints]
        /\ held' \in [Threads -> Buckets \cup {NoBucket}]
        /\ pc'[t] \notin Working
        /\ \A u \in Threads :
             u # t => pc'[u] = pc[u] /\ level'[u] = level[u] /\ held'[u] = held[u]
        /\ request' = request
  BY DEF Advance, TypeOK, Level, Below, Working

-----------------------------------------------------------------------------
\* The types hold before the first request.
LEMMA TypeInit == Init => TypeInv
<1> SUFFICES ASSUME Init PROVE TypeInv  OBVIOUS
<1>1. global_config \in [requests : Nat, window : Nat]
  BY RateLimiterAssumption DEF Init
<1>2. global_config.requests * Scale \in Nat /\ RefillRate(global_config) \in Nat
  BY <1>1, NatProduct, RateIsNat, RateLimiterAssumption
<1>3. NewBucket(global_config) \in BucketType
  BY <1>1, <1>2 DEF NewBucket, BucketType, Init
<1>4. bucket \in [Buckets -> BucketType]
  <2> HIDE DEF NewBucket, BucketType
  <2> QED  BY <1>3 DEF Init
<1>5. bucket_of \in [Keys -> Buckets \cup {NoBucket}]  BY DEF Init
<1>6. TypeOK
  <2> HIDE DEF BucketType
  <2> QED  BY <1>2, <1>4, <1>5 DEF Init, TypeOK, Level, NoPromise
<1>7. HeldOK  BY DEF Init, HeldOK, Working
<1>8. RefilledInThePast  BY DEF Init, RefilledInThePast, NewBucket
<1> QED  BY <1>6, <1>7, <1>8 DEF TypeInv

\* Steps of allowRequest that touch no bucket.
LEMMA WalkKeepsTypes ==
  ASSUME TypeInv, NEW t \in Threads,
         \/ \E c \in Clients, e \in Endpoints : Begin(t, c, e)
         \/ SkipLevel(t)
         \/ FindBucket(t)
         \/ Refuse(t)
  PROVE TypeInv'
<1> USE DEF TypeInv
<1>1. CASE \E c \in Clients, e \in Endpoints : Begin(t, c, e)
  <2> PICK c \in Clients, e \in Endpoints : Begin(t, c, e)  BY <1>1
  <2>1. TypeOK'
    BY DEF Begin, TypeOK, objects, history, configs, Level
  <2>2. HeldOK'
    BY DEF Begin, TypeOK, configs, HeldOK, Working
  <2>3. RefilledInThePast'
    BY DEF Begin, RefilledInThePast, objects
  <2> QED  BY <2>1, <2>2, <2>3
<1>2. CASE SkipLevel(t)
  <2>1. TypeOK'
    BY <1>2, AdvanceType DEF SkipLevel, TypeOK, objects, history, configs
  <2>2. HeldOK'
    BY <1>2, AdvanceType DEF SkipLevel, configs, HeldOK, Working
  <2>3. RefilledInThePast'
    BY <1>2 DEF SkipLevel, RefilledInThePast, objects
  <2> QED  BY <2>1, <2>2, <2>3
<1>3. CASE FindBucket(t)
  <2>1. KeyOf(t) \in Keys  BY KeysInKeys
  <2>2. bucket_of[KeyOf(t)] \in Buckets  BY <1>3, <2>1 DEF FindBucket, TypeOK
  <2>3. TypeOK'
    BY <1>3, <2>2 DEF FindBucket, TypeOK, objects, history, configs
  <2>4. HeldOK'
    BY <1>3, <2>2 DEF FindBucket, TypeOK, configs, HeldOK, Working, Applies, KeyOf, Level
  <2>5. RefilledInThePast'
    BY <1>3 DEF FindBucket, RefilledInThePast, objects
  <2> QED  BY <2>3, <2>4, <2>5
<1>4. CASE Refuse(t)
  <2>1. IF level[t] = "global" THEN bucket_of[GlobalKey] \in Buckets ELSE held[t] \in Buckets
    BY <1>4 DEF Refuse, HeldOK, Working
  <2>2. TypeOK'
    BY <1>4, <2>1 DEF Refuse, NextArgument, TypeOK, objects, history, configs
  <2>3. HeldOK'
    BY <1>4, <2>1 DEF Refuse, NextArgument, TypeOK, configs, HeldOK, Working
  <2>4. RefilledInThePast'
    BY <1>4 DEF Refuse, RefilledInThePast, objects
  <2> QED  BY <2>2, <2>3, <2>4
<1> QED  BY <1>1, <1>2, <1>3, <1>4

\* Steps of allowRequest on the bucket the thread holds, or makes.
LEMMA BucketStepsKeepTypes ==
  ASSUME TypeInv, NEW t \in Threads,
         CreateBucket(t) \/ Refill(t) \/ Consume(t) \/ Deny(t)
  PROVE TypeInv'
<1> USE DEF TypeInv
<1>1. CASE CreateBucket(t)
  <2>1. KeyOf(t) \in Keys /\ level[t] # "global"
    BY <1>1, KeysInKeys DEF CreateBucket, Applies, KeyOf
  <2>2. KeyOf(t) # GlobalKey  BY <2>1, KeysDiffer DEF KeyOf
  <2>3. ConfigOf(t) \in InForce  BY <1>1, <2>1, LimitInForce DEF CreateBucket
  <2> PICK b \in Buckets : Make(b, KeyOf(t), ConfigOf(t)) /\ held' = [held EXCEPT ![t] = b]
    BY <1>1 DEF CreateBucket
  <2>4. TypeOK'
    BY <1>1, <2>1, <2>3, MakeType DEF CreateBucket, TypeOK, configs
  <2>5. HeldOK'
    <3>1. bucket_of'[GlobalKey] = bucket_of[GlobalKey]
      BY <2>1, <2>2, <2>3, MakeType, KeysInKeys
    <3> QED  BY <1>1, <2>1, <3>1 DEF CreateBucket, configs, Applies, HeldOK, Working, TypeOK
  <2>6. RefilledInThePast'
    <3>1. NewBucket(ConfigOf(t)).last_refill = now  BY DEF NewBucket
    <3>2. now \in Nat /\ now' = now  BY <1>1 DEF CreateBucket, TypeOK
    <3> QED  BY <2>1, <2>3, <3>1, <3>2, MakeType DEF RefilledInThePast
  <2> QED  BY <2>4, <2>5, <2>6
<1>2. CASE Refill(t)
  <2> DEFINE b == held[t]
  <2>1. /\ b \in Buckets
        /\ IF level[t] = "global" THEN bucket_of[GlobalKey] \in Buckets ELSE held[t] \in Buckets
    BY <1>2 DEF Refill, HeldOK, Working
  <2>2. now > bucket[b].last_refill => Refilled(b) \in BucketType
    BY <2>1, RefilledType
  <2>3. TypeOK'
    <3> HIDE DEF Refilled, BucketType
    <3> QED
      BY <1>2, <2>1, <2>2 DEF Refill, NextArgument, TypeOK, history, configs
  <2>4. HeldOK'
    BY <1>2, <2>1 DEF Refill, NextArgument, TypeOK, configs, HeldOK, Working
  <2>5. RefilledInThePast'
    BY <1>2, <2>1, RefilledType DEF Refill, RefilledInThePast, Refilled, Holding, TypeOK, BucketType
  <2> QED  BY <2>3, <2>4, <2>5
<1>3. CASE Consume(t)
  <2> DEFINE b == held[t]
  <2>1. b \in Buckets  BY <1>3 DEF Consume, HeldOK, Working
  <2>2. Charged(b) \in BucketType /\ bucket' \in [Buckets -> BucketType]
    BY <1>3, <2>1, RateLimiterAssumption
      DEF Consume, Enough, Charged, Holding, TypeOK, BucketType
  <2>3. TypeOK'
    BY <1>3, <2>1, <2>2, AdvanceType, RateLimiterAssumption
      DEF Consume, TypeOK, configs, NoPromise
  <2>4. HeldOK'
    BY <1>3, AdvanceType DEF Consume, configs, HeldOK, Working
  <2>5. RefilledInThePast'
    BY <1>3, <2>1 DEF Consume, RefilledInThePast, Charged, Holding, TypeOK
  <2> QED  BY <2>3, <2>4, <2>5
<1>4. CASE Deny(t)
  <2> DEFINE b == held[t]
  <2>1. b \in Buckets  BY <1>4 DEF Deny, HeldOK, Working
  <2>2. now + RetryAfter(b, ConfigOf(t)) * Scale \in Int
    <3>1. ConfigOf(t).window \in Nat
      BY <1>4, RateLimiterAssumption DEF Deny, ConfigOf, HeldOK, Working, TypeOK, Level
    <3>2. RetryAfter(b, ConfigOf(t)) \in Nat  BY <3>1 DEF RetryAfter
    <3> QED  BY <3>2, NatProduct, RateLimiterAssumption DEF TypeOK
  <2>3. TypeOK'
    BY <1>4, <2>1, <2>2 DEF Deny, TypeOK, configs, Level
  <2>4. HeldOK'
    BY <1>4 DEF Deny, TypeOK, configs, HeldOK, Working
  <2>5. RefilledInThePast'
    BY <1>4 DEF Deny, RefilledInThePast
  <2> QED  BY <2>3, <2>4, <2>5
<1> QED  BY <1>1, <1>2, <1>3, <1>4

\* The admin API, the cleanup and the clock.
LEMMA OthersKeepTypes ==
  ASSUME TypeInv,
         \/ \E c \in Clients : ResetBucket(c)
         \/ \E k \in Keys : Expire(k)
         \/ Configure
         \/ Tick
  PROVE TypeInv'
<1> USE DEF TypeInv
<1>1. CASE \E c \in Clients : ResetBucket(c)
  <2> PICK c \in Clients : ResetBucket(c)  BY <1>1
  <2>1. IPKey(c) \in Keys /\ IPKey(c) # GlobalKey  BY KeysDiffer DEF Keys
  <2>2. TypeOK'
    BY <2>1 DEF ResetBucket, TypeOK, objects, history, configs, thread
  <2>3. HeldOK'
    BY <2>1 DEF ResetBucket, HeldOK, TypeOK, configs, thread
  <2>4. RefilledInThePast'  BY DEF ResetBucket, RefilledInThePast, objects
  <2> QED  BY <2>2, <2>3, <2>4
<1>2. CASE \E k \in Keys : Expire(k)
  <2> PICK k \in Keys : Expire(k)  BY <1>2
  <2>1. TypeOK'
    BY DEF Expire, TypeOK, objects, history, configs, thread
  <2>2. HeldOK'
    BY DEF Expire, HeldOK, TypeOK, configs, thread
  <2>3. RefilledInThePast'  BY DEF Expire, RefilledInThePast, objects
  <2> QED  BY <2>1, <2>2, <2>3
<1>3. CASE \E cfg \in GlobalLimits : SetGlobalLimit(cfg)
  <2> PICK cfg \in GlobalLimits : SetGlobalLimit(cfg)  BY <1>3
  <2> PICK b \in Buckets : Make(b, GlobalKey, cfg)  BY DEF SetGlobalLimit
  <2>1. cfg \in InForce /\ GlobalKey \in Keys  BY DEF InForce, Keys
  <2>2. TypeOK'
    BY <2>1, MakeType DEF SetGlobalLimit, TypeOK, thread
  <2>3. HeldOK'
    BY <2>1, MakeType DEF SetGlobalLimit, HeldOK, thread
  <2>4. RefilledInThePast'
    <3>1. NewBucket(cfg).last_refill = now  BY DEF NewBucket
    <3>2. now \in Nat /\ now' = now  BY DEF SetGlobalLimit, TypeOK
    <3> QED  BY <2>1, <3>1, <3>2, MakeType DEF RefilledInThePast
  <2> QED  BY <2>2, <2>3, <2>4
<1>4. CASE \E cfg \in PerIPLimits : SetPerIPLimit(cfg)
  BY <1>4 DEF SetPerIPLimit, TypeOK, HeldOK, RefilledInThePast, objects, history, thread
<1>5. CASE \E e \in Endpoints, cfg \in EndpointLimits : SetEndpointLimit(e, cfg)
  <2> PICK e \in Endpoints, cfg \in EndpointLimits : SetEndpointLimit(e, cfg)  BY <1>5
  <2>1. TypeOK'
    BY DEF SetEndpointLimit, TypeOK, objects, history, thread
  <2>2. HeldOK'
    BY RateLimiterAssumption DEF SetEndpointLimit, HeldOK, TypeOK, thread
  <2>3. RefilledInThePast'  BY DEF SetEndpointLimit, RefilledInThePast, objects
  <2> QED  BY <2>1, <2>2, <2>3
<1>6. CASE Tick
  <2>1. TypeOK'
    <3>1. \A b \in Buckets : budget[b] + bucket[b].refill_rate \in Int
      BY DEF TypeOK, BucketType
    <3> QED  BY <1>6, <3>1 DEF Tick, TypeOK, configs, thread
  <2>2. HeldOK'  BY <1>6 DEF Tick, HeldOK, configs, thread
  <2>3. RefilledInThePast'
    BY <1>6 DEF Tick, RefilledInThePast, TypeOK, BucketType
  <2> QED  BY <2>1, <2>2, <2>3
<1> QED  BY <1>1, <1>2, <1>3, <1>4, <1>5, <1>6 DEF Configure

\* The types survive every step.
LEMMA TypeStep == TypeInv /\ [Next]_vars => TypeInv'
<1> SUFFICES ASSUME TypeInv, [Next]_vars PROVE TypeInv'  OBVIOUS
<1>1. CASE UNCHANGED vars
  BY <1>1 DEF vars, objects, history, configs, thread, TypeInv, TypeOK, HeldOK, RefilledInThePast
<1>2. CASE Next
  BY <1>2, WalkKeepsTypes, BucketStepsKeepTypes, OthersKeepTypes DEF Next, AllowRequest
<1> QED  BY <1>1, <1>2

(***************************************************************************)
(* The limiter is well typed: a thread past getBucket always has a bucket, *)
(* no bucket has less than no tokens, nor was refilled in the future.      *)
(***************************************************************************)
THEOREM TypeCorrect == Spec => []TypeOK
<1>1. TypeInv => TypeOK  BY DEF TypeInv
<1> QED  BY <1>1, TypeInit, TypeStep, PTL DEF Spec

-----------------------------------------------------------------------------
\* What a step does to one bucket.
Kept(b) ==
  /\ bucket'[b] = bucket[b]
  /\ budget'[b] = budget[b]
  /\ promise'[b] = promise[b]

MadeAnew(b) ==
  \E cfg \in InForce :
    /\ bucket'[b] = NewBucket(cfg)
    /\ budget'[b] = cfg.requests * Scale
    /\ promise'[b] = NoPromise

BroughtUpToDate(b) ==
  /\ now > bucket[b].last_refill
  /\ bucket'[b] = Refilled(b)
  /\ budget'[b] = budget[b]
  /\ promise'[b] = promise[b]

TokenTaken(b) ==
  /\ Enough(b)
  /\ bucket'[b] = Charged(b)
  /\ budget'[b] = budget[b] - Scale
  /\ promise'[b] = NoPromise

TokenPromised(b) ==
  /\ bucket'[b] = bucket[b]
  /\ budget'[b] = budget[b]
  /\ \E cfg : promise'[b] = now + RetryAfter(b, cfg) * Scale

Aged(b) ==
  /\ now' = now + 1
  /\ bucket'[b] = bucket[b]
  /\ budget'[b] = budget[b] + bucket[b].refill_rate
  /\ promise'[b] = promise[b]

BucketMoves(b) ==
  \/ Aged(b)
  \/ /\ now' = now
     /\ Kept(b) \/ MadeAnew(b) \/ BroughtUpToDate(b) \/ TokenTaken(b) \/ TokenPromised(b)

\* Whatever the step, a bucket moves in one of these ways: the invariants below
\* are proved once per way instead of once per action.
LEMMA EveryBucketMoves ==
  ASSUME TypeInv, [Next]_vars, NEW b \in Buckets
  PROVE BucketMoves(b)
<1> USE DEF TypeInv, BucketMoves
<1>1. CASE UNCHANGED <<now, objects>>
  BY <1>1 DEF objects, history, Kept
<1>2. ASSUME NEW t \in Threads, CreateBucket(t) PROVE BucketMoves(b)
  <2>1. KeyOf(t) \in Keys /\ level[t] # "global"
    BY <1>2, KeysInKeys DEF CreateBucket, Applies, KeyOf
  <2>2. ConfigOf(t) \in InForce  BY <1>2, <2>1, LimitInForce DEF CreateBucket
  <2> PICK x \in Buckets : Make(x, KeyOf(t), ConfigOf(t))  BY <1>2 DEF CreateBucket
  <2> QED  BY <1>2, <2>1, <2>2, MakeType DEF CreateBucket, Kept, MadeAnew
<1>3. ASSUME NEW t \in Threads, Refill(t) PROVE BucketMoves(b)
  <2>1. held[t] \in Buckets  BY <1>3 DEF Refill, HeldOK, Working
  <2> QED  BY <1>3, <2>1 DEF Refill, TypeOK, history, Kept, BroughtUpToDate
<1>4. ASSUME NEW t \in Threads, Consume(t) PROVE BucketMoves(b)
  <2>1. held[t] \in Buckets  BY <1>4 DEF Consume, HeldOK, Working
  <2> QED  BY <1>4, <2>1 DEF Consume, TypeOK, Kept, TokenTaken
<1>5. ASSUME NEW t \in Threads, Deny(t) PROVE BucketMoves(b)
  <2>1. held[t] \in Buckets  BY <1>5 DEF Deny, HeldOK, Working
  <2> QED  BY <1>5, <2>1 DEF Deny, TypeOK, Kept, TokenPromised
<1>6. ASSUME NEW cfg \in GlobalLimits, SetGlobalLimit(cfg) PROVE BucketMoves(b)
  <2> PICK x \in Buckets : Make(x, GlobalKey, cfg)  BY <1>6 DEF SetGlobalLimit
  <2>1. cfg \in InForce /\ GlobalKey \in Keys  BY DEF InForce, Keys
  <2> QED  BY <1>6, <2>1, MakeType DEF SetGlobalLimit, Kept, MadeAnew
<1>7. CASE Tick  BY <1>7 DEF Tick, Aged, TypeOK
<1>8. CASE Next
  <2>1. CASE \E t \in Threads : AllowRequest(t)
    BY <1>1, <1>2, <1>3, <1>4, <1>5, <2>1
      DEF AllowRequest, Begin, SkipLevel, FindBucket, Refuse
  <2>2. CASE Configure
    BY <1>1, <1>6, <2>2 DEF Configure, SetPerIPLimit, SetEndpointLimit
  <2> QED
    BY <1>1, <1>7, <1>8, <2>1, <2>2 DEF Next, ResetBucket, Expire
<1> QED  BY <1>1, <1>8 DEF vars

-----------------------------------------------------------------------------
\* Strengthens BucketRateBound: the tokens refilled up to now are within the
\* budget too, which is what makes the bound survive a refill.
RateInv ==
  \A b \in Buckets :
    /\ bucket[b].tokens <= bucket[b].capacity * Scale
    /\ UncappedTokens(b) <= budget[b]

\* New buckets are within their budget.
LEMMA RateInit == Init => RateInv
<1> SUFFICES ASSUME Init, NEW b \in Buckets
             PROVE /\ bucket[b].tokens <= bucket[b].capacity * Scale
                   /\ UncappedTokens(b) <= budget[b]
  BY DEF RateInv
<1>1. global_config \in [requests : Nat, window : Nat]
  BY RateLimiterAssumption DEF Init
<1>2. global_config.requests * Scale \in Nat /\ RefillRate(global_config) \in Nat
  BY <1>1, NatProduct, RateIsNat, RateLimiterAssumption
<1>3. bucket[b] = NewBucket(global_config) /\ now = 0
  BY DEF Init
<1> QED  BY <1>2, <1>3 DEF Init, UncappedTokens, NewBucket

\* No way in which a bucket moves takes it over its budget.
LEMMA RateStep == TypeInv /\ TypeInv' /\ RateInv /\ [Next]_vars => RateInv'
<1> SUFFICES ASSUME TypeInv, TypeInv', RateInv, [Next]_vars, NEW b \in Buckets
             PROVE (/\ bucket[b].tokens <= bucket[b].capacity * Scale
                    /\ UncappedTokens(b) <= budget[b])'
  BY DEF RateInv
<1> DEFINE old == bucket[b]  new == bucket'[b]
<1>1. /\ old \in BucketType /\ new \in BucketType
      /\ now \in Nat /\ now' \in Nat /\ budget[b] \in Int
      /\ old.last_refill <= now
      /\ old.tokens <= old.capacity * Scale
      /\ old.tokens + old.refill_rate * (now - old.last_refill) <= budget[b]
  BY DEF TypeInv, TypeOK, RefilledInThePast, RateInv, UncappedTokens
<1>2. SUFFICES /\ new.tokens <= new.capacity * Scale
               /\ new.tokens + new.refill_rate * (now' - new.last_refill) <= budget'[b]
  BY DEF UncappedTokens
<1>3. /\ Scale \in Nat \ {0}
      /\ old.refill_rate * (now - old.last_refill) \in Nat
      /\ old.capacity * Scale \in Nat
  BY <1>1, NatProduct, RateLimiterAssumption DEF BucketType
<1>4. CASE Aged(b)
  <2>1. old.refill_rate * ((now - old.last_refill) + 1)
          = old.refill_rate * (now - old.last_refill) + old.refill_rate
    BY <1>1, SumTimes DEF BucketType
  <2>2. now' - old.last_refill = (now - old.last_refill) + 1
    <3>1. old.last_refill \in Nat /\ now' = now + 1  BY <1>1, <1>4 DEF Aged, BucketType
    <3> QED  BY <1>1, <3>1
  <2>3. old.refill_rate \in Nat /\ old.tokens \in Nat  BY <1>1 DEF BucketType
  <2> QED  BY <1>1, <1>3, <1>4, <2>1, <2>2, <2>3 DEF Aged
<1>5. CASE now' = now /\ Kept(b)
  BY <1>1, <1>5 DEF Kept
<1>6. CASE now' = now /\ TokenPromised(b)
  BY <1>1, <1>6 DEF TokenPromised
<1>7. CASE now' = now /\ MadeAnew(b)
  <2> PICK cfg \in InForce : new = NewBucket(cfg) /\ budget'[b] = cfg.requests * Scale
    BY <1>7 DEF MadeAnew
  <2>1. cfg.requests * Scale \in Nat /\ RefillRate(cfg) \in Nat
    BY InForceType, NatProduct, RateIsNat, RateLimiterAssumption
  <2> QED  BY <1>1, <1>7, <2>1 DEF NewBucket
<1>8. CASE now' = now /\ BroughtUpToDate(b)
  <2>1. new = Refilled(b) /\ budget'[b] = budget[b]
    BY <1>8 DEF BroughtUpToDate
  <2>2. new.tokens <= old.capacity * Scale
        /\ new.tokens <= old.tokens + old.refill_rate * (now - old.last_refill)
    BY <1>1, <1>3, <2>1
      DEF Refilled, Holding, RefilledTokens, UncappedTokens, Least, BucketType
  <2>3. new.refill_rate * (now' - new.last_refill) = 0
    BY <1>1, <1>8, <2>1 DEF Refilled, Holding, BucketType
  <2> QED
    BY <1>1, <1>3, <2>1, <2>2, <2>3 DEF Refilled, Holding, BucketType
<1>9. CASE now' = now /\ TokenTaken(b)
  BY <1>1, <1>3, <1>9 DEF TokenTaken, Charged, Holding, BucketType
<1> QED
  BY <1>4, <1>5, <1>6, <1>7, <1>8, <1>9, EveryBucketMoves DEF BucketMoves

(***************************************************************************)
(* No bucket, in whatever order threads refill it and take from it, ever   *)
(* hands out more than its capacity plus its rate times its age.           *)
(***************************************************************************)
THEOREM RateBoundHolds == Spec => []BucketRateBound
<1>1. TypeInv /\ RateInv => BucketRateBound
  <2> SUFFICES ASSUME TypeInv, RateInv, NEW b \in Buckets
               PROVE bucket[b].tokens <= budget[b]
    BY DEF RateInv, BucketRateBound
  <2>1. bucket[b] \in BucketType /\ now \in Nat /\ bucket[b].last_refill <= now
        /\ budget[b] \in Int
    BY DEF TypeInv, TypeOK, RefilledInThePast
  <2>2. bucket[b].refill_rate * (now - bucket[b].last_refill) \in Nat
    BY <2>1, NatProduct DEF BucketType
  <2> QED  BY <2>1, <2>2 DEF RateInv, UncappedTokens, BucketType
<1> QED  BY <1>1, TypeInit, TypeStep, RateInit, RateStep, PTL DEF Spec

-----------------------------------------------------------------------------
\* The units refilled since the refusal that made the promise for b.
Owed(b) == bucket[b].refill_rate * (bucket[b].last_refill - (promise[b] - Scale))

\* Strengthens RetryAfterIsHonoured: a bucket that refills does so as promised,
\* and would be full before the promise is due if it does not.
PromiseInv ==
  \A b \in Buckets : bucket[b].refill_rate > 0 =>
    /\ bucket[b].capacity > 0
    /\ promise[b] # NoPromise =>
         \/ bucket[b].tokens >= bucket[b].capacity * Scale
         \/ bucket[b].tokens >= Owed(b)

\* A limit that refills allows some request.
LEMMA RefillingBucket ==
  ASSUME NEW cfg \in InForce, RefillRate(cfg) > 0
  PROVE cfg.requests > 0
<1>1. cfg \in [requests : Nat, window : Nat]
  BY InForceType
<1>2. CASE cfg.requests = 0
  <2>1. cfg.window > 0 => 0 \div cfg.window = 0  BY <1>1
  <2> QED  BY <1>1, <1>2, <2>1 DEF RefillRate
<1> QED  BY <1>1, <1>2

\* Nothing is promised at the start.
LEMMA PromiseInit == Init => PromiseInv
<1> SUFFICES ASSUME Init PROVE PromiseInv  OBVIOUS
<1>1. global_config \in InForce  BY DEF Init, InForce
<1> QED  BY <1>1, RefillingBucket DEF Init, PromiseInv, NewBucket

\* Every way in which a bucket moves keeps what was promised for it.
LEMMA PromiseStep ==
  TypeInv /\ TypeInv' /\ PromiseInv /\ [Next]_vars => PromiseInv'
<1> SUFFICES ASSUME TypeInv, TypeInv', PromiseInv, [Next]_vars,
                    NEW b \in Buckets, bucket'[b].refill_rate > 0
             PROVE (/\ bucket[b].capacity > 0
                    /\ promise[b] # NoPromise =>
                         \/ bucket[b].tokens >= bucket[b].capacity * Scale
                         \/ bucket[b].tokens >= Owed(b))'
  BY DEF PromiseInv
<1> DEFINE old == bucket[b]  new == bucket'[b]  from == promise[b] - Scale
<1>1. /\ old.capacity \in Nat /\ old.tokens \in Nat
      /\ old.refill_rate \in Nat /\ old.last_refill \in Nat
      /\ now \in Nat /\ promise[b] \in Int /\ old.last_refill <= now
  BY DEF TypeInv, TypeOK, RefilledInThePast, BucketType
<1>2. new.refill_rate = old.refill_rate => old.refill_rate > 0 /\ old.capacity > 0
  BY DEF PromiseInv
<1>3. Scale \in Nat \ {0}  BY RateLimiterAssumption
<1>4. CASE new = old /\ promise'[b] = promise[b]
  BY <1>4 DEF PromiseInv, Owed
<1>5. CASE MadeAnew(b)
  BY <1>5, RefillingBucket DEF MadeAnew, NewBucket
<1>6. CASE BroughtUpToDate(b)
  <2> DEFINE gained == old.refill_rate * (now - old.last_refill)
  <2>1. gained \in Nat /\ old.capacity * Scale \in Nat  BY <1>1, <1>3, NatProduct
  <2>2. /\ new.capacity = old.capacity /\ new.refill_rate = old.refill_rate
        /\ new.last_refill = now /\ promise'[b] = promise[b]
    BY <1>6 DEF BroughtUpToDate, Refilled, Holding
  <2>3. new.tokens = IF old.capacity * Scale <= old.tokens + gained
                     THEN old.capacity * Scale ELSE old.tokens + gained
    BY <1>6 DEF BroughtUpToDate, Refilled, Holding, RefilledTokens, UncappedTokens, Least
  <2>4. SUFFICES ASSUME promise[b] # NoPromise,
                        old.tokens + gained < old.capacity * Scale
                 PROVE new.tokens >= old.refill_rate * (now - from)
    BY <1>1, <1>2, <2>1, <2>2, <2>3 DEF Owed
  <2>5. old.tokens >= old.refill_rate * (old.last_refill - from)
    BY <1>1, <1>2, <2>1, <2>2, <2>4 DEF PromiseInv, Owed
  <2>6. old.refill_rate * (now - from) = old.refill_rate * (old.last_refill - from) + gained
    <3>1. /\ old.last_refill - from \in Int /\ now - old.last_refill \in Int
          /\ (old.last_refill - from) + (now - old.last_refill) = now - from
      BY <1>1, <1>3
    <3> QED  BY <1>1, <3>1, SumTimes
  <2>7. old.refill_rate * (old.last_refill - from) \in Int  BY <1>1, <1>3
  <2> QED  BY <1>1, <2>1, <2>3, <2>4, <2>5, <2>6, <2>7
<1>7. CASE TokenTaken(b)
  BY <1>2, <1>7 DEF TokenTaken, Charged, Holding
<1>8. CASE TokenPromised(b)
  <2>1. new = old /\ promise'[b] = now + Scale
    BY <1>1, <1>2, <1>3, <1>8 DEF TokenPromised, RetryAfter
  <2>2. old.refill_rate * (old.last_refill - now) <= old.refill_rate * 0
    BY <1>1, TimesMonotone
  <2>3. old.last_refill - ((now + Scale) - Scale) = old.last_refill - now
    BY <1>1, <1>3
  <2>4. old.refill_rate * 0 = 0 /\ old.refill_rate * (old.last_refill - now) \in Int
    BY <1>1
  <2> QED  BY <1>1, <1>2, <2>1, <2>2, <2>3, <2>4 DEF Owed
<1> QED
  BY <1>4, <1>5, <1>6, <1>7, <1>8, EveryBucketMoves DEF BucketMoves, Aged, Kept

(***************************************************************************)
(* A client that comes back after Retry-After finds its token, unless      *)
(* others have taken it or the bucket is one of fewer requests than        *)
(* seconds, with any limits, however they are changed meanwhile.           *)
(***************************************************************************)
THEOREM RetryAfterHolds == Spec => []RetryAfterIsHonoured
<1>1. TypeInv /\ PromiseInv => RetryAfterIsHonoured
  <2> SUFFICES ASSUME TypeInv, PromiseInv, NEW b \in Buckets,
                      bucket[b].refill_rate > 0, promise[b] # NoPromise,
                      bucket[b].last_refill >= promise[b]
               PROVE bucket[b].tokens >= Scale
    BY DEF RetryAfterIsHonoured, Enough
  <2>1. /\ bucket[b].capacity \in Nat \ {0} /\ bucket[b].refill_rate \in Nat \ {0}
        /\ bucket[b].tokens \in Nat /\ bucket[b].last_refill \in Nat
        /\ promise[b] \in Int /\ Scale \in Nat
    BY RateLimiterAssumption DEF TypeInv, TypeOK, BucketType, PromiseInv
  <2>2. Scale * 1 <= Scale * bucket[b].capacity
        /\ Scale * bucket[b].capacity = bucket[b].capacity * Scale
    BY <2>1, TimesMonotone
  <2>3. Scale * 1 <= Scale * bucket[b].refill_rate
        /\ Scale * bucket[b].refill_rate = bucket[b].refill_rate * Scale
    BY <2>1, TimesMonotone
  <2>4. bucket[b].refill_rate * Scale <= Owed(b)
    <3>1. bucket[b].last_refill - (promise[b] - Scale) \in Int
          /\ Scale <= bucket[b].last_refill - (promise[b] - Scale)
      BY <2>1
    <3> QED  BY <2>1, <3>1, TimesMonotone DEF Owed
  <2>5. Owed(b) \in Int /\ bucket[b].refill_rate * Scale \in Int
        /\ bucket[b].capacity * Scale \in Int /\ Scale * 1 = Scale
    BY <2>1 DEF Owed
  <2> QED  BY <2>1, <2>2, <2>3, <2>4, <2>5 DEF PromiseInv
<1> QED  BY <1>1, TypeInit, TypeStep, PromiseInit, PromiseStep, PTL DEF Spec

-----------------------------------------------------------------------------
(***************************************************************************)
(* Dropping an idle bucket that fills within the ten minutes never gives a *)
(* client a token the bucket would not have given it, whatever other       *)
(* limits there are and whichever thread is about to use the bucket.       *)
(***************************************************************************)
THEOREM CleanupIsHarmless == Spec => CleanupForgetsNothing
<1>1. TypeInv =>
        \A k \in Keys :
          LET b == bucket_of[k] IN
          Expire(k) /\ FillsWhileIdle(b)
            => bucket[b].capacity * Scale <= UncappedTokens(b)
  <2> SUFFICES ASSUME TypeInv, NEW k \in Keys, Expire(k), FillsWhileIdle(bucket_of[k])
               PROVE bucket[bucket_of[k]].capacity * Scale <= UncappedTokens(bucket_of[k])
    OBVIOUS
  <2> DEFINE b == bucket_of[k]
             rate == bucket[b].refill_rate
             idle == now - bucket[b].last_refill
  <2>1. b \in Buckets  BY DEF Expire, TypeInv, TypeOK
  <2>2. /\ bucket[b].capacity \in Nat /\ rate \in Nat /\ bucket[b].tokens \in Nat
        /\ idle \in Nat /\ Scale \in Nat \ {0} /\ IdleSeconds \in Nat
    BY <2>1, RateLimiterAssumption DEF TypeInv, TypeOK, RefilledInThePast, BucketType
  <2>3. idle \div Scale >= IdleSeconds + 1
    BY <2>2 DEF Expire, Idle
  <2>4. Scale * (IdleSeconds + 1) <= idle
    <3>1. Scale * (IdleSeconds + 1) <= Scale * (idle \div Scale)
      BY <2>2, <2>3, TimesMonotone
    <3>2. Scale * (idle \div Scale) <= idle  BY <2>2
    <3> QED  BY <2>2, <3>1, <3>2
  <2>5. rate * (Scale * (IdleSeconds + 1)) <= rate * idle
    <3>1. Scale * (IdleSeconds + 1) \in Int  BY <2>2
    <3> QED  BY <2>2, <2>4, <3>1, TimesMonotone
  <2>6. Scale * bucket[b].capacity <= Scale * (rate * (IdleSeconds + 1))
    <3>1. rate * (IdleSeconds + 1) \in Int  BY <2>2, NatProduct
    <3>2. bucket[b].capacity <= rate * (IdleSeconds + 1)  BY DEF FillsWhileIdle
    <3> HIDE DEF rate
    <3> QED  BY <2>2, <3>1, <3>2, TimesMonotone
  <2>7. Scale * (rate * (IdleSeconds + 1)) = rate * (Scale * (IdleSeconds + 1))
        /\ Scale * bucket[b].capacity = bucket[b].capacity * Scale
    <3>1. IdleSeconds + 1 \in Int  BY <2>2
    <3> HIDE DEF rate
    <3> QED  BY <2>2, <3>1, TimesSwap
  <2>8. /\ rate * idle \in Nat /\ bucket[b].capacity * Scale \in Nat
        /\ rate * (Scale * (IdleSeconds + 1)) \in Nat
    BY <2>2, NatProduct
  <2>9. bucket[b].capacity * Scale <= rate * idle
    BY <2>5, <2>6, <2>7, <2>8
  <2>10. UncappedTokens(b) = bucket[b].tokens + rate * idle  BY DEF UncappedTokens
  <2> HIDE DEF rate, idle
  <2> QED  BY <2>2, <2>8, <2>9, <2>10
<1> QED
  BY <1>1, TypeInit, TypeStep, PTL DEF Spec, CleanupForgetsNothing

=============================================================================

-------------------------- MODULE RedisRateLimiter --------------------------
(***************************************************************************)
(* The rate limiter that gateway instances share through Redis: a sorted   *)
(* set of time stamps per key (RedisRateLimiter.cpp), asked for the global *)
(* key, the client's key and the client's key for the endpoint in turn by  *)
(* the callback that main.cpp installs. allowRequest sends four commands   *)
(* in a pipeline, which is no transaction: commands of other threads and   *)
(* instances, and time, come between them. A stamp is both member and      *)
(* score, so two requests of one millisecond are one member.               *)
(*                                                                         *)
(* External: Redis, with keys that expire, and the clocks of the instances *)
(* (here one clock, in ticks of a millisecond).                            *)
(*                                                                         *)
(* A definition that nothing uses, just before the one it varies, is a     *)
(* faulty variant: README.md says which property rejects it.               *)
(***************************************************************************)
EXTENDS Integers, Sequences, FiniteSets

CONSTANTS
  Workers,     \* threads of all instances that serve requests
  Clients,     \* addresses
  Endpoints,   \* paths with a limit of their own, here the same for all
  Elsewhere,   \* any other path
  Limits,      \* the limits configured: a function of some of the levels
  Buffer,      \* the second a key outlives its window, in ticks
  Timeout,     \* a pipeline ends at most this long after its clock was read
  RedisFails,  \* a call to Redis may fail
  Given,       \* keys the administrator gives to be reset
  MaxTime      \* bound on now

Levels == {"global", "ip", "ep"}
Limit == [max: Nat \ {0}, window: Nat \ {0}]

GlobalKey == <<"global">>
IPKey(c) == <<"ip", c>>
EPKey(c, e) == <<"ep", c, e>>

Keys == {GlobalKey} \cup {IPKey(c) : c \in Clients}
          \cup {EPKey(c, e) : c \in Clients, e \in Endpoints}
          \cup Given

ASSUME RedisAssumption ==
  /\ IsFiniteSet(Workers) /\ Workers # {}
  /\ DOMAIN Limits \subseteq Levels
  /\ \A l \in DOMAIN Limits : Limits[l] \in Limit
  /\ Buffer \in Nat \ {0}
  /\ Timeout \in Nat
  /\ RedisFails \in BOOLEAN
  /\ MaxTime \in Nat
  /\ Elsewhere \notin Endpoints

LevelOf(k) == k[1]
Quota(k) == Limits[LevelOf(k)].max
Window(k) == Limits[LevelOf(k)].window

Checked == {k \in Keys : LevelOf(k) \in DOMAIN Limits}

\* The keys a request is checked under, in order.
If(l, k) == IF l \in DOMAIN Limits THEN <<k>> ELSE <<>>
KeysOf(c, e) ==
  If("global", GlobalKey) \o If("ip", IPKey(c))
    \o (IF e \in Endpoints THEN If("ep", EPKey(c, e)) ELSE <<>>)

VARIABLES
  now,      \* milliseconds since the epoch
  members,  \* members[k]: the sorted set under key k
  expires,  \* expires[k]: when Redis drops k, or Never
  pc,       \* pc[w]: the command w's pipeline is at
  ahead,    \* ahead[w]: the keys w still has to check, the current one first
  stamp,    \* stamp[w]: timestamp
  count,    \* count[w]: current_count
  asked,    \* history: asked[k], stamps of the requests made under k since k was reset
  passed,   \* history: passed[k], stamps of those that found room
  seen,     \* history: seen[w], how many of asked lay in the window w counted
  spoiled   \* history: keys under which a call failed between ZADD and EXPIRE

store == <<members, expires>>
locals == <<pc, ahead, stamp, count, seen>>
vars == <<now, store, locals, asked, passed, spoiled>>

Never == 0

Init ==
  /\ now = 1
  /\ members = [k \in Keys |-> {}]
  /\ expires = [k \in Keys |-> Never]
  /\ pc = [w \in Workers |-> "idle"]
  /\ ahead = [w \in Workers |-> <<>>]
  /\ stamp = [w \in Workers |-> 0]
  /\ count = [w \in Workers |-> 0]
  /\ asked = [k \in Keys |-> {}]
  /\ passed = [k \in Keys |-> {}]
  /\ seen = [w \in Workers |-> 0]
  /\ spoiled = {}

-----------------------------------------------------------------------------
Goto(w, stage) == pc' = [pc EXCEPT ![w] = stage]
Key(w) == Head(ahead[w])

InPipeline(w) == pc[w] \in {"trim", "count", "add", "expire"}

Arrive(w) ==
  /\ pc[w] = "idle"
  /\ Goto(w, "next")
  /\ \E c \in Clients, e \in Endpoints \cup {Elsewhere} :
       ahead' = [ahead EXCEPT ![w] = KeysOf(c, e)]
  /\ UNCHANGED <<now, store, stamp, count, seen, asked, passed, spoiled>>

\* allowRequest reads the clock.
ReadClock(w) ==
  /\ pc[w] = "next"
  /\ ahead[w] # <<>>
  /\ stamp' = [stamp EXCEPT ![w] = now]
  /\ Goto(w, "trim")
  /\ UNCHANGED <<now, store, ahead, count, seen, asked, passed, spoiled>>

\* From the end of the window to the stamp, both included.
InWindow(w, stamps) == {t \in stamps : stamp[w] - Window(Key(w)) <= t /\ t <= stamp[w]}

Trimmed(w) == {t \in members[Key(w)] : t > stamp[w] - Window(Key(w))}

\* ZREMRANGEBYSCORE: Redis drops a key with its last member.
Trim(w) ==
  /\ pc[w] = "trim"
  /\ members' = [members EXCEPT ![Key(w)] = Trimmed(w)]
  /\ expires' = [expires EXCEPT ![Key(w)] = IF Trimmed(w) = {} THEN Never ELSE @]
  /\ Goto(w, "count")
  /\ UNCHANGED <<now, ahead, stamp, count, seen, asked, passed, spoiled>>

\* ZCOUNT
Count(w) ==
  /\ pc[w] = "count"
  /\ count' = [count EXCEPT ![w] = Cardinality(InWindow(w, members[Key(w)]))]
  /\ seen' = [seen EXCEPT ![w] = Cardinality(InWindow(w, asked[Key(w)]))]
  /\ Goto(w, "add")
  /\ UNCHANGED <<now, store, ahead, stamp, asked, passed, spoiled>>

HasRoomOffByOne(w) == count[w] + 1 < Quota(Key(w))

HasRoom(w) == count[w] < Quota(Key(w))

\* ZADD: also for a request that will be refused.
Add(w) ==
  /\ pc[w] = "add"
  /\ members' = [members EXCEPT ![Key(w)] = @ \cup {stamp[w]}]
  /\ asked' = [asked EXCEPT ![Key(w)] = @ \cup {stamp[w]}]
  /\ passed' = [passed EXCEPT ![Key(w)] = IF HasRoom(w) THEN @ \cup {stamp[w]} ELSE @]
  /\ Goto(w, "expire")
  /\ UNCHANGED <<now, expires, ahead, stamp, count, seen, spoiled>>

AdvanceWithoutClock(w) ==
  /\ ahead' = [ahead EXCEPT ![w] = Tail(ahead[w])]
  /\ Goto(w, "trim")
  /\ UNCHANGED <<stamp, count, seen>>

\* On to the next key, when the current one has room.
Advance(w) ==
  /\ ahead' = [ahead EXCEPT ![w] = Tail(ahead[w])]
  /\ Goto(w, "next")
  /\ UNCHANGED <<stamp, count, seen>>

LifetimeInMilliseconds(k) == 1

\* EXPIRE's argument: the window and a second.
Lifetime(k) == Window(k) + Buffer

\* EXPIRE, the last command, which does nothing to a key that is not there.
Expire(w) ==
  /\ pc[w] = "expire"
  /\ expires' = IF members[Key(w)] = {} THEN expires
                ELSE [expires EXCEPT ![Key(w)] = now + Lifetime(Key(w))]

\* The answers arrive, and the count of the second command decides.
Decide(w) ==
  /\ Expire(w)
  /\ IF HasRoom(w) THEN Advance(w) ELSE Goto(w, "refused") /\ UNCHANGED <<ahead, stamp, count, seen>>
  /\ UNCHANGED <<now, members, asked, passed, spoiled>>

\* Redis fails before one of the commands: the request is let through.
FailsOpen(w) ==
  /\ RedisFails
  /\ InPipeline(w)
  /\ Advance(w)
  /\ spoiled' = IF pc[w] = "expire" THEN spoiled \cup {Key(w)} ELSE spoiled
  /\ UNCHANGED <<now, store, asked, passed>>

\* Redis has done all four, and the answers are lost or late: likewise.
AnswersLost(w) ==
  /\ RedisFails
  /\ Expire(w)
  /\ Advance(w)
  /\ UNCHANGED <<now, members, asked, passed, spoiled>>

\* The callback returns: every key has room, or the last one has none (429).
Return(w) ==
  /\ pc[w] = "refused" \/ (pc[w] = "next" /\ ahead[w] = <<>>)
  /\ Goto(w, "idle")
  /\ ahead' = [ahead EXCEPT ![w] = <<>>]
  /\ stamp' = [stamp EXCEPT ![w] = 0]
  /\ count' = [count EXCEPT ![w] = 0]
  /\ seen' = [seen EXCEPT ![w] = 0]
  /\ UNCHANGED <<now, store, asked, passed, spoiled>>

\* resetKey, as the administrator names the key: DEL, whether it exists or not.
ResetKey(k) ==
  /\ members' = [members EXCEPT ![k] = {}]
  /\ expires' = [expires EXCEPT ![k] = Never]
  /\ asked' = [asked EXCEPT ![k] = {}]
  /\ passed' = [passed EXCEPT ![k] = {}]
  /\ UNCHANGED <<now, locals, spoiled>>

Dropped == {k \in Keys : expires[k] # Never /\ expires[k] <= now + 1}

(***************************************************************************)
(* Time passes, and Redis drops the keys whose time is over.               *)
(* socket_timeout ends a pipeline long before its window is over.          *)
(***************************************************************************)
Tick ==
  /\ now < MaxTime
  /\ \A w \in Workers : InPipeline(w) => now < stamp[w] + Timeout
  /\ now' = now + 1
  /\ members' = [k \in Keys |-> IF k \in Dropped THEN {} ELSE members[k]]
  /\ expires' = [k \in Keys |-> IF k \in Dropped THEN Never ELSE expires[k]]
  /\ UNCHANGED <<locals, asked, passed, spoiled>>

-----------------------------------------------------------------------------
AllowRequest(w) ==
  \/ ReadClock(w) \/ Trim(w) \/ Count(w) \/ Add(w) \/ Decide(w)
  \/ FailsOpen(w) \/ AnswersLost(w)

Next ==
  \/ \E w \in Workers : Arrive(w) \/ AllowRequest(w) \/ Return(w)
  \/ \E k \in Given : ResetKey(k)
  \/ Tick

Spec == Init /\ [][Next]_vars

-----------------------------------------------------------------------------
Stage == {"idle", "next", "trim", "count", "add", "expire", "refused"}
Checking == {"trim", "count", "add", "expire", "refused"}

\* Every variable keeps its type, and a worker at a command has a key.
TypeOK ==
  /\ now \in Nat \ {0}
  /\ members \in [Keys -> SUBSET Nat]
  /\ expires \in [Keys -> Nat]
  /\ pc \in [Workers -> Stage]
  /\ ahead \in [Workers -> Seq(Checked)]
  /\ stamp \in [Workers -> Nat]
  /\ count \in [Workers -> Nat]
  /\ seen \in [Workers -> Nat]
  /\ asked \in [Keys -> SUBSET Nat]
  /\ passed \in [Keys -> SUBSET Nat]
  /\ spoiled \subseteq Keys
  /\ \A w \in Workers : pc[w] \in Checking => ahead[w] # <<>>

(***************************************************************************)
(* A request is refused only if, when it was counted, at least max other   *)
(* requests (of different milliseconds) had been made under the key in its *)
(* window and since that very key was reset: whatever other instances      *)
(* trim, add or let expire between the commands of the pipeline. A reset   *)
(* by another name helps nobody: the dashboard gives the bare address,     *)
(* which is no key of the limiter, and says the client's full allowance is *)
(* restored (RateLimitResetPanel.tsx:65).                                  *)
(***************************************************************************)
RefusedOnlyWhenFull ==
  \A w \in Workers : pc[w] = "refused" => seen[w] >= Quota(Key(w))

\* The requests under k in the window after s that found room.
Passed(k, s) == {t \in passed[k] : s < t /\ t <= s + Window(k)}

(***************************************************************************)
(* Of the requests Redis was asked about, no window of the configured      *)
(* length admits more than max, counting those of one millisecond once,    *)
(* but for two per other worker: pipelines that overlap all count before   *)
(* any of them adds, and a worker that is late in the window counts after  *)
(* one whose clock is past it has trimmed what the window held. A call     *)
(* that fails admits its request uncounted, and one that fails between     *)
(* ZADD and EXPIRE leaves a key that may be dropped with newer requests.   *)
(***************************************************************************)
WindowBound ==
  \A k \in Checked \ spoiled, s \in 0..MaxTime :
    Cardinality(Passed(k, s)) <= Quota(k) + 2 * (Cardinality(Workers) - 1)
=============================================================================

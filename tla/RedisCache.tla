------------------------------ MODULE RedisCache ------------------------------
(***************************************************************************)
(* The Redis server as cache.service.ts shows it to the processes of the   *)
(* API: every call has a time limit, and a process whose call fails stays  *)
(* away from Redis for a while.  A call that timed out may still be        *)
(* executed, later than calls made after it, or never.                     *)
(***************************************************************************)
EXTENDS Naturals, FiniteSets

CONSTANTS
  Procs,      \* processes of the API, each with its own client
  MaxFaults,  \* bound on failures of any kind
  Null

ASSUME RedisAssumption == MaxFaults \in Nat

VARIABLES
  redis,    \* the value stored under each key, and whether it will expire
  offline,  \* processes with client = null and disabledUntil in the future
  strays,   \* commands that timed out and are still on their way
  faults    \* failures so far

redisVars == <<redis, offline, strays, faults>>

Missing == [val |-> Null, ttl |-> FALSE]

RedisInit(db) ==
  /\ redis = db
  /\ offline = {}
  /\ strays = {}
  /\ faults = 0

Command(op, keys, val) == [op |-> op, keys |-> keys, val |-> val]

Entry(c, e) ==
  CASE c.op = "get"    -> e
    [] c.op = "set"    -> [val |-> c.val, ttl |-> TRUE]
    [] c.op = "del"    -> Missing
    [] c.op = "incr"   -> [e EXCEPT !.val = IF @ = Null THEN 1 ELSE @ + 1]
    [] c.op = "expire" -> [e EXCEPT !.ttl = e # Missing]

\* What the server makes of a command.
Effect(c, db) == [k \in DOMAIN db |-> IF k \in c.keys THEN Entry(c, db[k]) ELSE db[k]]

\* getClient answers null: the call is skipped.
Skipped(p) == p \in offline /\ UNCHANGED redisVars

Executed(c) ==
  /\ redis' = Effect(c, redis)
  /\ UNCHANGED <<offline, strays, faults>>

\* handleRedisFailure: the call is given up, the command may still arrive.
Failed(p, c) ==
  /\ faults < MaxFaults
  /\ faults' = faults + 1
  /\ offline' = offline \union {p}
  /\ strays' = IF c.op = "get" THEN strays ELSE strays \union {c}
  /\ UNCHANGED redis

StrayArrives(c) ==
  /\ c \in strays
  /\ redis' = Effect(c, redis)
  /\ strays' = strays \ {c}
  /\ UNCHANGED <<offline, faults>>

\* The backoff is over and the next call connects again.
Reconnect(p) ==
  /\ p \in offline
  /\ offline' = offline \ {p}
  /\ UNCHANGED <<redis, strays, faults>>

Expire(k) ==
  /\ redis[k].ttl
  /\ redis' = [redis EXCEPT ![k] = Missing]
  /\ UNCHANGED <<offline, strays, faults>>

=============================================================================

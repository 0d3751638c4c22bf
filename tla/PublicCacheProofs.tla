-------------------------- MODULE PublicCacheProofs --------------------------
(***************************************************************************)
(* Proofs about PublicCache, for any number of processes, of concurrent    *)
(* requests and of failures.                                               *)
(***************************************************************************)
EXTENDS PublicCache, TLAPS

-----------------------------------------------------------------------------
(* Views and the changes that concern them.                                *)

\* What a query answers: for the tables it reads, the changes it saw.
Answer == UNION {[T -> SUBSET Changes] : T \in SUBSET Tables}

\* The answers of the first queries of a view, and those of all of them.
Part(v, got) ==
  /\ got \in Seq(Answer) /\ Len(got) <= Len(Queries[v])
  /\ \A i \in DOMAIN got : DOMAIN got[i] = Queries[v][i]
Whole(v, got) == Part(v, got) /\ Len(got) = Len(Queries[v])

\* A view takes at least one query, and its queries read tables.
LEMMA QueriesAreTables ==
  ASSUME NEW v \in Views
  PROVE  /\ Len(Queries[v]) \in Nat \ {0}
         /\ DOMAIN Queries[v] = 1..Len(Queries[v])
         /\ \A i \in DOMAIN Queries[v] : Queries[v][i] \subseteq Tables
<1>1. \A i \in DOMAIN Queries[v] : Queries[v][i] \subseteq Tables
  BY DEF Tables
<1>2. Queries[v] \in {findActive, findRestaurant, findMenuItems, findCatalog, findCategories,
                      findMenuItem, findPublicZones, findState, findCity, <<{"state"}>>}
  BY DEF Views, Queries
<1>3. Len(Queries[v]) \in Nat \ {0} /\ DOMAIN Queries[v] = 1..Len(Queries[v])
  BY <1>2 DEF findActive, findRestaurant, findMenuItems, findCatalog, findCategories,
              findMenuItem, findPublicZones, findState, findCity
<1> QED
  BY <1>1, <1>3

\* A change that writes a table of a view deletes the view, or nobody ever deletes the
\* view for it.
LEMMA DeletedOrUnnoticed ==
  ASSUME NEW v \in Views, NEW op \in Changes, NEW i \in DOMAIN Queries[v],
         NEW t \in Queries[v][i], t \in Writes[op], v \notin Deletes(op)
  PROVE  op \in Unnoticed(v)
<1> USE DEF Queries, Writes, Deletes, Changes, RestaurantChanges, MenuChanges, Unannounced,
            PlaceChanges, Unnoticed, MenuKeys, invalidateRestaurantPublicCache,
            invalidateRestaurantDeliveryCache, invalidateLocationsCache
<1>1. CASE v = "list"
  BY <1>1
<1>2. CASE v = "detail"
  BY <1>2 DEF findRestaurant, Card
<1>3. CASE v \in {"items", "catalog", "categories"}
  BY <1>3 DEF findMenuItems, findCatalog, findCategories
<1>4. CASE v \in {"menuItem", "zones"}
  BY <1>4 DEF findMenuItem, findPublicZones
<1>5. CASE v \in {"states", "state", "cities"}
  BY <1>5 DEF findState
<1>6. CASE v \in {"city", "neighborhoods"}
  BY <1>6 DEF findCity
<1> QED
  BY <1>1, <1>2, <1>3, <1>4, <1>5, <1>6 DEF Views

-----------------------------------------------------------------------------
(* What is stored, and what it lacks.                                      *)

Serving ==
  [pc : {"idle", "lookup", "load", "store", "delete"}, proc : Procs \union {Null},
   op : Changes \union {Null}, view : Views \union {Null}, got : Seq(Answer)]

\* Every stored view is whole.
RedisOK ==
  /\ DOMAIN redis = Keys /\ DOMAIN overtook = Keys
  /\ \A v \in Views : redis[v] # Missing => redis[v].ttl /\ Whole(v, redis[v].val)

\* A table holds changes that write it.
TableOK ==
  /\ table \in [Tables -> SUBSET Changes]
  /\ \A t \in Tables : \A op \in table[t] : t \in Writes[op]

\* A request has loaded part of its view, and all of it when it is to store it.
RequestOK(request) ==
  /\ request \in Serving
  /\ request.pc = "lookup" => request.view \in Views /\ request.got = <<>>
  /\ request.pc = "load" => /\ request.view \in Views /\ Part(request.view, request.got)
                            /\ Len(request.got) < Len(Queries[request.view])
  /\ request.pc = "store" => request.view \in Views /\ Whole(request.view, request.got)
  /\ request.pc = "delete" => request.op \in Changes

\* A command deletes, or stores a whole view.
CommandOK(c) ==
  /\ c.op \in {"set", "del"} /\ c.keys \subseteq Keys
  /\ c.op = "set" => \A v \in c.keys : v \in Views /\ Whole(v, c.val)

CacheTypeOK ==
  /\ RedisOK
  /\ TableOK
  /\ up \in [Requests -> Serving] /\ \A r \in Requests : RequestOK(up[r])
  /\ \A c \in strays : CommandOK(c)

\* A request's next deletion is not forgotten when the request goes on.
Remembers == \A op \in Changes : Pending(op) => Pending(op)' \/ op \in unswept'

FreshView(v) ==
  redis[v] # Missing =>
    \A op \in Lacks(redis[v].val) : op \in Unnoticed(v) \union unswept \union overtook[v] \/ Pending(op)

CacheInv == CacheTypeOK /\ \A v \in Views : FreshView(v)

\* A command is executed: the views it does not concern stay as fresh as they were, the
\* views it deletes are gone, and what a stored view lacks is pending or on record.
LEMMA CommandKeepsFresh ==
  ASSUME CacheInv, NEW c, c.op \in {"set", "del"}, Overtaken(c),
         redis' = Effect(c, redis), table' = table, unswept \subseteq unswept', Remembers,
         NEW v \in Views
  PROVE  FreshView(v)'
<1>1. \A got : Lacks(got)' = Lacks(got) /\ Lacks(got) \subseteq Changes
  BY DEF Lacks
<1>2. v \in Keys /\ redis'[v] = IF v \in c.keys THEN Entry(c, redis[v]) ELSE redis[v]
  BY DEF CacheInv, CacheTypeOK, RedisOK, Effect, Keys
<1>3. CASE v \notin c.keys
  <2>1. redis'[v] = redis[v] /\ overtook'[v] = overtook[v]
    BY <1>2, <1>3 DEF Overtaken, CacheInv, CacheTypeOK, RedisOK
  <2> QED
    BY <1>1, <2>1 DEF CacheInv, FreshView, Remembers
<1>4. CASE v \in c.keys /\ c.op = "del"
  BY <1>2, <1>4 DEF Entry, FreshView
<1>5. CASE v \in c.keys /\ c.op = "set"
  <2>1. redis'[v].val = c.val
    BY <1>2, <1>5 DEF Entry
  <2>2. overtook'[v] = {op \in Lacks(c.val) : ~Pending(op)}
    BY <1>2, <1>5 DEF Overtaken, CacheInv, CacheTypeOK, RedisOK
  <2> QED
    BY <1>1, <2>1, <2>2 DEF FreshView, Remembers
<1> QED
  BY <1>3, <1>4, <1>5
\* An executed command leaves whole views behind.
LEMMA CommandKeepsRedis ==
  ASSUME RedisOK, NEW c, CommandOK(c), Overtaken(c), redis' = Effect(c, redis)
  PROVE  RedisOK'
<1>1. DOMAIN redis' = Keys /\ DOMAIN overtook' = Keys
  BY DEF RedisOK, Effect, Overtaken
<1>2. ASSUME NEW v \in Views, redis'[v] # Missing
      PROVE  redis'[v].ttl /\ Whole(v, redis'[v].val)
  <2>1. redis'[v] = IF v \in c.keys THEN Entry(c, redis[v]) ELSE redis[v]
    BY DEF RedisOK, Effect, Keys
  <2>2. CASE v \notin c.keys
    BY <1>2, <2>1, <2>2 DEF RedisOK
  <2>3. CASE v \in c.keys
    <3>1. redis'[v] = [val |-> c.val, ttl |-> TRUE] /\ Whole(v, c.val)
      BY <1>2, <2>1, <2>3 DEF Entry, CommandOK
    <3> QED
      BY <3>1
  <2> QED
    BY <2>2, <2>3
<1> QED
  BY <1>1, <1>2 DEF RedisOK

\* While nothing is executed and nothing committed, a stored view stays as fresh.
LEMMA QuietKeepsFresh ==
  ASSUME CacheInv, UNCHANGED <<table, overtook>>, DOMAIN redis' = Keys,
         \A v \in Views : redis'[v] = redis[v], unswept \subseteq unswept', Remembers
  PROVE  RedisOK' /\ TableOK' /\ \A v \in Views : FreshView(v)'
<1>1. \A got : Lacks(got)' = Lacks(got) /\ Lacks(got) \subseteq Changes
  BY DEF Lacks
<1>2. RedisOK' /\ TableOK'
  BY DEF CacheInv, CacheTypeOK, RedisOK, TableOK
<1> QED
  BY <1>1, <1>2 DEF CacheInv, FreshView, Remembers

\* A request that moves on with its change still to be announced forgets nothing.
LEMMA MoveRemembers ==
  ASSUME NEW r \in Requests, \A q \in Requests : q # r => up'[q] = up[q],
         up'[r].op = up[r].op \/ up[r].op \in unswept' \union {Null}
  PROVE  Remembers
BY CacheAssumption DEF Remembers, Pending

\* One request moves; a failed command may be on its way still.
LEMMA OneMoves ==
  ASSUME CacheTypeOK, NEW r \in Requests, NEW request, RequestOK(request),
         up' = [up EXCEPT ![r] = request], RedisOK', TableOK',
         \A c \in strays' : c \in strays \/ CommandOK(c)
  PROVE  CacheTypeOK'
<1>1. up' \in [Requests -> Serving] /\ \A q \in Requests : up'[q] = request \/ up'[q] = up[q]
  BY DEF CacheTypeOK, RequestOK
<1> QED
  BY <1>1 DEF CacheTypeOK

-----------------------------------------------------------------------------
(* The steps of a request.                                                 *)

\* The idle slot is a value of a slot.
LEMMA IdleIsServing == Idle \in Serving
BY DEF Idle, Serving

\* A reader goes on to its next query or its store, or ends.
LEMMA NextIsOK ==
  ASSUME NEW request, RequestOK(request)
  PROVE  /\ RequestOK(Idle)
         /\ request.pc = "lookup" => RequestOK([request EXCEPT !.pc = "load"])
         /\ request.op # Null => RequestOK([request EXCEPT !.pc = "delete"])
<1>1. RequestOK(Idle)
  BY DEF RequestOK, Idle, Serving
<1>2. ASSUME request.pc = "lookup" PROVE RequestOK([request EXCEPT !.pc = "load"])
  <2>1. request.view \in Views /\ Part(request.view, <<>>) /\ Len(<<>>) < Len(Queries[request.view])
    BY <1>2, QueriesAreTables DEF RequestOK, Part
  <2> QED
    BY <1>2, <2>1 DEF RequestOK, Serving
<1>3. ASSUME request.op # Null PROVE RequestOK([request EXCEPT !.pc = "delete"])
  BY <1>3 DEF RequestOK, Serving
<1> QED
  BY <1>1, <1>2, <1>3

\* A request looks for a view.
LEMMA FindKeeps ==
  ASSUME CacheInv, NEW r \in Requests, NEW p \in Procs, NEW v \in Views, Find(r, p, v)
  PROVE  CacheInv'
<1> DEFINE request == [Idle EXCEPT !.pc = "lookup", !.proc = p, !.view = v]
<1>1. up[r] = Idle /\ up' = [up EXCEPT ![r] = request] /\ request.op = Idle.op
      /\ UNCHANGED <<redisVars, table, overtook, unswept>>
  BY DEF Find, Enter, Idle
<1>2. RequestOK(request)
  <2>1. PICK i \in Serving : i = Idle
    BY IdleIsServing
  <2>2. request = [i EXCEPT !.pc = "lookup", !.proc = p, !.view = v] /\ i.got = <<>>
    BY <2>1 DEF Idle
  <2>3. request \in Serving /\ request.pc = "lookup" /\ request.view = v /\ request.got = <<>>
    BY <2>2 DEF Serving
  <2> HIDE DEF request
  <2> QED
    BY <2>3 DEF RequestOK
<1>3. Remembers
  BY <1>1, MoveRemembers DEF Idle, CacheInv, CacheTypeOK
<1> HIDE DEF request
<1> QED
  BY <1>1, <1>2, <1>3, OneMoves, QuietKeepsFresh
     DEF CacheInv, CacheTypeOK, RedisOK, redisVars

\* A request looks its view up.
LEMMA LookupKeeps ==
  ASSUME CacheInv, NEW r \in Requests, Lookup(r)
  PROVE  CacheInv'
<1>1. /\ up[r].pc = "lookup" /\ RequestOK(up[r]) /\ strays' = strays
      /\ UNCHANGED <<table, overtook, unswept>>
  BY DEF Lookup, CacheInv, CacheTypeOK, Executed, Failed, Skipped, Command, redisVars
<1>2. DOMAIN redis' = Keys /\ \A v \in Views : redis'[v] = redis[v]
  <2>1. CASE Executed(Command("get", {up[r].view}, Null))
    BY <2>1 DEF Executed, Effect, Entry, Command, Keys, CacheInv, CacheTypeOK, RedisOK
  <2>2. CASE redis' = redis
    BY <2>2 DEF CacheInv, CacheTypeOK, RedisOK
  <2> QED
    BY <2>1, <2>2 DEF Lookup, Failed, Skipped, redisVars
<1>3. Leave(r) \/ Goto(r, "load")
  BY DEF Lookup
<1>4. PICK request : /\ up' = [up EXCEPT ![r] = request] /\ RequestOK(request)
                     /\ request.op = up[r].op
  <2>1. RequestOK(Idle) /\ RequestOK([up[r] EXCEPT !.pc = "load"])
        /\ (up[r].op # Null => RequestOK([up[r] EXCEPT !.pc = "delete"]))
    BY <1>1, NextIsOK
  <2>2. Idle.op = Null /\ [up[r] EXCEPT !.pc = "load"].op = up[r].op
        /\ [up[r] EXCEPT !.pc = "delete"].op = up[r].op
    BY <1>1 DEF Idle, RequestOK, Serving
  <2> QED
    BY <1>3, <2>1, <2>2 DEF Leave, Goto
<1>5. Remembers
  BY <1>4, MoveRemembers DEF CacheInv, CacheTypeOK
<1> QED
  BY <1>1, <1>2, <1>4, <1>5, OneMoves, QuietKeepsFresh DEF CacheInv, CacheTypeOK

\* A request runs the next query of its view.
LEMMA LoadKeeps ==
  ASSUME CacheInv, NEW r \in Requests, Load(r)
  PROVE  CacheInv'
<1> DEFINE v == up[r].view
           n == Len(up[r].got) + 1
           got == Append(up[r].got, [t \in Queries[v][n] |-> table[t]])
           pc == IF n = Len(Queries[v]) THEN "store" ELSE "load"
           request == [up[r] EXCEPT !.got = got, !.pc = pc]
<1>1. /\ up[r].pc = "load" /\ RequestOK(up[r]) /\ up' = [up EXCEPT ![r] = request]
      /\ UNCHANGED <<redisVars, table, overtook, unswept>>
  BY DEF Load, CacheInv, CacheTypeOK
<1>2. v \in Views /\ Part(v, up[r].got) /\ n \in 1..Len(Queries[v]) /\ up[r] \in Serving
  BY <1>1, QueriesAreTables DEF RequestOK, Part
<1>3. [t \in Queries[v][n] |-> table[t]] \in Answer
  <2>1. Queries[v][n] \subseteq Tables /\ \A t \in Tables : table[t] \in SUBSET Changes
    BY <1>2, QueriesAreTables DEF CacheInv, CacheTypeOK, TableOK
  <2> QED
    BY <2>1 DEF Answer
<1>4. got \in Seq(Answer) /\ Part(v, got) /\ Len(got) = n
  BY <1>2, <1>3, QueriesAreTables DEF Part
<1>5. pc \in {"load", "store"} /\ (pc = "store" <=> n = Len(Queries[v]))
  OBVIOUS
<1> HIDE DEF got, pc
<1>6. /\ request \in Serving /\ request.view = v /\ request.op = up[r].op
      /\ request.got = got /\ request.pc = pc
  BY <1>2, <1>4, <1>5 DEF Serving
<1> HIDE DEF request
<1>7. RequestOK(request)
  BY <1>2, <1>4, <1>5, <1>6, QueriesAreTables DEF RequestOK, Whole
<1>8. Remembers
  BY <1>1, <1>6, MoveRemembers DEF CacheInv, CacheTypeOK
<1> QED
  BY <1>1, <1>7, <1>8, OneMoves, QuietKeepsFresh
     DEF CacheInv, CacheTypeOK, RedisOK, redisVars

\* A request stores its view; if Redis fails it may be stored later.
LEMMA StoreKeeps ==
  ASSUME CacheInv, NEW r \in Requests, Store(r)
  PROVE  CacheInv'
<1> DEFINE c == Command("set", {up[r].view}, up[r].got)
<1>1. up[r].pc = "store" /\ RequestOK(up[r]) /\ Leave(r) /\ UNCHANGED <<table, unswept>>
  BY DEF Store, CacheInv, CacheTypeOK
<1>2. PICK request : /\ up' = [up EXCEPT ![r] = request] /\ RequestOK(request)
                     /\ request.op = up[r].op
  <2>1. RequestOK(Idle) /\ (up[r].op # Null => RequestOK([up[r] EXCEPT !.pc = "delete"]))
    BY <1>1, NextIsOK
  <2>2. Idle.op = Null /\ [up[r] EXCEPT !.pc = "delete"].op = up[r].op
    BY <1>1 DEF Idle, RequestOK, Serving
  <2> QED
    BY <1>1, <2>1, <2>2 DEF Leave, Goto
<1>3. Remembers
  BY <1>2, MoveRemembers DEF CacheInv, CacheTypeOK
<1>4. CommandOK(c) /\ c.op = "set"
  BY <1>1 DEF CommandOK, Command, RequestOK, Keys
<1>5. \A d \in strays' : d \in strays \/ CommandOK(d)
  BY <1>4 DEF Store, Executed, Failed, Skipped, redisVars
<1>6. TableOK'
  BY <1>1 DEF CacheInv, CacheTypeOK, TableOK
<1>7. CASE Executed(c) /\ Overtaken(c)
  <2>1. RedisOK' /\ \A v \in Views : FreshView(v)'
    BY <1>1, <1>3, <1>4, <1>7, CommandKeepsRedis, CommandKeepsFresh
       DEF Executed, CacheInv, CacheTypeOK
  <2> QED
    BY <1>2, <1>5, <1>6, <2>1, OneMoves DEF CacheInv
<1>8. CASE redis' = redis /\ overtook' = overtook
  BY <1>1, <1>2, <1>3, <1>5, <1>8, OneMoves, QuietKeepsFresh
     DEF CacheInv, CacheTypeOK, RedisOK
<1> QED
  BY <1>7, <1>8 DEF Store, Failed, Skipped, redisVars

\* A change is committed: the views that show its tables lack it now, but it is going to
\* delete them, or nobody ever does.
LEMMA CommitKeeps ==
  ASSUME CacheInv, NEW r \in Requests, NEW p \in Procs, NEW op \in Changes, Commit(r, p, op)
  PROVE  CacheInv'
<1>1. /\ table' = [t \in Tables |-> IF t \in Writes[op] THEN table[t] \union {op} ELSE table[t]]
      /\ UNCHANGED <<redis, strays, overtook, unswept>>
  BY DEF Commit, redisVars
<1>2. PICK request : /\ up' = [up EXCEPT ![r] = request] /\ RequestOK(request)
                     /\ request.op = IF Deletes(op) = {} THEN Null ELSE op
  <2>0. op = "replaceOpeningHours" => Deletes(op) # {}
    <3>1. op = "replaceOpeningHours" => "bareLists" \in Deletes(op)
      BY DEF Deletes, RestaurantChanges, PlaceChanges, invalidateRestaurantPublicCache
    <3> QED
      BY <3>1
  <2>1. CASE Deletes(op) = {}
    <3>1. up[r] = Idle /\ up' = up
      BY <2>0, <2>1 DEF Commit
    <3>2. up' = [up EXCEPT ![r] = Idle]
      BY <3>1 DEF CacheInv, CacheTypeOK
    <3>3. RequestOK(Idle) /\ Idle.op = Null
      BY IdleIsServing DEF RequestOK, Idle
    <3> QED
      BY <2>1, <3>2, <3>3
  <2>2. CASE Deletes(op) # {} /\ op = "replaceOpeningHours"
    <3> DEFINE request == [Idle EXCEPT !.pc = "lookup", !.proc = p, !.op = op, !.view = "detail"]
    <3>1. up' = [up EXCEPT ![r] = request]
      BY <2>2 DEF Commit, Enter
    <3>2. \A i \in Serving : LET j == [i EXCEPT !.pc = "lookup", !.proc = p, !.op = op, !.view = "detail"]
                             IN  /\ j \in Serving /\ j.pc = "lookup" /\ j.op = op
                                 /\ j.view = "detail" /\ j.got = i.got
      BY DEF Serving, Views, Queries
    <3>3. RequestOK(request) /\ request.op = op
      <4>1. request \in Serving /\ request.pc = "lookup" /\ request.op = op
            /\ request.view = "detail" /\ request.got = Idle.got
        BY <3>2, IdleIsServing
      <4> HIDE DEF request
      <4> QED
        BY <4>1 DEF RequestOK, Idle, Views, Queries
    <3> HIDE DEF request
    <3> QED
      BY <2>2, <3>1, <3>3
  <2>3. CASE Deletes(op) # {} /\ op # "replaceOpeningHours"
    <3> DEFINE request == [Idle EXCEPT !.pc = "delete", !.proc = p, !.op = op]
    <3>1. up' = [up EXCEPT ![r] = request]
      BY <2>3 DEF Commit, Enter
    <3>2. \A i \in Serving : LET j == [i EXCEPT !.pc = "delete", !.proc = p, !.op = op]
                             IN  j \in Serving /\ j.pc = "delete" /\ j.op = op
      BY DEF Serving
    <3>3. request \in Serving /\ request.pc = "delete" /\ request.op = op
      BY <3>2, IdleIsServing
    <3> HIDE DEF request
    <3>4. RequestOK(request)
      BY <3>3 DEF RequestOK
    <3> QED
      BY <2>3, <3>1, <3>3, <3>4
  <2> QED
    BY <2>1, <2>2, <2>3
<1>3. up[r].op = Null
  BY DEF Commit, Enter, Idle
<1>4. RedisOK' /\ TableOK'
  BY <1>1 DEF CacheInv, CacheTypeOK, RedisOK, TableOK
<1>5. Remembers /\ (Deletes(op) # {} => Pending(op)')
  <2>1. Remembers
    BY <1>2, <1>3, MoveRemembers DEF CacheInv, CacheTypeOK
  <2> QED
    BY <1>2, <2>1 DEF Pending, CacheInv, CacheTypeOK
<1>6. ASSUME NEW v \in Views PROVE FreshView(v)'
  <2> SUFFICES ASSUME redis[v] # Missing, NEW d \in Changes, d \in Lacks(redis[v].val)'
               PROVE  d \in Unnoticed(v) \union unswept \union overtook[v] \/ Pending(d)'
    BY <1>1 DEF FreshView, Lacks
  <2> DEFINE got == redis[v].val
  <2>1. Whole(v, got)
    BY DEF CacheInv, CacheTypeOK, RedisOK
  <2>0. PICK i \in DOMAIN got : \E t \in DOMAIN got[i] : d \in table'[t] \ got[i][t]
    BY <1>1 DEF Lacks
  <2>2. PICK t \in DOMAIN got[i] : d \in table'[t] \ got[i][t]
    BY <2>0
  <2>3. i \in DOMAIN Queries[v] /\ t \in Queries[v][i] /\ t \in Tables
    BY <2>1, <2>2, QueriesAreTables DEF Whole, Part
  <2> HIDE DEF got
  <2>4. CASE d \in table[t]
    <3>1. d \in Lacks(got)
      BY <2>2, <2>4 DEF Lacks
    <3> QED
      BY <1>1, <1>5, <3>1 DEF CacheInv, FreshView, Remembers, got
  <2>5. CASE d \notin table[t]
    <3>1. d = op /\ t \in Writes[op]
      BY <1>1, <2>2, <2>3, <2>5
    <3> QED
      BY <1>5, <2>3, <3>1, DeletedOrUnnoticed
  <2> QED
    BY <2>4, <2>5
<1> QED
  BY <1>1, <1>2, <1>4, <1>6, OneMoves DEF CacheInv

\* A change deletes the views that may lack it; those it leaves are never deleted for it.
LEMMA InvalidateKeeps ==
  ASSUME CacheInv, NEW r \in Requests, Invalidate(r)
  PROVE  CacheInv'
<1> DEFINE op == up[r].op
           c == Command("del", Deletes(op), Null)
<1>1. /\ up[r].pc = "delete" /\ op \in Changes /\ up' = [up EXCEPT ![r] = Idle]
      /\ table' = table
  BY DEF Invalidate, CacheInv, CacheTypeOK, RequestOK
<1>2. CommandOK(c) /\ c.op = "del" /\ c.keys = Deletes(op)
  BY <1>1 DEF Command, CommandOK, Deletes, Keys, Views, Queries, invalidateRestaurantPublicCache,
     invalidateRestaurantDeliveryCache, invalidateLocationsCache, MenuKeys, PlaceChanges
<1>3. \A d \in strays' : d \in strays \/ CommandOK(d)
  BY <1>2 DEF Invalidate, Executed, Failed, Skipped, redisVars
<1>4. TableOK'
  BY <1>1 DEF CacheInv, CacheTypeOK, TableOK
<1>5. CASE Executed(c) /\ Overtaken(c) /\ UNCHANGED unswept
  <2>1. RedisOK'
    BY <1>2, <1>5, CommandKeepsRedis DEF Executed, CacheInv, CacheTypeOK
  <2>2. ASSUME NEW v \in Views PROVE FreshView(v)'
    <3>1. v \in Keys /\ redis'[v] = IF v \in Deletes(op) THEN Missing ELSE redis[v]
      BY <1>2, <1>5 DEF Executed, Effect, Entry, Keys, CacheInv, CacheTypeOK, RedisOK
    <3>2. CASE v \in Deletes(op)
      BY <3>1, <3>2 DEF FreshView
    <3>3. CASE v \notin Deletes(op)
      <4>1. redis'[v] = redis[v] /\ overtook'[v] = overtook[v]
        BY <1>2, <1>5, <3>1, <3>3 DEF Overtaken, CacheInv, CacheTypeOK, RedisOK
      <4> SUFFICES ASSUME redis[v] # Missing, NEW d \in Changes, d \in Lacks(redis[v].val)
                   PROVE  d \in Unnoticed(v) \union unswept \union overtook[v] \/ Pending(d)'
        BY <1>1, <1>5, <4>1 DEF FreshView, Lacks
      <4>2. CASE d = op
        <5> DEFINE got == redis[v].val
        <5>1. Whole(v, got)
          BY DEF CacheInv, CacheTypeOK, RedisOK
        <5>0. PICK i \in DOMAIN got : \E t \in DOMAIN got[i] : d \in table[t]
          BY DEF Lacks
        <5>2. PICK t \in DOMAIN got[i] : d \in table[t]
          BY <5>0
        <5>3. i \in DOMAIN Queries[v] /\ t \in Queries[v][i] /\ t \in Tables
          BY <5>1, <5>2, QueriesAreTables DEF Whole, Part
        <5>4. t \in Writes[op]
          BY <4>2, <5>2, <5>3 DEF CacheInv, CacheTypeOK, TableOK
        <5> QED
          BY <1>1, <3>3, <4>2, <5>3, <5>4, DeletedOrUnnoticed
      <4>3. CASE d # op
        <5>1. Pending(d) => Pending(d)'
          BY <1>1, <4>3 DEF Pending, CacheInv, CacheTypeOK
        <5> QED
          BY <5>1 DEF CacheInv, FreshView
      <4> QED
        BY <4>2, <4>3
    <3> QED
      BY <3>2, <3>3
  <2> QED
    BY <1>1, <1>3, <1>4, <2>1, <2>2, NextIsOK, OneMoves DEF CacheInv, CacheTypeOK
<1>6. CASE redis' = redis /\ overtook' = overtook /\ unswept' = unswept \union {op}
  <2>1. Remembers
    BY <1>1, <1>6, MoveRemembers DEF CacheInv, CacheTypeOK
  <2>2. RequestOK(Idle)
    BY NextIsOK DEF CacheInv, CacheTypeOK
  <2> QED
    BY <1>1, <1>3, <1>4, <1>6, <2>1, <2>2, OneMoves, QuietKeepsFresh
       DEF CacheInv, CacheTypeOK, RedisOK
<1> QED
  BY <1>5, <1>6 DEF Invalidate, Failed, Skipped, redisVars

\* A request stops; its change is on record as one whose deletion never came.
LEMMA StopKeeps ==
  ASSUME CacheInv, NEW r \in Requests, Stop(r)
  PROVE  CacheInv'
<1>1. /\ up' = [up EXCEPT ![r] = Idle] /\ UNCHANGED <<redis, strays, table, overtook>>
      /\ unswept' = IF up[r].op = Null THEN unswept ELSE unswept \union {up[r].op}
  BY DEF Stop
<1>2. Remembers
  BY <1>1, MoveRemembers DEF CacheInv, CacheTypeOK
<1>3. RequestOK(Idle)
  BY NextIsOK DEF CacheInv, CacheTypeOK
<1> QED
  BY <1>1, <1>2, <1>3, OneMoves, QuietKeepsFresh DEF CacheInv, CacheTypeOK, RedisOK

-----------------------------------------------------------------------------
(* Time and failures.                                                      *)

\* A view expires, a process is back on, or a command arrives late.
LEMMA TimeKeeps ==
  ASSUME CacheInv,
         \/ \E v \in Views : ViewExpires(v)
         \/ \E p \in Procs : BackOn(p)
         \/ \E c \in strays : Straggler(c)
  PROVE  CacheInv'
<1>1. UNCHANGED <<table, up, unswept>> /\ strays' \subseteq strays
  BY DEF ViewExpires, Expire, BackOn, Reconnect, Straggler, StrayArrives
<1>2. Remembers
  BY <1>1 DEF Remembers, Pending
<1>3. CASE \E c \in strays : Straggler(c)
  <2>1. PICK c \in strays : /\ CommandOK(c) /\ Overtaken(c) /\ redis' = Effect(c, redis)
    BY <1>3 DEF Straggler, StrayArrives, CacheInv, CacheTypeOK
  <2>2. RedisOK' /\ \A v \in Views : FreshView(v)'
    BY <1>1, <1>2, <2>1, CommandKeepsRedis, CommandKeepsFresh
       DEF CommandOK, CacheInv, CacheTypeOK
  <2> QED
    BY <1>1, <2>2 DEF CacheInv, CacheTypeOK, TableOK
<1>4. CASE \E v \in Views : ViewExpires(v)
  <2>1. PICK v \in Views : /\ redis' = [redis EXCEPT ![v] = Missing]
                           /\ overtook' = [overtook EXCEPT ![v] = {}]
    BY <1>4 DEF ViewExpires, Expire
  <2>2. /\ DOMAIN redis' = Keys /\ DOMAIN overtook' = Keys /\ redis'[v] = Missing
        /\ \A w \in Views : w # v => redis'[w] = redis[w] /\ overtook'[w] = overtook[w]
    BY <2>1 DEF CacheInv, CacheTypeOK, RedisOK, Keys
  <2>3. RedisOK'
    BY <2>2 DEF CacheInv, CacheTypeOK, RedisOK
  <2>4. \A got : Lacks(got)' = Lacks(got)
    BY <1>1 DEF Lacks
  <2>5. \A w \in Views : FreshView(w)'
    BY <1>1, <2>2, <2>4 DEF CacheInv, FreshView, Pending
  <2> QED
    BY <1>1, <2>3, <2>5 DEF CacheInv, CacheTypeOK, TableOK
<1>5. CASE \E p \in Procs : BackOn(p)
  <2>1. UNCHANGED <<redis, overtook, strays>>
    BY <1>5 DEF BackOn, Reconnect
  <2> QED
    BY <1>1, <1>2, <2>1, QuietKeepsFresh DEF CacheInv, CacheTypeOK, RedisOK
<1> QED
  BY <1>3, <1>4, <1>5

\* However readers, changes and failures of Redis interleave, a cached view will expire,
\* and shows every change but those nobody deletes it for, those about to, those whose
\* deletion failed and those that overtook the reader.
THEOREM FreshHolds == Spec => []FreshUnlessKnown
<1>1. Init => CacheInv
  <2> SUFFICES ASSUME Init PROVE CacheInv
    OBVIOUS
  <2>1. RequestOK(Idle)
    BY IdleIsServing DEF RequestOK, Idle
  <2>2. \A v \in Views : redis[v] = Missing
    BY DEF Init, RedisInit, Keys
  <2>3. RedisOK /\ TableOK /\ strays = {}
    BY <2>2 DEF Init, RedisInit, RedisOK, TableOK
  <2>4. up = [r \in Requests |-> Idle]
    BY DEF Init
  <2> QED
    BY <2>1, <2>2, <2>3, <2>4, IdleIsServing DEF CacheInv, CacheTypeOK, FreshView
<1>2. CacheInv /\ [Next]_vars => CacheInv'
  <2> SUFFICES ASSUME CacheInv, [Next]_vars PROVE CacheInv'
    OBVIOUS
  <2>1. CASE UNCHANGED vars
    <3>1. UNCHANGED <<redis, strays, table, up, overtook, unswept>>
      BY <2>1 DEF vars, redisVars
    <3>2. Remembers
      BY <3>1 DEF Remembers, Pending
    <3> QED
      BY <3>1, <3>2, QuietKeepsFresh DEF CacheInv, CacheTypeOK, RedisOK
  <2> QED
    BY <2>1, FindKeeps, LookupKeeps, LoadKeeps, StoreKeeps, CommitKeeps, InvalidateKeeps, StopKeeps,
       TimeKeeps DEF Next
<1>3. CacheInv => FreshUnlessKnown
  BY DEF CacheInv, CacheTypeOK, RedisOK, FreshView, Whole, FreshUnlessKnown
<1> QED
  BY <1>1, <1>2, <1>3, PTL DEF Spec

=============================================================================

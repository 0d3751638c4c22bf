-------------------------- MODULE LoginSessionsProofs --------------------------
(***************************************************************************)
(* Proofs about LoginSessions: for any number of processes, accounts,      *)
(* addresses, sessions and requests in flight, any limits, and any number  *)
(* of failures of Redis and of the processes.                              *)
(***************************************************************************)
EXTENDS LoginSessions, FiniteSetTheorems, TLAPS

Ops == {"get", "set", "del", "incr", "expire"}
Pcs == {"blocked", "ip", "target", "find", "count", "block", "clear", "unblock", "session",
        "logout"} \union Refreshing
LoginPcs == {"blocked", "ip", "target", "find", "count", "block", "clear", "unblock", "session"}
Values == Nat \union {Null}

-----------------------------------------------------------------------------
(* Keys.                                                                   *)

\* Keys of different kinds differ, and a key tells what it was made of.
LEMMA KeysDiffer ==
  /\ \A u, v \in Users, i, j \in Ips :
       /\ FailKey(u, i) = FailKey(v, j) => u = v /\ i = j
       /\ BlockKey(u, i) = BlockKey(v, j) => u = v /\ i = j
  /\ \A s, t \in Sessions : SessionKey(s) = SessionKey(t) => s = t
  /\ \A s \in Sessions : SessionKey(s)[2] = s
BY DEF FailKey, BlockKey, SessionKey

\* Keys of different kinds differ.
LEMMA KindsDiffer ==
  /\ \A k \in LimitKeys : k[1] \in {"ip", "target"}
  /\ \A u, i : FailKey(u, i)[1] = "fail" /\ BlockKey(u, i)[1] = "block"
  /\ \A s : SessionKey(s)[1] = "session"
BY DEF LimitKeys, IpKey, TargetKey, FailKey, BlockKey, SessionKey

\* The keys there are.
LEMMA KeysAre ==
  /\ \A route \in Routes, i \in Ips : IpKey(route, i) \in LimitKeys
  /\ \A route \in Routes, u \in Users : TargetKey(route, u) \in LimitKeys
  /\ \A u \in Users, i \in Ips : FailKey(u, i) \in Counters /\ BlockKey(u, i) \in Blocks
  /\ \A s \in Sessions : SessionKey(s) \in Keys
  /\ LimitKeys \subseteq Counters /\ Counters \subseteq Keys /\ Blocks \subseteq Keys
BY DEF LimitKeys, Counters, Blocks, Keys

\* A session's key is no counter and no block, a block no counter.
LEMMA KindsApart ==
  /\ \A s \in Sessions : SessionKey(s) \notin Counters /\ SessionKey(s) \notin Blocks
  /\ \A k \in Blocks : k \notin Counters
  /\ \A u \in Users, i \in Ips : FailKey(u, i) \notin LimitKeys
<1>1. \A k \in Counters : k[1] \in {"ip", "target", "fail"}
  BY KindsDiffer DEF Counters
<1>2. \A k \in Blocks : k[1] = "block"
  BY KindsDiffer DEF Blocks
<1> QED
  BY <1>1, <1>2, KindsDiffer

-----------------------------------------------------------------------------
(* Commands and requests.                                                  *)

\* A call of the store names one key.
LEMMA OneKey ==
  ASSUME NEW r, NEW k, up[r].cmd.keys = {k}
  PROVE  Key(r) = k
BY DEF Key

\* A command on one key has the parts it was made of.
LEMMA CommandIs ==
  ASSUME NEW op \in Ops, NEW k \in Keys, NEW v \in Values
  PROVE  /\ Command(op, {k}, v) \in Call
         /\ Command(op, {k}, v).op = op
         /\ Command(op, {k}, v).keys = {k}
         /\ Command(op, {k}, v).val = v
BY DEF Command, Call, Ops, Values

\* What a request that is served looks like at each step of its handler.
Proper(x) ==
  /\ x.pc \in {"find", "user"} <=> x.at = "query"
  /\ x.pc \in LoginPcs => x.ip \in Ips /\ x.route \in Routes
  /\ x.pc \in Refreshing \union {"logout"} => x.token \in Tokens
  /\ x.pc = "blocked" => /\ x.cmd = Command("get", {BlockKey(x.user, x.ip)}, Null)
                         /\ x.route = "login"
  /\ x.pc = "ip" => x.cmd = Command("incr", {IpKey(x.route, x.ip)}, Null)
  /\ x.pc = "target" => x.cmd = Command("incr", {TargetKey(x.route, x.user)}, Null)
  /\ x.pc = "count" => x.cmd = Command("incr", {FailKey(x.user, x.ip)}, Null)
  /\ x.pc = "block" => x.cmd = Command("set", {BlockKey(x.user, x.ip)}, 1)
  /\ x.pc = "clear" => x.cmd = Command("del", {FailKey(x.user, x.ip)}, Null)
  /\ x.pc = "unblock" => x.cmd = Command("del", {BlockKey(x.user, x.ip)}, Null)
  /\ x.pc = "session" => \E s \in Sessions, v \in Nat : x.cmd = Command("set", {SessionKey(s)}, v)
  /\ x.pc = "read" => x.cmd = Command("get", {SessionKey(x.token.session)}, Null)
  /\ x.pc = "rotate" => \E v \in Nat : x.cmd = Command("set", {SessionKey(x.token.session)}, v)
  /\ x.pc \in {"drop", "logout"} => x.cmd = Command("del", {SessionKey(x.token.session)}, Null)
  /\ x.at = "expire" => x.cmd.op = "incr"

\* A command that is still on its way.
ProperStray(c) ==
  \E k \in Keys :
    /\ c.keys = {k}
    /\ c.op \in {"incr", "expire"} => k \in Counters
    /\ k \in LimitKeys => c.op \in {"incr", "expire"}

\* A request has a session in hand.
InHand(x, s) ==
  \/ x.pc \in Refreshing /\ x.token.session = s
  \/ x.pc = "session" /\ x.cmd.keys = {SessionKey(s)}

Basics ==
  /\ SessionsTypeOK
  /\ \A r \in Requests : up[r].pc # "idle" => Proper(up[r])
  /\ \A c \in strays : ProperStray(c)
  /\ \A t \in issued : owner[t.session] # Null
  /\ \A r \in Requests, s \in Sessions : InHand(up[r], s) => owner[s] # Null

\* A request that is served is no idle slot.
LEMMA ServingIsTyped ==
  ASSUME SessionsTypeOK, NEW r \in Requests, up[r].pc # "idle"
  PROVE  up[r] \in Serving /\ up[r].pc \in Pcs
<1>1. up[r] \in Serving \union {Idle}
  BY DEF SessionsTypeOK
<1>2. Idle.pc = "idle"
  BY DEF Idle
<1>3. up[r] \in Serving
  BY <1>1, <1>2
<1> QED
  BY <1>3 DEF Serving, Pcs

\* The call a request has made: its key, and what it may do to it.
LEMMA CallIs ==
  ASSUME Basics, NEW r \in Requests, up[r].pc # "idle", up[r].at # "query"
  PROVE  /\ up[r].cmd \in Call
         /\ Key(r) \in Keys /\ up[r].cmd.keys = {Key(r)}
         /\ up[r].cmd.op \in {"get", "set", "del", "incr"}
         /\ up[r].cmd.op = "incr" <=> up[r].pc \in {"ip", "target", "count"}
         /\ up[r].cmd.op = "incr" => Key(r) \in Counters
         /\ Key(r) \in LimitKeys => up[r].cmd.op = "incr"
         /\ up[r].cmd.op = "set" => up[r].cmd.val \in Nat
<1> DEFINE x == up[r]
<1>1. x \in Serving /\ x.pc \in Pcs /\ Proper(x)
  BY ServingIsTyped DEF Basics
<1>2. x.user \in Users /\ (x.pc \in LoginPcs => x.ip \in Ips /\ x.route \in Routes)
      /\ (x.pc \in Refreshing \union {"logout"} => x.token.session \in Sessions)
  BY <1>1 DEF Proper, Serving, Tokens
<1>a. Null \in Values /\ 1 \in Values /\ Nat \subseteq Values
  BY DEF Values
<1> DEFINE Is(op, k, v) == x.cmd = Command(op, {k}, v) /\ k \in Keys /\ v \in Values
<1>3. ASSUME NEW op \in Ops, NEW k, NEW v, Is(op, k, v)
      PROVE  /\ x.cmd \in Call /\ Key(r) = k /\ x.cmd.keys = {k} /\ x.cmd.op = op
             /\ x.cmd.val = v
  <2>1. k \in Keys /\ v \in Values
    BY <1>3
  <2>2. /\ Command(op, {k}, v) \in Call /\ Command(op, {k}, v).op = op
        /\ Command(op, {k}, v).keys = {k} /\ Command(op, {k}, v).val = v
    BY SMTT(30), <2>1, CommandIs
  <2>3. up[r].cmd.keys = {k}
    BY <1>3, <2>2
  <2> QED
    BY <1>3, <2>2, <2>3, OneKey
<1>4. CASE x.pc \in {"ip", "target", "count"}
  <2>1. PICK k \in Counters : x.cmd = Command("incr", {k}, Null)
    BY <1>1, <1>2, <1>4, KeysAre DEF Proper, LoginPcs
  <2>2. Is("incr", k, Null) /\ "incr" \in Ops
    BY <1>a, <2>1, KeysAre DEF Ops
  <2> QED
    BY <1>3, <1>4, <2>1, <2>2, KeysAre
<1>5. CASE x.pc \in {"blocked", "block", "clear", "unblock"}
  <2>1. PICK op \in {"get", "set", "del"}, k \in Keys \ LimitKeys, v \in Values :
          x.cmd = Command(op, {k}, v) /\ (op = "set" => v \in Nat)
    <3>1. FailKey(x.user, x.ip) \in Keys \ LimitKeys /\ BlockKey(x.user, x.ip) \in Keys \ LimitKeys
      BY <1>2, <1>5, KeysAre, KindsApart DEF LoginPcs
    <3> QED
      BY <1>1, <1>5, <1>a, <3>1 DEF Proper
  <2>2. Is(op, k, v) /\ op \in Ops
    BY <2>1 DEF Ops
  <2> QED
    BY SMTT(30), <1>3, <1>5, <2>1, <2>2
<1>6. CASE x.pc \in {"session", "logout", "read", "drop", "rotate"}
  <2>1. PICK op \in {"get", "set", "del"}, s \in Sessions, v \in Values :
          x.cmd = Command(op, {SessionKey(s)}, v) /\ (op = "set" => v \in Nat)
    BY <1>1, <1>2, <1>6, <1>a DEF Proper, Refreshing
  <2>2. SessionKey(s) \in Keys \ LimitKeys
    BY KeysAre, KindsApart
  <2>3. Is(op, SessionKey(s), v) /\ op \in Ops
    BY <2>1, <2>2 DEF Ops
  <2> QED
    BY SMTT(30), <1>3, <1>6, <2>1, <2>2, <2>3
<1>7. x.pc \in {"ip", "target", "count", "blocked", "block", "clear", "unblock",
                "session", "logout", "read", "drop", "rotate"}
  BY <1>1 DEF Pcs, Refreshing, Proper
<1> QED
  BY <1>4, <1>5, <1>6, <1>7

\* What Redis keeps under a key.
Kept == [val : Values, ttl : BOOLEAN]

\* What the server makes of a command, key by key.
LEMMA EffectIs ==
  ASSUME SessionsTypeOK, NEW c \in Call, redis' = Effect(c, redis)
  PROVE  /\ redis' \in [Keys -> Kept]
         /\ \A k \in Keys \ c.keys : redis'[k] = redis[k]
         /\ \A k \in c.keys :
              /\ c.op = "get" => redis'[k] = redis[k]
              /\ c.op = "set" => redis'[k].val = c.val /\ redis'[k].ttl
              /\ c.op = "del" => redis'[k] = Missing
              /\ c.op = "incr" => /\ redis'[k].ttl = redis[k].ttl
                                  /\ redis[k].val = Null => redis'[k].val = 1
                                  /\ redis[k].val \in Nat => redis'[k].val = redis[k].val + 1
              /\ c.op = "expire" => /\ redis'[k].val = redis[k].val
                                    /\ redis[k].val # Null => redis'[k].ttl
<1>1. redis \in [Keys -> Kept] /\ c.keys \subseteq Keys /\ c.op \in Ops /\ c.val \in Values
  BY DEF SessionsTypeOK, Call, Ops, Kept, Values
<1>2. DOMAIN redis = Keys
  BY <1>1
<1>3. \A k \in Keys : redis'[k] = IF k \in c.keys THEN Entry(c, redis[k]) ELSE redis[k]
  BY <1>2 DEF Effect
<1>4. redis' = [k \in Keys |-> IF k \in c.keys THEN Entry(c, redis[k]) ELSE redis[k]]
  BY <1>2 DEF Effect
<1>5. ASSUME NEW e \in Kept
      PROVE  /\ Entry(c, e) \in Kept
             /\ c.op = "get" => Entry(c, e) = e
             /\ c.op = "set" => Entry(c, e).val = c.val /\ Entry(c, e).ttl
             /\ c.op = "del" => Entry(c, e) = Missing
             /\ c.op = "incr" => /\ Entry(c, e).ttl = e.ttl
                                 /\ e.val = Null => Entry(c, e).val = 1
                                 /\ e.val \in Nat => Entry(c, e).val = e.val + 1
             /\ c.op = "expire" => /\ Entry(c, e).val = e.val
                                   /\ e.val # Null => Entry(c, e).ttl
  <2>1. CASE c.op = "get"
    <3>1. Entry(c, e) = e
      BY <2>1 DEF Entry
    <3> QED
      BY <2>1, <3>1
  <2>2. CASE c.op = "set"
    <3>1. Entry(c, e) = [val |-> c.val, ttl |-> TRUE]
      BY <2>2 DEF Entry
    <3> QED
      BY <1>1, <2>2, <3>1 DEF Kept
  <2>3. CASE c.op = "del"
    <3>1. Entry(c, e) = Missing
      BY <2>3 DEF Entry
    <3>2. Missing \in Kept
      BY DEF Missing, Kept, Values
    <3> QED
      BY <2>3, <3>1, <3>2
  <2>4. CASE c.op = "incr"
    <3>1. Entry(c, e) = [e EXCEPT !.val = IF e.val = Null THEN 1 ELSE e.val + 1]
      BY <2>4 DEF Entry
    <3>2. /\ e.val \in Values /\ e.ttl \in BOOLEAN
          /\ Entry(c, e) = [val |-> IF e.val = Null THEN 1 ELSE e.val + 1, ttl |-> e.ttl]
      BY <3>1 DEF Kept
    <3>3. e.val \in Nat => e.val # Null
      BY SessionsAssumption
    <3>4. (IF e.val = Null THEN 1 ELSE e.val + 1) \in Values
      BY <3>2 DEF Values
    <3> QED
      BY <2>4, <3>2, <3>3, <3>4 DEF Kept
  <2>5. CASE c.op = "expire"
    <3>1. Entry(c, e) = [e EXCEPT !.ttl = e # Missing]
      BY <2>5 DEF Entry
    <3>2. (e # Missing) \in BOOLEAN
      OBVIOUS
    <3>3. Entry(c, e) = [val |-> e.val, ttl |-> e # Missing]
      BY <3>1 DEF Kept
    <3>4. Entry(c, e) \in Kept
      BY <3>2, <3>3 DEF Kept
    <3>5. Entry(c, e).val = e.val /\ (e.val # Null => Entry(c, e).ttl)
      <4>1. e.val # Null => e # Missing
        BY DEF Missing
      <4>2. Entry(c, e).val = e.val
        BY <3>3
      <4>3. ASSUME e # Missing PROVE Entry(c, e).ttl
        <5>1. (e # Missing) = TRUE
          BY <4>3
        <5>2. Entry(c, e) = [val |-> e.val, ttl |-> TRUE]
          BY <3>3, <5>1
        <5> QED
          BY <5>2
      <4> QED
        BY <4>1, <4>2, <4>3
    <3> QED
      BY <2>5, <3>4, <3>5
  <2> QED
    BY <1>1, <2>1, <2>2, <2>3, <2>4, <2>5 DEF Ops
<1>6. redis' \in [Keys -> Kept]
  BY <1>1, <1>4, <1>5
<1>7. \A k \in Keys \ c.keys : redis'[k] = redis[k]
  BY <1>3
<1>8. \A k \in c.keys : redis'[k] = Entry(c, redis[k]) /\ redis[k] \in Kept
  BY <1>1, <1>3
<1> QED
  BY <1>5, <1>6, <1>7, <1>8

\* The slots that a step of request r leaves alone.
Others(r) == \A q \in Requests : q # r => up'[q] = up[q]

\* What is kept of a request as it goes on.
SameRequest(r) ==
  /\ up'[r].user = up[r].user /\ up'[r].ip = up[r].ip /\ up'[r].route = up[r].route
  /\ up'[r].token = up[r].token /\ up'[r].late = up[r].late

\* A request that goes on to its next call.
LEMMA Going ==
  ASSUME SessionsTypeOK, NEW r \in Requests, up[r].pc # "idle",
         NEW pc \in Pcs, NEW op \in Ops, NEW k \in Keys, NEW v \in Values,
         Goto(r, pc, op, k, v)
  PROVE  /\ up' \in [Requests -> Serving \union {Idle}] /\ Others(r) /\ SameRequest(r)
         /\ up'[r].pc = pc /\ up'[r].at = "redis" /\ up'[r].ans = Null
         /\ up'[r].cmd = Command(op, {k}, v)
<1>1. up[r] \in Serving
  BY ServingIsTyped
<1>2. up' = [up EXCEPT ![r] = [up[r] EXCEPT !.pc = pc, !.at = "redis", !.ans = Null,
                                 !.held = FALSE, !.cmd = Command(op, {k}, v)]]
  BY DEF Goto
<1>3. Command(op, {k}, v) \in Call
  BY CommandIs
<1> DEFINE x == [up[r] EXCEPT !.pc = pc, !.at = "redis", !.ans = Null,
                              !.held = FALSE, !.cmd = Command(op, {k}, v)]
<1>4. x \in Serving
  BY <1>1, <1>3, ZenonT(30) DEF Serving, Pcs
<1>5. up' = [up EXCEPT ![r] = x] /\ up \in [Requests -> Serving \union {Idle}]
  BY <1>2 DEF SessionsTypeOK
<1>6. up'[r] = x /\ Others(r) /\ up' \in [Requests -> Serving \union {Idle}]
  BY <1>4, <1>5 DEF Others
<1>7. /\ x.pc = pc /\ x.at = "redis" /\ x.ans = Null /\ x.cmd = Command(op, {k}, v)
      /\ x.user = up[r].user /\ x.ip = up[r].ip /\ x.route = up[r].route
      /\ x.token = up[r].token
  BY <1>1 DEF Serving
<1>8. x.late = up[r].late
  BY <1>1, ZenonT(30) DEF Serving
<1> QED
  BY <1>6, <1>7, <1>8 DEF SameRequest

\* A request that asks the database.
LEMMA Querying ==
  ASSUME SessionsTypeOK, NEW r \in Requests, up[r].pc # "idle",
         NEW pc \in Pcs, NEW from \in {Null, "redis", "memory"}, Query(r, pc, from)
  PROVE  /\ up' \in [Requests -> Serving \union {Idle}] /\ Others(r) /\ SameRequest(r)
         /\ up'[r].pc = pc /\ up'[r].at = "query" /\ up'[r].from = from
<1>1. up[r] \in Serving
  BY ServingIsTyped
<1>2. up' = [up EXCEPT ![r] = [up[r] EXCEPT !.pc = pc, !.at = "query", !.ans = Null,
                    !.held = FALSE, !.window = FALSE, !.cmd = Null, !.from = from]]
  BY DEF Query
<1> DEFINE x == [up[r] EXCEPT !.pc = pc, !.at = "query", !.ans = Null, !.held = FALSE,
                              !.window = FALSE, !.cmd = Null, !.from = from]
<1>3. x \in Serving
  <2>1. up[r] \in [pc : Pcs, proc : Procs, user : Users, ip : Ips \union {Null},
           route : Routes \union {Null}, token : Tokens \union {Null},
           at : {"redis", "expire", "memory", "query"}, cmd : Call \union {Null},
           held : BOOLEAN, ans : Values, window : BOOLEAN,
           from : {Null, "redis", "memory"}, late : BOOLEAN]
    BY <1>1 DEF Serving, Pcs, Values
  <2>2. Null \in Values /\ Null \in Call \union {Null} /\ FALSE \in BOOLEAN
        /\ "query" \in {"redis", "expire", "memory", "query"}
    BY DEF Values
  <2>3. x \in [pc : Pcs, proc : Procs, user : Users, ip : Ips \union {Null},
           route : Routes \union {Null}, token : Tokens \union {Null},
           at : {"redis", "expire", "memory", "query"}, cmd : Call \union {Null},
           held : BOOLEAN, ans : Values, window : BOOLEAN,
           from : {Null, "redis", "memory"}, late : BOOLEAN]
    BY <2>1, <2>2, ZenonT(60)
  <2> QED
    BY <2>3 DEF Serving, Pcs, Values
<1>4. up' = [up EXCEPT ![r] = x] /\ up \in [Requests -> Serving \union {Idle}]
  BY <1>2 DEF SessionsTypeOK
<1>5. up'[r] = x /\ Others(r) /\ up' \in [Requests -> Serving \union {Idle}]
  BY <1>3, <1>4 DEF Others
<1>6. /\ x.pc = pc /\ x.at = "query" /\ x.from = from
      /\ x.user = up[r].user /\ x.ip = up[r].ip /\ x.route = up[r].route
      /\ x.token = up[r].token
  BY <1>1 DEF Serving
<1>7. x.late = up[r].late
  BY <1>1, ZenonT(30) DEF Serving
<1> QED
  BY <1>5, <1>6, <1>7 DEF SameRequest

\* A request that ends.
LEMMA Ending ==
  ASSUME SessionsTypeOK, NEW r \in Requests, Done(r)
  PROVE  /\ up' \in [Requests -> Serving \union {Idle}] /\ Others(r)
         /\ up'[r].pc = "idle"
BY DEF Done, SessionsTypeOK, Others, Idle

\* A request may be on behalf of nobody in particular.
Maybe(S) == S \union {Null}

\* A request as it comes.
LEMMA FreshIs ==
  ASSUME NEW p \in Procs, NEW u \in Users, NEW i \in Maybe(Ips), NEW route \in Maybe(Routes),
         NEW token \in Maybe(Tokens), NEW pc \in Pcs, NEW op \in Ops, NEW k \in Keys
  PROVE  LET x == Fresh(p, u, i, route, token, pc, op, k)
         IN  /\ x \in Serving
             /\ x.pc = pc /\ x.at = "redis" /\ x.ans = Null
             /\ x.cmd = Command(op, {k}, Null)
             /\ x.user = u /\ x.ip = i /\ x.route = route
             /\ x.token = token /\ (x.late <=> u \in inactive)
<1> DEFINE w == u \in inactive
           c == Command(op, {k}, Null)
           x == Fresh(p, u, i, route, token, pc, op, k)
<1>1. w \in BOOLEAN /\ c \in Call
  <2>1. Null \in Values
    BY DEF Values
  <2>2. Command(op, {k}, Null) \in Call
    BY <2>1, CommandIs
  <2> QED
    BY <2>2
<1>2. x = [pc |-> pc, proc |-> p, user |-> u, ip |-> i, route |-> route,
           token |-> token, at |-> "redis", cmd |-> c, held |-> FALSE, ans |-> Null,
           window |-> FALSE, from |-> Null, late |-> w]
  BY DEF Fresh
<1> HIDE DEF w, c, x
<1>3. x \in Serving
  BY <1>1, <1>2, ZenonT(30) DEF Serving, Pcs, Maybe
<1>4. /\ x.pc = pc /\ x.at = "redis" /\ x.ans = Null /\ x.cmd = c
      /\ x.user = u /\ x.ip = i /\ x.route = route /\ x.token = token
  BY <1>2
<1>5. x.late = w
  BY <1>2, ZenonT(30)
<1> QED
  BY <1>3, <1>4, <1>5 DEF w, c, x

\* The slots when it does.
LEMMA Entering ==
  ASSUME SessionsTypeOK, NEW r \in Requests, NEW x \in Serving, Enter(r, x)
  PROVE  /\ up' \in [Requests -> Serving \union {Idle}] /\ Others(r)
         /\ up[r].pc = "idle" /\ up'[r] = x
BY DEF Enter, SessionsTypeOK, Others, Idle

\* A call that comes back from Redis, with an answer or without.
Back(r, at, ans, held) ==
  up' = [up EXCEPT ![r] = [@ EXCEPT !.at = at, !.ans = ans, !.held = held,
                                    !.window = up[r].cmd.op = "incr" /\ ans # Null]]

\* A request that hears from Redis, or gives up, is still the same request at the same step.
LEMMA ComingBack ==
  ASSUME SessionsTypeOK, NEW r \in Requests, up[r].pc # "idle",
         NEW at \in {"expire", "memory"}, NEW ans \in Values, NEW held \in BOOLEAN,
         Back(r, at, ans, held)
  PROVE  /\ up' \in [Requests -> Serving \union {Idle}] /\ Others(r) /\ SameRequest(r)
         /\ up'[r].pc = up[r].pc /\ up'[r].cmd = up[r].cmd
         /\ up'[r].at = at /\ up'[r].ans = ans
         /\ up'[r].window => ans # Null
<1> DEFINE w == up[r].cmd.op = "incr" /\ ans # Null
           x == [up[r] EXCEPT !.at = at, !.ans = ans, !.held = held, !.window = w]
<1>1. up[r] \in Serving
  BY ServingIsTyped
<1>2. w \in BOOLEAN
  OBVIOUS
<1>3. up' = [up EXCEPT ![r] = x]
  BY DEF Back
<1> HIDE DEF w
<1>4. x \in Serving
  BY <1>1, <1>2, ZenonT(30) DEF Serving, Values
<1>5. up'[r] = x /\ Others(r) /\ up' \in [Requests -> Serving \union {Idle}]
  BY <1>3, <1>4 DEF SessionsTypeOK, Others
<1>6. /\ x.pc = up[r].pc /\ x.cmd = up[r].cmd /\ x.at = at /\ x.ans = ans
      /\ x.user = up[r].user /\ x.ip = up[r].ip /\ x.route = up[r].route
      /\ x.token = up[r].token
  BY <1>1 DEF Serving
<1>7. x.late = up[r].late /\ x.window = w
  BY <1>1, ZenonT(30) DEF Serving
<1>8. x.window => ans # Null
  BY <1>7 DEF w
<1> HIDE DEF x
<1> QED
  BY <1>5, <1>6, <1>7, <1>8 DEF SameRequest

\* The result of a call is a value, and what Redis said when it said something.
LEMMA AnswerIs ==
  ASSUME Basics, NEW r \in Requests, up[r].pc # "idle", up[r].at # "query"
  PROVE  /\ Answer(r) \in Values
         /\ up[r].cmd.op = "incr" => Answer(r) \in Nat
         /\ up[r].cmd.op \in {"get", "incr"} /\ up[r].ans # Null => Answer(r) = up[r].ans
         /\ Remember(r) => memory' \in [Procs -> [Keys -> Values]]
<1>1. up[r] \in Serving /\ SessionsTypeOK
  BY ServingIsTyped DEF Basics
<1>2. /\ up[r].ans \in Values /\ up[r].proc \in Procs /\ up[r].cmd \in Call
      /\ Key(r) \in Keys /\ up[r].cmd.op \in {"get", "set", "del", "incr"}
      /\ up[r].cmd.val \in Values
  BY <1>1, CallIs DEF Serving, Values, Call
<1>3. memory \in [Procs -> [Keys -> Values]]
  BY <1>1 DEF SessionsTypeOK, Values
<1>4. Local(r) \in Values
  BY <1>2, <1>3 DEF Local
<1>10. /\ Answer(r) \in Values
       /\ up[r].cmd.op = "incr" => Answer(r) \in Nat
       /\ up[r].cmd.op \in {"get", "incr"} /\ up[r].ans # Null => Answer(r) = up[r].ans
  <2>1. CASE up[r].cmd.op = "set"
    <3>1. Answer(r) = up[r].cmd.val
      BY <2>1 DEF Answer
    <3> QED
      BY <1>2, <2>1, <3>1
  <2>2. CASE up[r].cmd.op = "del"
    <3>1. Answer(r) = Null
      BY <2>2 DEF Answer
    <3> QED
      BY <2>2, <3>1 DEF Values
  <2>3. CASE up[r].cmd.op \in {"get", "incr"} /\ up[r].ans # Null
    <3>1. Answer(r) = up[r].ans
      BY <2>3 DEF Answer
    <3> QED
      BY <1>2, <2>3, <3>1 DEF Values
  <2>4. CASE up[r].cmd.op = "get" /\ up[r].ans = Null
    <3>1. Answer(r) = Local(r)
      BY <2>4 DEF Answer
    <3> QED
      BY <1>4, <2>4, <3>1
  <2>5. CASE up[r].cmd.op = "incr" /\ up[r].ans = Null
    <3>1. Answer(r) = IF Local(r) = Null THEN 1 ELSE Local(r) + 1
      BY <2>5 DEF Answer
    <3>2. Answer(r) \in Nat
      BY <1>4, <3>1 DEF Values
    <3> QED
      BY <2>5, <3>2 DEF Values
  <2> QED
    BY <1>2, <2>1, <2>2, <2>3, <2>4, <2>5
<1>11. ASSUME Remember(r) PROVE memory' \in [Procs -> [Keys -> Values]]
  <2>1. CASE memory' = memory
    BY <1>3, <2>1
  <2>2. CASE memory' = [memory EXCEPT ![up[r].proc][Key(r)] = Answer(r)]
    BY <1>2, <1>3, <1>10, <2>2
  <2> QED
    BY <1>11, <2>1, <2>2 DEF Remember
<1> QED
  BY <1>10, <1>11

\* A step of a request that is served: Redis is not asked, and the request goes
\* on to a call as it should, or ends.
LEMMA HandlerKeepsBasics ==
  ASSUME Basics, NEW r \in Requests, UNCHANGED redisVars,
         up' \in [Requests -> Serving \union {Idle}], Others(r),
         up'[r].pc # "idle" => Proper(up'[r]),
         memory' \in [Procs -> [Keys -> Values]],
         inactive' \subseteq Users, clock' \in Nat,
         owner' \in [Sessions -> Users \union {Null}],
         issued' \subseteq Tokens, \A t \in issued' : owner'[t.session] # Null,
         \A s \in Sessions : owner[s] # Null => owner'[s] # Null,
         \A s \in Sessions : InHand(up'[r], s) => owner'[s] # Null,
         admitted' \in [LimitKeys -> Nat], UNCHANGED <<lapsed, spent, revoked>>,
         raced' \subseteq Sessions, recalled' \subseteq Sessions
  PROVE  Basics'
<1>1. SessionsTypeOK'
  BY DEF Basics, SessionsTypeOK, redisVars, Values
<1>2. \A q \in Requests : up'[q].pc # "idle" => Proper(up'[q])
  BY DEF Basics, Others
<1>3. \A c \in strays' : ProperStray(c)
  BY DEF Basics, redisVars
<1>4. \A q \in Requests, s \in Sessions : InHand(up'[q], s) => owner'[s] # Null
  BY DEF Basics, Others
<1> QED
  BY <1>1, <1>2, <1>3, <1>4 DEF Basics, InHand

\* What the handlers' steps leave alone, as far as types go.
LEMMA QuietHandler ==
  ASSUME Basics, NEW r \in Requests, UNCHANGED <<redisVars, clock, inactive, owner, issued>>,
         up' \in [Requests -> Serving \union {Idle}], Others(r),
         up'[r].pc # "idle" => Proper(up'[r]),
         \A s \in Sessions : InHand(up'[r], s) => InHand(up[r], s) \/ owner[s] # Null,
         (Remember(r) /\ up[r].pc # "idle" /\ up[r].at # "query") \/ memory' = memory,
         admitted' \in [LimitKeys -> Nat], UNCHANGED <<lapsed, spent, revoked>>,
         raced' \subseteq Sessions, recalled' \subseteq Sessions
  PROVE  Basics'
<1>1. memory' \in [Procs -> [Keys -> Values]]
  BY AnswerIs DEF Basics, SessionsTypeOK, Values
<1>2. /\ inactive' \subseteq Users /\ clock' \in Nat /\ owner' \in [Sessions -> Users \union {Null}]
      /\ issued' \subseteq Tokens /\ \A t \in issued' : owner'[t.session] # Null
  BY DEF Basics, SessionsTypeOK
<1>3. UNCHANGED redisVars
  OBVIOUS
<1>4. /\ \A s \in Sessions : owner[s] # Null => owner'[s] # Null
      /\ \A s \in Sessions : InHand(up'[r], s) => owner'[s] # Null
  BY DEF Basics
<1> QED
  BY <1>1, <1>2, <1>3, <1>4, HandlerKeepsBasics

\* The ghosts and the map, as they are when a step does not touch them.
LEMMA GhostTypes ==
  ASSUME Basics
  PROVE  /\ admitted \in [LimitKeys -> Nat]
         /\ raced \subseteq Sessions /\ recalled \subseteq Sessions
         /\ lapsed \subseteq Blocks /\ spent \subseteq Tokens /\ revoked \subseteq Sessions
         /\ memory \in [Procs -> [Keys -> Values]]
BY DEF Basics, SessionsTypeOK, Values

-----------------------------------------------------------------------------
(* What the steps do.                                                      *)

\* A request asks Redis: it is away, it executes the call, or the call fails.
LEMMA Asking ==
  ASSUME NEW r \in Requests, AskRedis(r)
  PROVE  /\ up[r].pc # "idle" /\ up[r].at = "redis"
         /\ UNCHANGED <<memory, clock, inactive, owner, issued, admitted, recalled>>
         /\ \/ /\ offline # {} /\ UNCHANGED redisVars
               /\ Back(r, "memory", Null, FALSE) /\ UNCHANGED <<lapsed, spent, revoked, raced>>
            \/ /\ Executed(up[r].cmd) /\ Noted(r) /\ UNCHANGED raced
               /\ Back(r, IF up[r].cmd.op = "incr" /\ redis'[Key(r)].val = 1
                          THEN "expire" ELSE "memory", redis'[Key(r)].val, TRUE)
            \/ /\ Failed(up[r].proc, up[r].cmd)
               /\ Back(r, "memory", Null, TRUE) /\ UNCHANGED <<lapsed, spent, revoked>>
               /\ raced' = IF up[r].pc \in {"session", "rotate"}
                           THEN raced \union {Key(r)[2]} ELSE raced
BY DEF AskRedis, Back, Skipped

\* It gives the counter its expiry: at the server, or not.
LEMMA AskingExpiry ==
  ASSUME NEW r \in Requests, AskExpiry(r)
  PROVE  LET c == Command("expire", up[r].cmd.keys, Null)
         IN  /\ up[r].pc # "idle" /\ up[r].at = "expire"
             /\ UNCHANGED <<memory, clock, inactive, owner, issued, ghosts>>
             /\ \/ Executed(c) /\ up' = [up EXCEPT ![r].at = "memory"]
                \/ /\ Failed(up[r].proc, c)
                   /\ up' = [up EXCEPT ![r] = [@ EXCEPT !.at = "memory", !.ans = Null,
                                                         !.window = FALSE]]
BY DEF AskExpiry

\* What is left of a request after that.
LEMMA Expiring ==
  ASSUME SessionsTypeOK, NEW r \in Requests, up[r].pc # "idle",
         \/ up' = [up EXCEPT ![r].at = "memory"]
         \/ up' = [up EXCEPT ![r] = [@ EXCEPT !.at = "memory", !.ans = Null, !.window = FALSE]]
  PROVE  /\ up' \in [Requests -> Serving \union {Idle}] /\ Others(r) /\ SameRequest(r)
         /\ up'[r].pc = up[r].pc /\ up'[r].cmd = up[r].cmd
         /\ up'[r].at = "memory"
         /\ \/ up'[r].ans = up[r].ans /\ up'[r].window = up[r].window
            \/ up'[r].ans = Null /\ up'[r].window = FALSE
<1>1. up[r] \in Serving
  BY ServingIsTyped
<1>2. up \in [Requests -> Serving \union {Idle}]
  BY DEF SessionsTypeOK
<1>3. ASSUME NEW x, up' = [up EXCEPT ![r] = x], x \in Serving
      PROVE  up'[r] = x /\ Others(r) /\ up' \in [Requests -> Serving \union {Idle}]
  BY <1>2, <1>3 DEF Others
<1>4. CASE up' = [up EXCEPT ![r].at = "memory"]
  <2> DEFINE x == [up[r] EXCEPT !.at = "memory"]
  <2>1. up' = [up EXCEPT ![r] = x]
    BY <1>4
  <2>2. x \in Serving
    BY <1>1, ZenonT(30) DEF Serving
  <2>3. /\ x.pc = up[r].pc /\ x.cmd = up[r].cmd /\ x.at = "memory" /\ x.ans = up[r].ans
        /\ x.user = up[r].user /\ x.ip = up[r].ip /\ x.route = up[r].route
        /\ x.token = up[r].token
    BY <1>1 DEF Serving
  <2>4. x.late = up[r].late /\ x.window = up[r].window
    BY <1>1, ZenonT(30) DEF Serving
  <2> HIDE DEF x
  <2>5. up'[r] = x /\ Others(r) /\ up' \in [Requests -> Serving \union {Idle}]
    BY <1>3, <2>1, <2>2
  <2> QED
    BY <2>3, <2>4, <2>5 DEF SameRequest
<1>5. CASE up' = [up EXCEPT ![r] = [@ EXCEPT !.at = "memory", !.ans = Null, !.window = FALSE]]
  <2> DEFINE x == [up[r] EXCEPT !.at = "memory", !.ans = Null, !.window = FALSE]
  <2>1. up' = [up EXCEPT ![r] = x]
    BY <1>5
  <2>2. x \in Serving
    BY <1>1, ZenonT(30) DEF Serving
  <2>3. /\ x.pc = up[r].pc /\ x.cmd = up[r].cmd /\ x.at = "memory" /\ x.ans = Null
        /\ x.user = up[r].user /\ x.ip = up[r].ip /\ x.route = up[r].route
        /\ x.token = up[r].token
    BY <1>1 DEF Serving
  <2>4. x.late = up[r].late /\ x.window = FALSE
    BY <1>1, ZenonT(30) DEF Serving
  <2> HIDE DEF x
  <2>5. up'[r] = x /\ Others(r) /\ up' \in [Requests -> Serving \union {Idle}]
    BY <1>3, <2>1, <2>2
  <2> QED
    BY <2>3, <2>4, <2>5 DEF SameRequest
<1> QED
  BY <1>4, <1>5

\* A request at the same call as before is as proper as before.
LEMMA SameCall ==
  ASSUME NEW r \in Requests, SameRequest(r), Proper(up[r]),
         up'[r].pc = up[r].pc, up'[r].cmd = up[r].cmd, up[r].at # "query",
         up'[r].at \in {"memory", "expire"}, up'[r].at = "expire" => up[r].cmd.op = "incr"
  PROVE  Proper(up'[r])
BY SMTT(30) DEF Proper, SameRequest

\* The step of a whole call: Redis, the strays and the slots stay typed.
LEMMA CallKeepsBasics ==
  ASSUME Basics, NEW r \in Requests, up[r].pc # "idle", up[r].at # "query",
         UNCHANGED <<memory, clock, inactive, owner, issued, admitted, recalled>>,
         lapsed' \subseteq Blocks, spent' \subseteq Tokens,
         raced' \subseteq Sessions, revoked' \subseteq Sessions,
         NEW c \in Call, ProperStray(c),
         UNCHANGED redisVars \/ Executed(c) \/ Failed(up[r].proc, c),
         up' \in [Requests -> Serving \union {Idle}], Others(r), SameRequest(r),
         up'[r].pc = up[r].pc, up'[r].cmd = up[r].cmd,
         up'[r].at \in {"memory", "expire"}, up'[r].at = "expire" => up[r].cmd.op = "incr"
  PROVE  Basics'
<1>1. /\ redis' \in [Keys -> Kept] /\ offline' \subseteq Procs /\ faults' \in Nat
      /\ strays' \subseteq Call /\ \A d \in strays' : ProperStray(d)
  <2>1. CASE UNCHANGED redisVars
    BY <2>1 DEF redisVars, Basics, SessionsTypeOK, Kept, Values
  <2>2. CASE Executed(c)
    BY <2>2, EffectIs DEF Executed, Basics, SessionsTypeOK
  <2>3. CASE Failed(up[r].proc, c)
    <3>1. up[r].proc \in Procs
      BY ServingIsTyped DEF Basics, Serving
    <3> QED
      BY <2>3, <3>1 DEF Failed, Basics, SessionsTypeOK, Kept, Values
  <2> QED
    BY <2>1, <2>2, <2>3
<1>2. SessionsTypeOK'
  BY <1>1 DEF Basics, SessionsTypeOK, Kept, Values
<1>3. Proper(up'[r])
  BY SameCall DEF Basics
<1>4. \A q \in Requests : up'[q].pc # "idle" => Proper(up'[q])
  BY <1>3 DEF Basics, Others
<1>5. \A t \in issued' : owner'[t.session] # Null
  BY DEF Basics
<1>6. \A q \in Requests, s \in Sessions : InHand(up'[q], s) => owner'[s] # Null
  <2>1. \A s \in Sessions : InHand(up'[r], s) => InHand(up[r], s)
    BY DEF InHand, SameRequest
  <2> QED
    BY <2>1 DEF Basics, Others
<1> QED
  BY <1>1, <1>2, <1>4, <1>5, <1>6 DEF Basics, InHand

\* What a request has in hand could be left on its way.
LEMMA CallIsProper ==
  ASSUME Basics, NEW r \in Requests, up[r].pc # "idle", up[r].at # "query"
  PROVE  ProperStray(up[r].cmd)
BY CallIs DEF ProperStray

\* The token of a refresh or a logout, and the session a sign-in or a refresh stores.
LEMMA SessionOf ==
  ASSUME Basics, NEW r \in Requests
  PROVE  /\ up[r].pc \in Refreshing \union {"logout"} =>
              up[r].token \in Tokens /\ up[r].token.session \in Sessions
         /\ up[r].pc \in {"session", "rotate"} =>
              /\ Key(r)[2] \in Sessions /\ Key(r) = SessionKey(Key(r)[2])
              /\ up[r].cmd.op = "set" /\ up[r].cmd.keys = {Key(r)} /\ up[r].cmd.val \in Nat
         /\ up[r].pc = "rotate" => Key(r) = SessionKey(up[r].token.session)
<1>1. ASSUME up[r].pc # "idle" PROVE Proper(up[r])
  BY <1>1 DEF Basics
<1>2. ASSUME up[r].pc \in Refreshing \union {"logout"}
      PROVE  up[r].token \in Tokens /\ up[r].token.session \in Sessions
  BY <1>1, <1>2 DEF Proper, Tokens, Refreshing
<1>3. ASSUME NEW s \in Sessions, NEW v \in Nat, up[r].cmd = Command("set", {SessionKey(s)}, v)
      PROVE  /\ Key(r) = SessionKey(s) /\ Key(r)[2] = s
             /\ up[r].cmd.op = "set" /\ up[r].cmd.keys = {Key(r)} /\ up[r].cmd.val = v
  <2>1. up[r].cmd.op = "set" /\ up[r].cmd.keys = {SessionKey(s)} /\ up[r].cmd.val = v
    BY <1>3 DEF Command
  <2>2. Key(r) = SessionKey(s)
    BY <2>1, OneKey
  <2> QED
    BY <2>1, <2>2, KeysDiffer
<1>4. CASE up[r].pc = "session"
  <2>1. PICK s \in Sessions, v \in Nat : up[r].cmd = Command("set", {SessionKey(s)}, v)
    BY <1>1, <1>4 DEF Proper
  <2> QED
    BY <1>3, <1>4, <2>1 DEF Refreshing
<1>5. CASE up[r].pc = "rotate"
  <2>1. /\ up[r].token \in Tokens /\ up[r].token.session \in Sessions
    BY <1>2, <1>5 DEF Refreshing
  <2>2. PICK v \in Nat : up[r].cmd = Command("set", {SessionKey(up[r].token.session)}, v)
    BY <1>1, <1>5 DEF Proper
  <2> QED
    BY <1>3, <1>5, <2>1, <2>2
<1> QED
  BY <1>2, <1>4, <1>5

-----------------------------------------------------------------------------
(* Type correctness.                                                       *)

\* Basics holds at the start.
LEMMA InitBasics == Init => Basics
<1> SUFFICES ASSUME Init PROVE Basics
  OBVIOUS
<1>1. Missing \in Kept /\ [val |-> 0, ttl |-> TRUE] \in Kept /\ Null \in Values
  BY DEF Missing, Kept, Values
<1>2. Empty \in [Keys -> Values]
  BY <1>1 DEF Empty
<1>3. /\ redis \in [Keys -> Kept] /\ offline = {} /\ strays = {} /\ faults = 0
      /\ memory \in [Procs -> [Keys -> Values]]
      /\ owner \in [Sessions -> Users \union {Null}]
      /\ issued \subseteq Tokens /\ \A t \in issued : owner[t.session] # Null
  <2>1. CASE /\ RedisInit([k \in Keys |-> Missing])
             /\ memory = [p \in Procs |-> Empty]
             /\ owner = [s \in Sessions |-> Null]
             /\ issued = {}
    BY <1>1, <1>2, <2>1 DEF RedisInit
  <2>2. ASSUME NEW u \in Users, NEW s \in Sessions, NEW p \in Procs,
               RedisInit([j \in Keys |-> IF j = SessionKey(s) THEN [val |-> 0, ttl |-> TRUE]
                                         ELSE Missing]),
               memory = [q \in Procs |-> IF q = p THEN [Empty EXCEPT ![SessionKey(s)] = 0] ELSE Empty],
               owner = [x \in Sessions |-> IF x = s THEN u ELSE Null],
               issued = {Token(s, 0)}
        PROVE  /\ redis \in [Keys -> Kept] /\ offline = {} /\ strays = {} /\ faults = 0
               /\ memory \in [Procs -> [Keys -> Values]]
               /\ owner \in [Sessions -> Users \union {Null}]
               /\ issued \subseteq Tokens /\ \A t \in issued : owner[t.session] # Null
    <3>1. [Empty EXCEPT ![SessionKey(s)] = 0] \in [Keys -> Values]
      BY <1>2 DEF Values
    <3>2. redis \in [Keys -> Kept] /\ offline = {} /\ strays = {} /\ faults = 0
      BY <1>1, <2>2 DEF RedisInit
    <3>3. memory \in [Procs -> [Keys -> Values]]
      BY <1>2, <2>2, <3>1
    <3>4. owner[s] = u /\ u # Null
      BY <2>2, SessionsAssumption
    <3>5. Token(s, 0) \in Tokens /\ Token(s, 0).session = s
      BY DEF Token, Tokens
    <3> QED
      BY <2>2, <3>2, <3>3, <3>4, <3>5
  <2> QED
    BY <2>1, <2>2 DEF Init
<1>4. \A r \in Requests : up[r] = Idle
  BY DEF Init
<1>5. SessionsTypeOK
  BY <1>3 DEF Init, SessionsTypeOK, Kept, Values
<1> QED
  BY <1>3, <1>4, <1>5 DEF Basics, Idle, InHand, Refreshing

\* A call to Redis, whatever becomes of it, keeps Basics.
LEMMA AskKeepsBasics ==
  ASSUME Basics, NEW r \in Requests, AskRedis(r)
  PROVE  Basics'
<1> DEFINE c == up[r].cmd
<1>1. /\ up[r].pc # "idle" /\ up[r].at = "redis"
      /\ UNCHANGED <<memory, clock, inactive, owner, issued, admitted, recalled>>
  BY Asking
<1>2. /\ up[r] \in Serving /\ SessionsTypeOK /\ c \in Call /\ Key(r) \in Keys
      /\ c.keys = {Key(r)} /\ ProperStray(c)
  BY <1>1, ServingIsTyped, CallIs, CallIsProper DEF Basics
<1>3. /\ lapsed \subseteq Blocks /\ spent \subseteq Tokens
      /\ raced \subseteq Sessions /\ revoked \subseteq Sessions
  BY GhostTypes
<1>4. ASSUME NEW at \in {"expire", "memory"}, NEW ans \in Values, NEW held \in BOOLEAN,
             Back(r, at, ans, held), at = "expire" => c.op = "incr",
             UNCHANGED redisVars \/ Executed(c) \/ Failed(up[r].proc, c),
             lapsed' \subseteq Blocks, spent' \subseteq Tokens,
             raced' \subseteq Sessions, revoked' \subseteq Sessions
      PROVE  Basics'
  <2>1. /\ up' \in [Requests -> Serving \union {Idle}] /\ Others(r) /\ SameRequest(r)
        /\ up'[r].pc = up[r].pc /\ up'[r].cmd = up[r].cmd /\ up'[r].at = at
    BY <1>1, <1>2, <1>4, ComingBack
  <2>2. up'[r].at \in {"memory", "expire"} /\ (up'[r].at = "expire" => up[r].cmd.op = "incr")
    BY <1>4, <2>1
  <2>3. up[r].at # "query"
    BY <1>1
  <2> QED
    BY <1>1, <1>2, <1>4, <2>1, <2>2, <2>3, CallKeepsBasics
<1>5. CASE /\ UNCHANGED redisVars
           /\ Back(r, "memory", Null, FALSE) /\ UNCHANGED <<lapsed, spent, revoked, raced>>
  BY <1>3, <1>4, <1>5 DEF Values
<1>6. CASE /\ Executed(c) /\ Noted(r) /\ UNCHANGED raced
           /\ Back(r, IF c.op = "incr" /\ redis'[Key(r)].val = 1
                      THEN "expire" ELSE "memory", redis'[Key(r)].val, TRUE)
  <2>1. redis'[Key(r)].val \in Values
    BY <1>2, <1>6, EffectIs DEF Executed, Kept
  <2>2. lapsed' \subseteq Blocks
    <3>1. up[r].pc = "unblock" => c.keys \subseteq Blocks
      <4>1. ASSUME up[r].pc = "unblock" PROVE c.keys = {BlockKey(up[r].user, up[r].ip)}
                                              /\ up[r].user \in Users /\ up[r].ip \in Ips
        <5>1. Proper(up[r])
          BY <1>1 DEF Basics
        <5>2. c = Command("del", {BlockKey(up[r].user, up[r].ip)}, Null) /\ up[r].ip \in Ips
          BY <4>1, <5>1 DEF Proper, LoginPcs
        <5>3. up[r].user \in Users
          BY <1>2 DEF Serving
        <5> QED
          BY <5>2, <5>3 DEF Command
      <4> QED
        BY <4>1, KeysAre
    <3>2. lapsed' = lapsed \/ lapsed' = lapsed \ c.keys
          \/ (up[r].pc = "unblock" /\ lapsed' = lapsed \union c.keys)
      BY <1>6 DEF Noted
    <3> QED
      BY <1>3, <3>1, <3>2
  <2>3. spent' \subseteq Tokens
    <3>1. up[r].pc = "rotate" => up[r].token \in Tokens
      BY SessionOf DEF Refreshing
    <3> QED
      BY <1>3, <1>6, <3>1 DEF Noted
  <2>4. revoked' \subseteq Sessions
    <3>1. up[r].pc = "logout" => up[r].token.session \in Sessions
      BY SessionOf
    <3> QED
      BY <1>3, <1>6, <3>1 DEF Noted
  <2>5. raced' \subseteq Sessions
    BY <1>3, <1>6
  <2>6. PICK at \in {"expire", "memory"} :
          Back(r, at, redis'[Key(r)].val, TRUE) /\ (at = "expire" => c.op = "incr")
    BY <1>6
  <2> QED
    BY <1>4, <1>6, <2>1, <2>2, <2>3, <2>4, <2>5, <2>6
<1>7. CASE /\ Failed(up[r].proc, c)
           /\ Back(r, "memory", Null, TRUE) /\ UNCHANGED <<lapsed, spent, revoked>>
           /\ raced' = IF up[r].pc \in {"session", "rotate"}
                       THEN raced \union {Key(r)[2]} ELSE raced
  <2>1. raced' \subseteq Sessions
    BY <1>3, <1>7, SessionOf
  <2>2. Null \in Values
    BY DEF Values
  <2> QED
    BY <1>3, <1>4, <1>7, <2>1, <2>2
<1> QED
  BY <1>5, <1>6, <1>7, Asking

\* Setting the expiry of a counter keeps Basics.
LEMMA ExpiryKeepsBasics ==
  ASSUME Basics, NEW r \in Requests, AskExpiry(r)
  PROVE  Basics'
<1> DEFINE c == Command("expire", up[r].cmd.keys, Null)
<1>1. /\ up[r].pc # "idle" /\ up[r].at = "expire" /\ up[r].at # "query"
      /\ UNCHANGED <<memory, clock, inactive, owner, issued, admitted, recalled>>
      /\ UNCHANGED <<lapsed, spent, raced, revoked>>
      /\ Executed(c) \/ Failed(up[r].proc, c)
  BY AskingExpiry DEF ghosts
<1>2. /\ up[r].cmd.op = "incr" /\ SessionsTypeOK
      /\ up[r].cmd.keys = {Key(r)} /\ Key(r) \in Counters
  BY <1>1, CallIs DEF Basics, Proper
<1>3. c \in Call /\ ProperStray(c)
  <2>1. "expire" \in Ops /\ Null \in Values /\ Key(r) \in Keys
    BY <1>2, KeysAre DEF Ops, Values
  <2>2. /\ Command("expire", {Key(r)}, Null) \in Call
        /\ Command("expire", {Key(r)}, Null).op = "expire"
        /\ Command("expire", {Key(r)}, Null).keys = {Key(r)}
    BY <2>1, CommandIs
  <2> QED
    BY <1>2, <2>1, <2>2 DEF ProperStray
<1>4. \/ up' = [up EXCEPT ![r].at = "memory"]
      \/ up' = [up EXCEPT ![r] = [@ EXCEPT !.at = "memory", !.ans = Null, !.window = FALSE]]
  BY AskingExpiry
<1>5. /\ up' \in [Requests -> Serving \union {Idle}] /\ Others(r) /\ SameRequest(r)
      /\ up'[r].pc = up[r].pc /\ up'[r].cmd = up[r].cmd /\ up'[r].at = "memory"
  BY <1>1, <1>2, <1>4, Expiring
<1>6. /\ lapsed' \subseteq Blocks /\ spent' \subseteq Tokens
      /\ raced' \subseteq Sessions /\ revoked' \subseteq Sessions
  BY <1>1, GhostTypes
<1>7. /\ up'[r].at \in {"memory", "expire"}
      /\ up'[r].at = "expire" => up[r].cmd.op = "incr"
      /\ UNCHANGED redisVars \/ Executed(c) \/ Failed(up[r].proc, c)
  BY <1>1, <1>5
<1> HIDE DEF c
<1> QED
  BY <1>1, <1>3, <1>5, <1>6, <1>7, CallKeepsBasics

\* A request that is served goes on to its next call or query, as it should, or
\* ends; Redis is not asked.
OnlyServes(r) ==
  /\ up[r].pc # "idle"
  /\ UNCHANGED redisVars
  /\ up' \in [Requests -> Serving \union {Idle}] /\ Others(r)
  /\ up'[r].pc # "idle" => /\ Proper(up'[r]) /\ SameRequest(r)
                           /\ up'[r].at \in {"redis", "query"}

\* A call goes on to the next one.
LEMMA GoesOn ==
  ASSUME Basics, NEW r \in Requests, up[r].pc # "idle", UNCHANGED redisVars,
         NEW pc \in Pcs \ {"find", "user"}, NEW op \in Ops, NEW k \in Keys, NEW v \in Values,
         Goto(r, pc, op, k, v),
         \A x : /\ x.pc = pc /\ x.cmd = Command(op, {k}, v) /\ x.at = "redis"
                /\ x.user = up[r].user /\ x.ip = up[r].ip /\ x.route = up[r].route
                /\ x.token = up[r].token
                => Proper(x)
  PROVE  /\ OnlyServes(r)
         /\ up'[r].pc = pc /\ up'[r].at = "redis" /\ up'[r].ans = Null
         /\ up'[r].cmd = Command(op, {k}, v)
<1>1. /\ up' \in [Requests -> Serving \union {Idle}] /\ Others(r) /\ SameRequest(r)
      /\ up'[r].pc = pc /\ up'[r].at = "redis" /\ up'[r].ans = Null
      /\ up'[r].cmd = Command(op, {k}, v)
  BY Going, SMTT(30) DEF Basics
<1>2. Proper(up'[r])
  BY <1>1 DEF SameRequest
<1> QED
  BY <1>1, <1>2 DEF OnlyServes

\* A request that goes on to the database is the only one that moves.
LEMMA GoesToQuery ==
  ASSUME Basics, NEW r \in Requests, up[r].pc # "idle", UNCHANGED redisVars,
         NEW pc \in {"find", "user"}, NEW from \in {Null, "redis", "memory"}, Query(r, pc, from),
         pc = "find" => up[r].ip \in Ips /\ up[r].route \in Routes,
         pc = "user" => up[r].token \in Tokens
  PROVE  /\ OnlyServes(r)
         /\ up'[r].pc = pc /\ up'[r].at = "query" /\ up'[r].from = from
<1>1. pc \in Pcs
  BY DEF Pcs, Refreshing
<1>2. /\ up' \in [Requests -> Serving \union {Idle}] /\ Others(r) /\ SameRequest(r)
      /\ up'[r].pc = pc /\ up'[r].at = "query" /\ up'[r].from = from
  BY <1>1, Querying DEF Basics
<1>3. Proper(up'[r])
  BY <1>2 DEF Proper, SameRequest, Refreshing, LoginPcs
<1> QED
  BY <1>2, <1>3 DEF OnlyServes

\* A request that ends is the only one that moves.
LEMMA Ends ==
  ASSUME Basics, NEW r \in Requests, up[r].pc # "idle", UNCHANGED redisVars, Done(r)
  PROVE  OnlyServes(r) /\ up'[r].pc = "idle"
BY Ending DEF OnlyServes, Basics

\* A request at a step of a login.
LEMMA LoggingIn ==
  ASSUME Basics, NEW r \in Requests, up[r].pc \in LoginPcs
  PROVE  /\ up[r].pc # "idle" /\ up[r].user \in Users /\ up[r].ip \in Ips
         /\ up[r].route \in Routes
         /\ IpKey(up[r].route, up[r].ip) \in Keys
         /\ TargetKey(up[r].route, up[r].user) \in Keys
         /\ FailKey(up[r].user, up[r].ip) \in Keys
         /\ BlockKey(up[r].user, up[r].ip) \in Keys
         /\ up[r].pc = "blocked" => up[r].route = "login"
<1>1. up[r].pc # "idle"
  BY DEF LoginPcs
<1>2. up[r] \in Serving /\ Proper(up[r])
  BY <1>1, ServingIsTyped DEF Basics
<1>3. up[r].user \in Users /\ up[r].ip \in Ips /\ up[r].route \in Routes
  BY <1>2 DEF Serving, Proper
<1>4. up[r].pc = "blocked" => up[r].route = "login"
  BY <1>2 DEF Proper
<1> QED
  BY <1>1, <1>3, <1>4, KeysAre

\* The values and operations there are.
LEMMA Known == Null \in Values /\ 1 \in Values /\ Nat \subseteq Values
               /\ "get" \in Ops /\ "set" \in Ops /\ "del" \in Ops /\ "incr" \in Ops
BY DEF Values, Ops

\* The steps of a login, from the look for a block to the session that is stored.
LEMMA BlockedStep ==
  ASSUME Basics, NEW r \in Requests, assertLoginAllowed(r)
  PROVE  /\ OnlyServes(r) /\ up[r].pc = "blocked" /\ up[r].at = "memory"
         /\ up'[r].pc \in {"ip", "idle"}
<1>1. /\ up[r].pc = "blocked" /\ up[r].at = "memory" /\ UNCHANGED redisVars
      /\ Done(r) \/ Goto(r, "ip", "incr", IpKey(up[r].route, up[r].ip), Null)
  BY LoggingIn DEF assertLoginAllowed, Finish, LoginPcs
<1>2. CASE Done(r)
  BY <1>1, <1>2, Ends
<1>3. CASE Goto(r, "ip", "incr", IpKey(up[r].route, up[r].ip), Null)
  <2>1. /\ up[r].ip \in Ips /\ up[r].route \in Routes /\ up[r].pc # "idle"
        /\ IpKey(up[r].route, up[r].ip) \in Keys
    BY <1>1, LoggingIn DEF LoginPcs
  <2>2. \A x : /\ x.pc = "ip" /\ x.cmd = Command("incr", {IpKey(up[r].route, up[r].ip)}, Null)
               /\ x.at = "redis"
               /\ x.user = up[r].user /\ x.ip = up[r].ip /\ x.route = up[r].route
               /\ x.token = up[r].token
               => Proper(x)
    BY <2>1 DEF Proper, Refreshing
  <2>3. "ip" \in Pcs \ {"find", "user"}
    BY DEF Pcs
  <2>4. OnlyServes(r) /\ up'[r].pc = "ip"
    BY <1>1, <1>3, <2>1, <2>2, <2>3, GoesOn, Known
  <2> QED
    BY <1>1, <2>4
<1> QED
  BY <1>1, <1>2, <1>3

\* The limit by address lets a request go on to the next limit, or ends it.
LEMMA IpStep ==
  ASSUME Basics, NEW r \in Requests, LimitByIp(r)
  PROVE  /\ OnlyServes(r) /\ up[r].pc = "ip" /\ up[r].at = "memory"
         /\ up'[r].pc \in {"target", "idle"}
<1>1. /\ up[r].pc = "ip" /\ up[r].at = "memory" /\ UNCHANGED redisVars
      /\ Done(r) \/ Goto(r, "target", "incr", TargetKey(up[r].route, up[r].user), Null)
  BY DEF LimitByIp, Finish
<1>2. CASE Done(r)
  BY <1>1, <1>2, Ends
<1>3. CASE Goto(r, "target", "incr", TargetKey(up[r].route, up[r].user), Null)
  <2>1. /\ up[r].ip \in Ips /\ up[r].route \in Routes /\ up[r].pc # "idle"
        /\ TargetKey(up[r].route, up[r].user) \in Keys
    BY <1>1, LoggingIn DEF LoginPcs
  <2>2. \A x : /\ x.pc = "target"
               /\ x.cmd = Command("incr", {TargetKey(up[r].route, up[r].user)}, Null)
               /\ x.at = "redis"
               /\ x.user = up[r].user /\ x.ip = up[r].ip /\ x.route = up[r].route
               /\ x.token = up[r].token
               => Proper(x)
    BY <2>1 DEF Proper, Refreshing
  <2>3. "target" \in Pcs \ {"find", "user"}
    BY DEF Pcs
  <2>4. OnlyServes(r) /\ up'[r].pc = "target"
    BY <1>1, <1>3, <2>1, <2>2, <2>3, GoesOn, Known
  <2> QED
    BY <1>1, <2>4
<1> QED
  BY <1>1, <1>2, <1>3

\* The limit by account lets a request go on to the user's row, or ends it.
LEMMA TargetStep ==
  ASSUME Basics, NEW r \in Requests, LimitByTarget(r)
  PROVE  /\ OnlyServes(r) /\ up[r].pc = "target" /\ up[r].at = "memory"
         /\ up'[r].pc \in {"find", "idle"}
<1>1. /\ up[r].pc = "target" /\ up[r].at = "memory" /\ UNCHANGED redisVars
      /\ Done(r) \/ Query(r, "find", Null)
  BY DEF LimitByTarget, Finish
<1>2. /\ up[r].ip \in Ips /\ up[r].route \in Routes /\ up[r].pc # "idle"
  BY <1>1, LoggingIn DEF LoginPcs
<1> QED
  BY <1>1, <1>2, Ends, GoesToQuery

\* A right password of an active user leads to the clearing of failures, any other to their count.
LEMMA PasswordStep ==
  ASSUME Basics, NEW r \in Requests, \E right \in BOOLEAN : ComparePassword(r, right)
  PROVE  /\ OnlyServes(r) /\ up[r].pc = "find"
         /\ up'[r].pc \in {"clear", "count"} /\ up'[r].at = "redis"
         /\ up'[r].pc = "clear" => up[r].user \notin inactive
<1> DEFINE k == FailKey(up[r].user, up[r].ip)
<1>1. /\ up[r].pc = "find" /\ UNCHANGED redisVars
      /\ \/ Goto(r, "clear", "del", k, Null) /\ up[r].user \notin inactive
         \/ Goto(r, "count", "incr", k, Null)
  BY DEF ComparePassword
<1>2. /\ up[r].ip \in Ips /\ up[r].route \in Routes /\ up[r].pc # "idle" /\ k \in Keys
  BY <1>1, LoggingIn DEF LoginPcs
<1>3. CASE Goto(r, "clear", "del", k, Null) /\ up[r].user \notin inactive
  <2>1. \A x : /\ x.pc = "clear" /\ x.cmd = Command("del", {k}, Null) /\ x.at = "redis"
               /\ x.user = up[r].user /\ x.ip = up[r].ip /\ x.route = up[r].route
               /\ x.token = up[r].token
               => Proper(x)
    BY <1>2 DEF Proper, Refreshing
  <2>2. "clear" \in Pcs \ {"find", "user"}
    BY DEF Pcs
  <2>3. OnlyServes(r) /\ up'[r].pc = "clear" /\ up'[r].at = "redis"
    <3> HIDE DEF k
    <3> QED
      BY <1>1, <1>2, <1>3, <2>1, <2>2, GoesOn, Known
  <2> QED
    BY <1>1, <1>3, <2>3
<1>4. CASE Goto(r, "count", "incr", k, Null)
  <2>1. \A x : /\ x.pc = "count" /\ x.cmd = Command("incr", {k}, Null) /\ x.at = "redis"
               /\ x.user = up[r].user /\ x.ip = up[r].ip /\ x.route = up[r].route
               /\ x.token = up[r].token
               => Proper(x)
    BY <1>2 DEF Proper, Refreshing
  <2>2. "count" \in Pcs \ {"find", "user"}
    BY DEF Pcs
  <2>3. OnlyServes(r) /\ up'[r].pc = "count" /\ up'[r].at = "redis"
    <3> HIDE DEF k
    <3> QED
      BY <1>1, <1>2, <1>4, <2>1, <2>2, GoesOn, Known
  <2> QED
    BY <1>1, <2>3
<1> QED
  BY <1>1, <1>3, <1>4

\* A counted failure leads to a block once the threshold is reached, and ends the request before.
LEMMA FailureStep ==
  ASSUME Basics, NEW r \in Requests, registerFailedLogin(r)
  PROVE  /\ OnlyServes(r) /\ up[r].pc = "count" /\ up[r].at = "memory"
         /\ \/ up'[r].pc = "block" /\ up'[r].at = "redis" /\ SameRequest(r)
            \/ up'[r].pc = "idle" /\ ~(Answer(r) >= Threshold)
<1> DEFINE k == BlockKey(up[r].user, up[r].ip)
<1>1. /\ up[r].pc = "count" /\ up[r].at = "memory" /\ UNCHANGED redisVars
      /\ \/ Goto(r, "block", "set", k, 1)
         \/ Done(r) /\ ~(Answer(r) >= Threshold)
  BY DEF registerFailedLogin, Finish
<1>2. /\ up[r].ip \in Ips /\ up[r].route \in Routes /\ up[r].pc # "idle" /\ k \in Keys
  BY <1>1, LoggingIn DEF LoginPcs
<1>3. CASE Goto(r, "block", "set", k, 1)
  <2>1. \A x : /\ x.pc = "block" /\ x.cmd = Command("set", {k}, 1) /\ x.at = "redis"
               /\ x.user = up[r].user /\ x.ip = up[r].ip /\ x.route = up[r].route
               /\ x.token = up[r].token
               => Proper(x)
    BY <1>2 DEF Proper, Refreshing
  <2>2. "block" \in Pcs \ {"find", "user"}
    BY DEF Pcs
  <2>3. OnlyServes(r) /\ up'[r].pc = "block" /\ up'[r].at = "redis"
    <3> HIDE DEF k
    <3> QED
      BY <1>1, <1>2, <1>3, <2>1, <2>2, GoesOn, Known
  <2> QED
    BY <1>1, <2>3 DEF OnlyServes
<1>4. CASE Done(r) /\ ~(Answer(r) >= Threshold)
  BY <1>1, <1>2, <1>4, Ends
<1> QED
  BY <1>1, <1>3, <1>4

\* The failures are cleared before the block is.
LEMMA ClearStep ==
  ASSUME Basics, NEW r \in Requests, clearLoginFailures(r)
  PROVE  /\ OnlyServes(r) /\ up[r].pc = "clear" /\ up[r].at = "memory"
         /\ up'[r].pc = "unblock" /\ up'[r].at = "redis"
<1> DEFINE c == Command("del", {BlockKey(up[r].user, up[r].ip)}, Null)
           x == [up[r] EXCEPT !.pc = "unblock", !.at = "redis", !.cmd = c]
<1>1. /\ up[r].pc = "clear" /\ up[r].at = "memory" /\ UNCHANGED redisVars
      /\ up' = [up EXCEPT ![r] = x]
  BY DEF clearLoginFailures, Finish
<1>2. /\ up[r].ip \in Ips /\ up[r].route \in Routes /\ up[r].pc # "idle"
      /\ BlockKey(up[r].user, up[r].ip) \in Keys
  BY <1>1, LoggingIn DEF LoginPcs
<1>3. c \in Call
  <2>1. "del" \in Ops /\ Null \in Values
    BY Known
  <2> QED
    BY <1>2, <2>1, CommandIs
<1>4. up[r] \in Serving /\ up \in [Requests -> Serving \union {Idle}]
  BY <1>2, ServingIsTyped DEF Basics, SessionsTypeOK
<1>5. x \in Serving
  <2> HIDE DEF c
  <2> QED
    BY <1>3, <1>4, ZenonT(30) DEF Serving
<1>6. /\ x.pc = "unblock" /\ x.at = "redis" /\ x.cmd = c
      /\ x.user = up[r].user /\ x.ip = up[r].ip /\ x.route = up[r].route
      /\ x.token = up[r].token
  <2> HIDE DEF c
  <2> QED
    BY <1>4 DEF Serving
<1>7. x.late = up[r].late
  <2> HIDE DEF c
  <2> QED
    BY <1>4, ZenonT(30) DEF Serving
<1> HIDE DEF x
<1>8. Proper(x)
  BY <1>2, <1>6 DEF Proper, Refreshing
<1>9. up'[r] = x /\ Others(r) /\ up' \in [Requests -> Serving \union {Idle}]
  BY <1>1, <1>4, <1>5 DEF Others
<1> QED
  BY <1>1, <1>2, <1>6, <1>7, <1>8, <1>9 DEF OnlyServes, SameRequest

\* A sign-in stores the second of its token under a new session.
LEMMA SignInStep ==
  ASSUME Basics, NEW r \in Requests, NEW s \in Sessions, SignIn(r, s)
  PROVE  /\ OnlyServes(r) /\ up[r].pc = "unblock" /\ up[r].at = "memory"
         /\ up'[r].pc = "session" /\ up'[r].at = "redis" /\ up'[r].ans = Null
         /\ up'[r].cmd = Command("set", {SessionKey(s)}, clock)
<1> DEFINE k == SessionKey(s)
<1>1. /\ up[r].pc = "unblock" /\ up[r].at = "memory" /\ UNCHANGED redisVars
      /\ Goto(r, "session", "set", k, clock)
  BY DEF SignIn, Finish
<1>2. /\ up[r].ip \in Ips /\ up[r].route \in Routes /\ up[r].pc # "idle" /\ k \in Keys
      /\ clock \in Nat
  BY <1>1, LoggingIn, KeysAre DEF LoginPcs, Basics, SessionsTypeOK
<1>3. \A x : /\ x.pc = "session" /\ x.cmd = Command("set", {k}, clock) /\ x.at = "redis"
             /\ x.user = up[r].user /\ x.ip = up[r].ip /\ x.route = up[r].route
             /\ x.token = up[r].token
             => Proper(x)
  BY <1>2 DEF Proper, Refreshing
<1>4. "session" \in Pcs \ {"find", "user"}
  BY DEF Pcs
<1>5. clock \in Values
  BY <1>2 DEF Values
<1> HIDE DEF k
<1>6. /\ OnlyServes(r) /\ up'[r].pc = "session" /\ up'[r].at = "redis" /\ up'[r].ans = Null
      /\ up'[r].cmd = Command("set", {k}, clock)
  <2>1. up[r].pc # "idle"
    BY <1>2
  <2>2. UNCHANGED redisVars
    BY <1>1
  <2>3. Goto(r, "session", "set", k, clock)
    BY <1>1
  <2>4. "set" \in Ops
    BY Known
  <2>5. k \in Keys
    BY <1>2
  <2> QED
    BY <1>3, <1>4, <1>5, <2>1, <2>2, <2>3, <2>4, <2>5, GoesOn
<1> QED
  BY <1>1, <1>6 DEF k

\* The steps of a refresh, and the end of any request.
LEMMA TokenStep ==
  ASSUME Basics, NEW r \in Requests, CheckToken(r)
  PROVE  /\ OnlyServes(r) /\ up[r].pc = "read" /\ up[r].at = "memory"
         /\ \/ /\ up'[r].pc = "user" /\ SameRequest(r) /\ Answer(r) = up[r].token.second
               /\ up'[r].from = IF up[r].ans = Null THEN "memory" ELSE "redis"
            \/ up'[r].pc = "idle"
<1>1. /\ up[r].pc = "read" /\ up[r].at = "memory" /\ UNCHANGED redisVars
      /\ \/ /\ Query(r, "user", IF up[r].ans = Null THEN "memory" ELSE "redis")
            /\ Answer(r) = up[r].token.second
         \/ Done(r)
  BY DEF CheckToken, Finish
<1>2. up[r].token \in Tokens /\ up[r].pc # "idle"
  BY <1>1, SessionOf DEF Refreshing
<1>3. CASE Done(r)
  BY <1>1, <1>2, <1>3, Ends
<1>4. CASE /\ Query(r, "user", IF up[r].ans = Null THEN "memory" ELSE "redis")
           /\ Answer(r) = up[r].token.second
  <2>1. PICK from \in {Null, "redis", "memory"} :
          Query(r, "user", from) /\ from = IF up[r].ans = Null THEN "memory" ELSE "redis"
    BY <1>4
  <2>2. OnlyServes(r) /\ up'[r].pc = "user" /\ up'[r].from = from
    BY <1>1, <1>2, <2>1, GoesToQuery
  <2> QED
    BY <1>1, <1>4, <2>1, <2>2 DEF OnlyServes
<1> QED
  BY <1>1, <1>3, <1>4

\* A refresh stores the second of its next token, if its user is active, or drops the session.
LEMMA RotateStep ==
  ASSUME Basics, NEW r \in Requests, Rotate(r)
  PROVE  /\ OnlyServes(r) /\ up[r].pc = "user"
         /\ up'[r].at = "redis" /\ up'[r].ans = Null /\ SameRequest(r)
         /\ \/ up'[r].pc = "drop"
            \/ /\ up'[r].pc = "rotate" /\ up[r].user \notin inactive
               /\ up'[r].cmd = Command("set", {SessionKey(up[r].token.session)}, clock)
<1> DEFINE k == SessionKey(up[r].token.session)
<1>1. /\ up[r].pc = "user" /\ UNCHANGED redisVars
      /\ \/ Goto(r, "drop", "del", k, Null)
         \/ Goto(r, "rotate", "set", k, clock) /\ up[r].user \notin inactive
  BY DEF Rotate
<1>2. /\ up[r].token \in Tokens /\ up[r].pc # "idle" /\ k \in Keys /\ clock \in Nat
      /\ clock \in Values
  BY <1>1, SessionOf, KeysAre DEF Refreshing, Basics, SessionsTypeOK, Values
<1>3. CASE Goto(r, "drop", "del", k, Null)
  <2>1. \A x : /\ x.pc = "drop" /\ x.cmd = Command("del", {k}, Null) /\ x.at = "redis"
               /\ x.user = up[r].user /\ x.ip = up[r].ip /\ x.route = up[r].route
               /\ x.token = up[r].token
               => Proper(x)
    BY <1>2 DEF Proper, LoginPcs
  <2>2. "drop" \in Pcs \ {"find", "user"}
    BY DEF Pcs, Refreshing
  <2>3. OnlyServes(r) /\ up'[r].pc = "drop" /\ up'[r].at = "redis" /\ up'[r].ans = Null
    <3> HIDE DEF k
    <3> QED
      BY <1>1, <1>2, <1>3, <2>1, <2>2, GoesOn, Known
  <2> QED
    BY <1>1, <2>3 DEF OnlyServes
<1>4. CASE Goto(r, "rotate", "set", k, clock) /\ up[r].user \notin inactive
  <2>1. \A x : /\ x.pc = "rotate" /\ x.cmd = Command("set", {k}, clock) /\ x.at = "redis"
               /\ x.user = up[r].user /\ x.ip = up[r].ip /\ x.route = up[r].route
               /\ x.token = up[r].token
               => Proper(x)
    BY <1>2 DEF Proper, LoginPcs
  <2>2. "rotate" \in Pcs \ {"find", "user"}
    BY DEF Pcs, Refreshing
  <2>3. /\ OnlyServes(r) /\ up'[r].pc = "rotate" /\ up'[r].at = "redis" /\ up'[r].ans = Null
        /\ up'[r].cmd = Command("set", {k}, clock)
    <3>1. up[r].pc # "idle" /\ k \in Keys /\ clock \in Values
      BY <1>2
    <3>2. UNCHANGED redisVars
      BY <1>1
    <3>3. Goto(r, "rotate", "set", k, clock)
      BY <1>4
    <3>4. "set" \in Ops
      BY Known
    <3> HIDE DEF k
    <3> QED
      BY <2>1, <2>2, <3>1, <3>2, <3>3, <3>4, GoesOn
  <2> QED
    BY <1>1, <1>4, <2>3 DEF OnlyServes
<1> QED
  BY <1>1, <1>3, <1>4

\* A response ends the request.
LEMMA LastStep ==
  ASSUME Basics, NEW r \in Requests, Respond(r)
  PROVE  /\ OnlyServes(r) /\ up[r].pc \in {"block", "session", "rotate", "drop", "logout"}
         /\ up[r].at = "memory" /\ up'[r].pc = "idle"
<1>1. /\ up[r].pc \in {"block", "session", "rotate", "drop", "logout"} /\ up[r].at = "memory"
      /\ UNCHANGED redisVars /\ Done(r)
  BY DEF Respond, Finish
<1> QED
  BY <1>1, Ends

\* A request that comes to the store.
LEMMA SubmitStep ==
  ASSUME Basics, NEW r \in Requests, NEW p \in Procs, NEW u \in Users, NEW i \in Ips,
         NEW route \in Routes, Submit(r, p, u, i, route)
  PROVE  /\ up' \in [Requests -> Serving \union {Idle}] /\ Others(r) /\ Proper(up'[r])
         /\ up[r].pc = "idle" /\ up'[r].pc \in {"blocked", "ip"} /\ up'[r].at = "redis"
         /\ up'[r].late <=> up'[r].user \in inactive
<1>1. BlockKey(u, i) \in Keys /\ IpKey(route, i) \in Keys
  BY KeysAre
<1>2. /\ i \in Maybe(Ips) /\ route \in Maybe(Routes) /\ Null \in Maybe(Tokens)
      /\ "blocked" \in Pcs /\ "ip" \in Pcs
  BY DEF Pcs, Maybe
<1>3. CASE Enter(r, Fresh(p, u, i, route, Null, "blocked", "get", BlockKey(u, i))) /\ route = "login"
  <2> DEFINE x == Fresh(p, u, i, route, Null, "blocked", "get", BlockKey(u, i))
  <2>1. /\ x \in Serving /\ x.pc = "blocked" /\ x.at = "redis"
        /\ x.cmd = Command("get", {BlockKey(u, i)}, Null)
        /\ x.user = u /\ x.ip = i /\ x.route = route /\ (x.late <=> u \in inactive)
    <3>1. "get" \in Ops /\ BlockKey(u, i) \in Keys
      BY <1>1, Known
    <3>2. i \in Maybe(Ips) /\ route \in Maybe(Routes) /\ Null \in Maybe(Tokens) /\ "blocked" \in Pcs
      BY <1>2
    <3> QED
      BY <3>1, <3>2, FreshIs
  <2>2. Enter(r, x)
    BY <1>3
  <2> HIDE DEF x
  <2>3. Proper(x)
    BY <1>3, <2>1 DEF Proper, Refreshing
  <2> QED
    BY <2>1, <2>2, <2>3, Entering DEF Basics
<1>4. CASE Enter(r, Fresh(p, u, i, route, Null, "ip", "incr", IpKey(route, i)))
  <2> DEFINE x == Fresh(p, u, i, route, Null, "ip", "incr", IpKey(route, i))
  <2>1. /\ x \in Serving /\ x.pc = "ip" /\ x.at = "redis"
        /\ x.cmd = Command("incr", {IpKey(route, i)}, Null)
        /\ x.user = u /\ x.ip = i /\ x.route = route /\ (x.late <=> u \in inactive)
    BY <1>1, <1>2, FreshIs, Known
  <2>2. Enter(r, x)
    BY <1>4
  <2> HIDE DEF x
  <2>3. Proper(x)
    BY <2>1 DEF Proper, Refreshing
  <2> QED
    BY <2>1, <2>2, <2>3, Entering DEF Basics
<1> QED
  BY <1>3, <1>4 DEF Submit

\* A refresh begins by reading the session of a token that was issued.
LEMMA RefreshStep ==
  ASSUME Basics, NEW r \in Requests, NEW p \in Procs, NEW t \in issued, Refresh(r, p, t)
  PROVE  /\ up' \in [Requests -> Serving \union {Idle}] /\ Others(r) /\ Proper(up'[r])
         /\ up[r].pc = "idle" /\ up'[r].pc = "read" /\ up'[r].at = "redis"
         /\ up'[r].ans = Null /\ up'[r].token = t
         /\ up'[r].late <=> up'[r].user \in inactive
<1> DEFINE k == SessionKey(t.session)
           u == owner[t.session]
<1>1. t \in Tokens /\ t.session \in Sessions /\ k \in Keys /\ u \in Users
  <2>1. t \in Tokens /\ owner \in [Sessions -> Users \union {Null}] /\ u # Null
    BY DEF Basics, SessionsTypeOK
  <2> QED
    BY <2>1, KeysAre DEF Tokens
<1> DEFINE x == Fresh(p, u, Null, Null, t, "read", "get", k)
<1>2. "read" \in Pcs /\ Enter(r, x)
  BY DEF Pcs, Refreshing, Refresh
<1>3. /\ x \in Serving /\ x.pc = "read" /\ x.at = "redis" /\ x.ans = Null
      /\ x.cmd = Command("get", {k}, Null)
      /\ x.user = u /\ x.token = t /\ (x.late <=> u \in inactive)
  <2>1. t \in Maybe(Tokens) /\ Null \in Maybe(Ips) /\ Null \in Maybe(Routes)
    BY <1>1 DEF Maybe
  <2>2. "read" \in Pcs /\ "get" \in Ops /\ k \in Keys /\ u \in Users
    BY <1>1, <1>2, Known
  <2> HIDE DEF k, u
  <2> QED
    BY <2>1, <2>2, FreshIs
<1> HIDE DEF x
<1>4. Proper(x)
  BY <1>1, <1>3 DEF Proper, LoginPcs
<1> QED
  BY <1>2, <1>3, <1>4, Entering DEF Basics

\* A logout begins by deleting a session of which a token was issued.
LEMMA LogoutStep ==
  ASSUME Basics, NEW r \in Requests, NEW p \in Procs, NEW s \in Sessions, Logout(r, p, s)
  PROVE  /\ up' \in [Requests -> Serving \union {Idle}] /\ Others(r) /\ Proper(up'[r])
         /\ up[r].pc = "idle" /\ up'[r].pc = "logout" /\ up'[r].at = "redis"
         /\ up'[r].token.session = s /\ ~up'[r].late
         /\ \E t \in issued : t.session = s
<1> DEFINE k == SessionKey(s)
           u == owner[s]
           t == Token(s, clock)
<1> DEFINE x == Fresh(p, u, Null, Null, t, "logout", "del", k)
<1>1. /\ \E y \in issued : y.session = s
      /\ u \notin inactive /\ Enter(r, x)
  BY DEF Logout
<1>2. t \in Tokens /\ t.session = s /\ k \in Keys /\ u \in Users
  <2>1. owner \in [Sessions -> Users \union {Null}] /\ u # Null /\ clock \in Nat
    BY <1>1 DEF Basics, SessionsTypeOK
  <2> QED
    BY <2>1, KeysAre DEF Tokens, Token
<1>3. "logout" \in Pcs
  BY DEF Pcs
<1>4. /\ x \in Serving /\ x.pc = "logout" /\ x.at = "redis"
      /\ x.cmd = Command("del", {k}, Null)
      /\ x.user = u /\ x.token = t /\ (x.late <=> u \in inactive)
  <2>1. t \in Maybe(Tokens) /\ Null \in Maybe(Ips) /\ Null \in Maybe(Routes)
    BY <1>2 DEF Maybe
  <2> HIDE DEF k, u, t
  <2> QED
    BY <1>2, <1>3, <2>1, FreshIs, Known
<1> HIDE DEF x
<1>5. Proper(x)
  BY <1>2, <1>4 DEF Proper, LoginPcs
<1> QED
  BY <1>1, <1>2, <1>4, <1>5, Entering DEF Basics

\* The counters that requests have passed are those of the limits.
LEMMA LimitKeyOf ==
  ASSUME Basics, NEW r \in Requests, up[r].pc \in {"ip", "target"}
  PROVE  Key(r) \in LimitKeys
<1>1. Proper(up[r]) /\ up[r] \in Serving
  BY ServingIsTyped DEF Basics
<1>2. up[r].ip \in Ips /\ up[r].route \in Routes /\ up[r].user \in Users
  BY <1>1 DEF Proper, LoginPcs, Serving
<1>3. CASE up[r].pc = "ip"
  <2>1. up[r].cmd = Command("incr", {IpKey(up[r].route, up[r].ip)}, Null)
    BY <1>1, <1>3 DEF Proper
  <2>2. up[r].cmd.keys = {IpKey(up[r].route, up[r].ip)}
    BY <2>1 DEF Command
  <2> QED
    BY <1>2, <2>2, OneKey, KeysAre
<1>4. CASE up[r].pc = "target"
  <2>1. up[r].cmd = Command("incr", {TargetKey(up[r].route, up[r].user)}, Null)
    BY <1>1, <1>4 DEF Proper
  <2>2. up[r].cmd.keys = {TargetKey(up[r].route, up[r].user)}
    BY <2>1 DEF Command
  <2> QED
    BY <1>2, <2>2, OneKey, KeysAre
<1> QED
  BY <1>3, <1>4

\* What a counter has let pass is a number.
LEMMA AdmitTyped ==
  ASSUME Basics, NEW r \in Requests, up[r].pc \in {"ip", "target"}, Admit(r)
  PROVE  admitted' \in [LimitKeys -> Nat]
BY LimitKeyOf, GhostTypes DEF Admit

\* A step of a request that is served, the sign-in apart.
LEMMA ServesBasics ==
  ASSUME Basics, NEW r \in Requests, OnlyServes(r),
         UNCHANGED <<clock, inactive, owner, issued>>,
         up'[r].pc \in Refreshing => up[r].pc \in Refreshing, up'[r].pc # "session",
         (Remember(r) /\ up[r].at # "query") \/ memory' = memory,
         admitted' \in [LimitKeys -> Nat], UNCHANGED <<lapsed, spent, revoked>>,
         raced' \subseteq Sessions, recalled' \subseteq Sessions
  PROVE  Basics'
<1>1. up'[r].pc \in Refreshing => up'[r].pc # "idle"
  BY DEF Refreshing
<1>2. \A s \in Sessions : InHand(up'[r], s) => InHand(up[r], s) \/ owner[s] # Null
  BY <1>1 DEF InHand, OnlyServes, SameRequest
<1>3. /\ UNCHANGED <<redisVars, clock, inactive, owner, issued>>
      /\ up' \in [Requests -> Serving \union {Idle}] /\ Others(r)
      /\ up'[r].pc # "idle" => Proper(up'[r])
      /\ (Remember(r) /\ up[r].pc # "idle" /\ up[r].at # "query") \/ memory' = memory
  BY DEF OnlyServes
<1> QED
  BY <1>2, <1>3, QuietHandler

\* The token a request hands out is one of a session that has an owner.
LEMMA Handed ==
  ASSUME Basics, NEW r \in Requests, up[r].pc \in {"session", "rotate"}
  PROVE  /\ Token(Key(r)[2], up[r].cmd.val) \in Tokens
         /\ Token(Key(r)[2], up[r].cmd.val).session = Key(r)[2]
         /\ Key(r)[2] \in Sessions /\ InHand(up[r], Key(r)[2])
         /\ owner[Key(r)[2]] # Null
<1>1. /\ Key(r)[2] \in Sessions /\ Key(r) = SessionKey(Key(r)[2])
      /\ up[r].cmd.keys = {Key(r)} /\ up[r].cmd.val \in Nat
      /\ up[r].pc = "rotate" => /\ Key(r) = SessionKey(up[r].token.session)
                                /\ up[r].token.session \in Sessions
  BY SessionOf DEF Refreshing
<1>2. InHand(up[r], Key(r)[2])
  BY <1>1, KeysDiffer DEF InHand, Refreshing
<1> QED
  BY <1>1, <1>2 DEF Token, Tokens, Basics

\* A response keeps Basics.
LEMMA RespondKeepsBasics ==
  ASSUME Basics, NEW r \in Requests, Respond(r)
  PROVE  Basics'
<1>1. OnlyServes(r) /\ up[r].at = "memory" /\ up'[r].pc = "idle"
  BY LastStep
<1>2. /\ Remember(r) /\ UNCHANGED <<clock, inactive, owner>>
      /\ UNCHANGED <<admitted, lapsed, spent, raced, revoked, recalled>>
      /\ issued' = IF up[r].pc \in {"session", "rotate"}
                   THEN issued \union {Token(Key(r)[2], up[r].cmd.val)} ELSE issued
  BY DEF Respond, Finish, ghosts
<1>3. issued' \subseteq Tokens /\ \A t \in issued' : owner'[t.session] # Null
  BY <1>2, Handed DEF Basics, SessionsTypeOK
<1>4. memory' \in [Procs -> [Keys -> Values]]
  BY <1>1, <1>2, AnswerIs DEF OnlyServes
<1>5. /\ UNCHANGED redisVars /\ up' \in [Requests -> Serving \union {Idle}] /\ Others(r)
      /\ up'[r].pc # "idle" => Proper(up'[r])
  BY <1>1 DEF OnlyServes
<1>6. /\ inactive' \subseteq Users /\ clock' \in Nat
      /\ owner' \in [Sessions -> Users \union {Null}]
      /\ \A s \in Sessions : owner[s] # Null => owner'[s] # Null
      /\ \A s \in Sessions : InHand(up'[r], s) => owner'[s] # Null
  BY <1>1, <1>2 DEF Basics, SessionsTypeOK, InHand, Refreshing
<1>7. /\ admitted' \in [LimitKeys -> Nat] /\ UNCHANGED <<lapsed, spent, revoked>>
      /\ raced' \subseteq Sessions /\ recalled' \subseteq Sessions
  BY <1>2, GhostTypes
<1> QED
  BY <1>3, <1>4, <1>5, <1>6, <1>7, HandlerKeepsBasics

\* A sign-in keeps Basics.
LEMMA SignInKeepsBasics ==
  ASSUME Basics, NEW r \in Requests, NEW s \in Sessions, SignIn(r, s)
  PROVE  Basics'
<1>1. /\ OnlyServes(r) /\ up[r].pc = "unblock" /\ up[r].at = "memory"
      /\ up'[r].pc = "session" /\ up'[r].cmd = Command("set", {SessionKey(s)}, clock)
  BY SignInStep
<1>2. /\ Remember(r) /\ UNCHANGED <<clock, inactive, issued>>
      /\ UNCHANGED <<admitted, lapsed, spent, raced, revoked, recalled>>
      /\ owner' = [owner EXCEPT ![s] = up[r].user]
  BY DEF SignIn, Finish, ghosts
<1>3. up[r].user \in Users /\ up[r].user # Null /\ owner \in [Sessions -> Users \union {Null}]
  BY <1>1, LoggingIn, SessionsAssumption DEF LoginPcs, Basics, SessionsTypeOK
<1>4. /\ owner' \in [Sessions -> Users \union {Null}] /\ owner'[s] # Null
      /\ \A x \in Sessions : owner[x] # Null => owner'[x] # Null
  BY <1>2, <1>3
<1>5. \A x \in Sessions : InHand(up'[r], x) => owner'[x] # Null
  <2>1. up'[r].cmd.keys = {SessionKey(s)}
    BY <1>1 DEF Command
  <2>2. ASSUME NEW x \in Sessions, InHand(up'[r], x) PROVE x = s
    <3>1. {SessionKey(x)} = {SessionKey(s)}
      BY <1>1, <2>1, <2>2 DEF InHand, Refreshing
    <3> QED
      BY <3>1, KeysDiffer
  <2> QED
    BY <1>4, <2>2
<1>6. memory' \in [Procs -> [Keys -> Values]]
  BY <1>1, <1>2, AnswerIs DEF OnlyServes
<1>7. /\ UNCHANGED redisVars /\ up' \in [Requests -> Serving \union {Idle}] /\ Others(r)
      /\ up'[r].pc # "idle" => Proper(up'[r])
  BY <1>1 DEF OnlyServes
<1>8. /\ inactive' \subseteq Users /\ clock' \in Nat /\ issued' \subseteq Tokens
      /\ \A t \in issued' : owner'[t.session] # Null
  BY <1>2, <1>4 DEF Basics, SessionsTypeOK, Tokens
<1>9. /\ admitted' \in [LimitKeys -> Nat] /\ UNCHANGED <<lapsed, spent, revoked>>
      /\ raced' \subseteq Sessions /\ recalled' \subseteq Sessions
  BY <1>2, GhostTypes
<1> QED
  BY <1>4, <1>5, <1>6, <1>7, <1>8, <1>9, HandlerKeepsBasics

\* A request that comes.
LEMMA ComingKeepsBasics ==
  ASSUME Basics, NEW r \in Requests,
         UNCHANGED <<redisVars, memory, clock, inactive, owner, issued>>,
         UNCHANGED <<admitted, lapsed, spent, revoked, recalled>>, raced' \subseteq Sessions,
         up' \in [Requests -> Serving \union {Idle}], Others(r), Proper(up'[r]),
         up'[r].pc # "session",
         up'[r].pc \in Refreshing => owner[up'[r].token.session] # Null
  PROVE  Basics'
<1>1. \A s \in Sessions : InHand(up'[r], s) => InHand(up[r], s) \/ owner[s] # Null
  BY DEF InHand
<1>2. /\ admitted' \in [LimitKeys -> Nat] /\ recalled' \subseteq Sessions
      /\ UNCHANGED <<lapsed, spent, revoked>>
  BY GhostTypes
<1> QED
  BY <1>1, <1>2, QuietHandler

\* What makes a request proper.
LEMMA AsProper ==
  ASSUME NEW x, NEW y, Proper(y), x.pc = y.pc, x.at = y.at, x.cmd = y.cmd,
         x.user = y.user, x.ip = y.ip, x.route = y.route, x.token = y.token
  PROVE  Proper(x)
BY DEF Proper

\* Time and failures: the slots are as they were, or idle, or have no window.
LEMMA WorldKeepsBasics ==
  ASSUME Basics,
         redis' \in [Keys -> Kept], offline' \subseteq Procs, faults' \in Nat,
         strays' \subseteq strays, memory' \in [Procs -> [Keys -> Values]],
         clock' \in Nat, inactive' \subseteq Users, UNCHANGED owner, issued' \subseteq issued,
         up' \in [Requests -> Serving \union {Idle}],
         \A r \in Requests :
           \/ up'[r].pc = "idle"
           \/ up'[r].pc = up[r].pc /\ up'[r].cmd = up[r].cmd /\ up'[r].at = up[r].at
              /\ SameRequest(r),
         admitted' \in [LimitKeys -> Nat], lapsed' \subseteq Blocks,
         UNCHANGED <<spent, raced, revoked, recalled>>
  PROVE  Basics'
<1>1. SessionsTypeOK'
  BY DEF Basics, SessionsTypeOK, Kept, Values
<1>2. ASSUME NEW r \in Requests, up'[r].pc # "idle" PROVE Proper(up'[r])
  <2>1. /\ up'[r].pc = up[r].pc /\ up'[r].cmd = up[r].cmd /\ up'[r].at = up[r].at
        /\ SameRequest(r)
    BY <1>2
  <2>2. Proper(up[r])
    BY <1>2, <2>1 DEF Basics
  <2> QED
    BY <2>1, <2>2, AsProper DEF SameRequest
<1>3. \A c \in strays' : ProperStray(c)
  BY DEF Basics
<1>4. \A r \in Requests, s \in Sessions : InHand(up'[r], s) => InHand(up[r], s)
  BY DEF InHand, SameRequest, Refreshing
<1>5. /\ \A t \in issued' : owner'[t.session] # Null
      /\ \A r \in Requests, s \in Sessions : InHand(up'[r], s) => owner'[s] # Null
  BY <1>4 DEF Basics
<1> QED
  BY <1>1, <1>2, <1>3, <1>5 DEF Basics, InHand

\* What they start from.
LEMMA WorldTypes ==
  ASSUME Basics
  PROVE  /\ redis \in [Keys -> Kept] /\ offline \subseteq Procs /\ faults \in Nat
         /\ strays \subseteq Call /\ memory \in [Procs -> [Keys -> Values]]
         /\ clock \in Nat /\ inactive \subseteq Users
         /\ up \in [Requests -> Serving \union {Idle}]
         /\ admitted \in [LimitKeys -> Nat] /\ lapsed \subseteq Blocks
         /\ Missing \in Kept /\ Null \in Values
BY DEF Basics, SessionsTypeOK, Kept, Values, Missing

\* The window of a request is over when that of its counter is.
LEMMA Closing ==
  ASSUME Basics, NEW k,
         up' = [r \in Requests |->
                  IF up[r].pc # "idle" /\ up[r].at # "query" /\ k \in up[r].cmd.keys
                  THEN [up[r] EXCEPT !.window = FALSE] ELSE up[r]]
  PROVE  /\ up' \in [Requests -> Serving \union {Idle}]
         /\ \A r \in Requests :
              /\ up'[r].pc = up[r].pc /\ up'[r].cmd = up[r].cmd /\ up'[r].at = up[r].at
              /\ up'[r].ans = up[r].ans /\ up'[r].from = up[r].from /\ SameRequest(r)
              /\ up[r].pc # "idle" /\ up[r].at # "query" /\ k \in up[r].cmd.keys
                   => up'[r].window = FALSE
              /\ ~(up[r].pc # "idle" /\ up[r].at # "query" /\ k \in up[r].cmd.keys)
                   => up'[r] = up[r]
<1> SUFFICES ASSUME NEW r \in Requests
             PROVE  /\ up'[r] \in Serving \union {Idle}
                    /\ up'[r].pc = up[r].pc /\ up'[r].cmd = up[r].cmd /\ up'[r].at = up[r].at
                    /\ up'[r].ans = up[r].ans /\ up'[r].from = up[r].from /\ SameRequest(r)
                    /\ up[r].pc # "idle" /\ up[r].at # "query" /\ k \in up[r].cmd.keys
                         => up'[r].window = FALSE
                    /\ ~(up[r].pc # "idle" /\ up[r].at # "query" /\ k \in up[r].cmd.keys)
                         => up'[r] = up[r]
  OBVIOUS
<1>1. CASE up[r].pc # "idle" /\ up[r].at # "query" /\ k \in up[r].cmd.keys
  <2> DEFINE x == [up[r] EXCEPT !.window = FALSE]
  <2>1. up[r] \in Serving
    BY <1>1, ServingIsTyped DEF Basics
  <2>2. up'[r] = x
    BY <1>1
  <2>3. x \in Serving
    BY <2>1, ZenonT(30) DEF Serving
  <2>4. /\ x.pc = up[r].pc /\ x.cmd = up[r].cmd /\ x.at = up[r].at /\ x.ans = up[r].ans
        /\ x.user = up[r].user /\ x.ip = up[r].ip /\ x.route = up[r].route
        /\ x.token = up[r].token /\ x.from = up[r].from
    BY <2>1 DEF Serving
  <2>5. x.late = up[r].late /\ x.window = FALSE
    BY <2>1, ZenonT(30) DEF Serving
  <2> HIDE DEF x
  <2> QED
    BY <1>1, <2>2, <2>3, <2>4, <2>5 DEF SameRequest
<1>2. CASE ~(up[r].pc # "idle" /\ up[r].at # "query" /\ k \in up[r].cmd.keys)
  <2>1. up'[r] = up[r]
    BY <1>2
  <2> QED
    BY <1>2, <2>1, WorldTypes DEF SameRequest
<1> QED
  BY <1>1, <1>2

\* The end of a window keeps Basics.
LEMMA WindowKeepsBasics ==
  ASSUME Basics, NEW k \in Counters \union Blocks, WindowEnds(k)
  PROVE  Basics'
<1>1. /\ UNCHANGED <<memory, clock, inactive, owner, issued, spent, raced, revoked, recalled>>
      /\ UNCHANGED <<offline, strays, faults>>
      /\ redis' = [redis EXCEPT ![k] = Missing]
      /\ admitted' = [j \in LimitKeys |-> IF j = k THEN 0 ELSE admitted[j]]
      /\ lapsed' = IF k \in Blocks THEN lapsed \union {k} ELSE lapsed
      /\ up' = [r \in Requests |->
                  IF up[r].pc # "idle" /\ up[r].at # "query" /\ k \in up[r].cmd.keys
                  THEN [up[r] EXCEPT !.window = FALSE] ELSE up[r]]
  BY DEF WindowEnds, Expire
<1>2. /\ redis' \in [Keys -> Kept] /\ admitted' \in [LimitKeys -> Nat] /\ lapsed' \subseteq Blocks
  BY <1>1, WorldTypes
<1> QED
  BY <1>1, <1>2, Closing, WorldTypes, WorldKeepsBasics

\* An entry that leaves the memory of a process keeps Basics.
LEMMA ForgetKeepsBasics ==
  ASSUME Basics, NEW p \in Procs, NEW k \in Keys, Forget(p, k)
  PROVE  Basics'
<1>1. /\ UNCHANGED <<clock, inactive, owner, issued, up, offline, strays, faults, redis>>
      /\ UNCHANGED <<admitted, lapsed, spent, raced, revoked, recalled>>
      /\ memory' = [memory EXCEPT ![p] = [memory[p] EXCEPT ![k] = Null]]
  BY DEF Forget, redisVars, ghosts
<1>2. memory' \in [Procs -> [Keys -> Values]]
  BY <1>1, WorldTypes
<1> QED
  BY <1>1, <1>2, WorldTypes, WorldKeepsBasics DEF SameRequest

\* The expiry of a session keeps Basics.
LEMMA SessionEndKeepsBasics ==
  ASSUME Basics, NEW s \in Sessions, SessionEnds(s)
  PROVE  Basics'
<1>1. /\ UNCHANGED <<clock, inactive, owner, up, offline, strays, faults>>
      /\ UNCHANGED <<admitted, lapsed, spent, raced, revoked, recalled>>
      /\ redis' = [redis EXCEPT ![SessionKey(s)] = Missing]
      /\ memory' = [p \in Procs |-> [memory[p] EXCEPT ![SessionKey(s)] = Null]]
      /\ issued' \subseteq issued
  BY DEF SessionEnds, Expire, ghosts
<1>2. redis' \in [Keys -> Kept] /\ memory' \in [Procs -> [Keys -> Values]]
  BY <1>1, WorldTypes
<1> QED
  BY <1>1, <1>2, WorldTypes, WorldKeepsBasics DEF SameRequest

\* A late command keeps Basics.
LEMMA StragglerKeepsBasics ==
  ASSUME Basics, NEW c \in strays, Straggler(c)
  PROVE  Basics'
<1>1. /\ UNCHANGED <<memory, clock, inactive, owner, issued, up, offline, faults>>
      /\ UNCHANGED <<admitted, lapsed, spent, raced, revoked, recalled>>
      /\ redis' = Effect(c, redis) /\ strays' \subseteq strays
  BY DEF Straggler, StrayArrives, ghosts
<1>2. redis' \in [Keys -> Kept]
  BY <1>1, WorldTypes, EffectIs DEF Basics
<1> QED
  BY <1>1, <1>2, WorldTypes, WorldKeepsBasics DEF SameRequest

\* The end of a backoff and a restart keep Basics.
LEMMA RestartKeepsBasics ==
  ASSUME Basics, NEW p \in Procs, BackOn(p) \/ Restart(p)
  PROVE  Basics'
<1>1. CASE BackOn(p)
  <2>1. /\ UNCHANGED <<memory, clock, inactive, owner, issued, up, redis, faults, strays>>
        /\ UNCHANGED <<admitted, lapsed, spent, raced, revoked, recalled>>
        /\ offline' \subseteq offline
    BY <1>1 DEF BackOn, Reconnect, ghosts
  <2> QED
    BY <2>1, WorldTypes, WorldKeepsBasics DEF SameRequest
<1>2. CASE Restart(p)
  <2>1. /\ UNCHANGED <<redis, strays, clock, inactive, owner, issued>>
        /\ UNCHANGED <<admitted, lapsed, spent, raced, revoked, recalled>>
        /\ faults' = faults + 1 /\ offline' \subseteq offline
        /\ memory' = [memory EXCEPT ![p] = Empty]
        /\ up' = [r \in Requests |-> IF up[r].pc # "idle" /\ up[r].proc = p THEN Idle ELSE up[r]]
    BY <1>2 DEF Restart, ghosts
  <2>2. memory' \in [Procs -> [Keys -> Values]] /\ faults' \in Nat
    BY <2>1, WorldTypes DEF Empty
  <2>3. /\ up' \in [Requests -> Serving \union {Idle}]
        /\ \A r \in Requests : up'[r].pc = "idle" \/ up'[r] = up[r]
    BY <2>1, WorldTypes DEF Idle
  <2> QED
    BY <2>1, <2>2, <2>3, WorldTypes, WorldKeepsBasics DEF SameRequest
<1> QED
  BY <1>1, <1>2

\* The steps of login and refresh that end no request by themselves keep Basics.
LEMMA HandlersKeepBasics ==
  ASSUME Basics, NEW r \in Requests,
         \/ assertLoginAllowed(r) \/ LimitByIp(r) \/ LimitByTarget(r)
         \/ registerFailedLogin(r) \/ clearLoginFailures(r) \/ CheckToken(r) \/ Rotate(r)
         \/ \E right \in BOOLEAN : ComparePassword(r, right)
  PROVE  Basics'
<1>0. /\ {"ip", "target", "find", "count", "block", "clear", "unblock", "idle"} \intersect
            (Refreshing \union {"session"}) = {}
      /\ {"read", "user", "drop", "rotate"} = Refreshing
  BY DEF Refreshing
<1>1. CASE assertLoginAllowed(r)
  BY <1>0, <1>1, BlockedStep, GhostTypes, ServesBasics DEF assertLoginAllowed, Finish, ghosts
<1>2. CASE LimitByIp(r)
  <2>1. admitted' \in [LimitKeys -> Nat]
    BY <1>2, IpStep, AdmitTyped DEF LimitByIp
  <2> QED
    BY <1>0, <1>2, <2>1, IpStep, GhostTypes, ServesBasics DEF LimitByIp, Finish
<1>3. CASE LimitByTarget(r)
  <2>1. admitted' \in [LimitKeys -> Nat]
    BY <1>3, TargetStep, AdmitTyped DEF LimitByTarget
  <2> QED
    BY <1>0, <1>3, <2>1, TargetStep, GhostTypes, ServesBasics DEF LimitByTarget, Finish
<1>4. CASE registerFailedLogin(r)
  BY <1>0, <1>4, FailureStep, GhostTypes, ServesBasics DEF registerFailedLogin, Finish, ghosts
<1>5. CASE clearLoginFailures(r)
  BY <1>0, <1>5, ClearStep, GhostTypes, ServesBasics DEF clearLoginFailures, Finish, ghosts
<1>6. CASE CheckToken(r)
  <2>1. recalled' \subseteq Sessions
    <3>1. up[r].token.session \in Sessions
      BY <1>6, TokenStep, SessionOf DEF Refreshing
    <3> QED
      BY <1>6, <3>1, GhostTypes DEF CheckToken
  <2> QED
    BY <1>0, <1>6, <2>1, TokenStep, GhostTypes, ServesBasics DEF CheckToken, Finish
<1>7. CASE Rotate(r)
  BY <1>0, <1>7, RotateStep, GhostTypes, ServesBasics DEF Rotate, ghosts
<1>8. CASE \E right \in BOOLEAN : ComparePassword(r, right)
  BY <1>0, <1>8, PasswordStep, GhostTypes, ServesBasics DEF ComparePassword, ghosts
<1> QED
  BY <1>1, <1>2, <1>3, <1>4, <1>5, <1>6, <1>7, <1>8

\* A new request keeps Basics.
LEMMA EntrancesKeepBasics ==
  ASSUME Basics, NEW r \in Requests, NEW p \in Procs,
         \/ \E u \in Users, i \in Ips, route \in Routes : Submit(r, p, u, i, route)
         \/ \E t \in issued : Refresh(r, p, t)
         \/ \E s \in Sessions : Logout(r, p, s)
  PROVE  Basics'
<1>1. ASSUME NEW u \in Users, NEW i \in Ips, NEW route \in Routes, Submit(r, p, u, i, route)
      PROVE  Basics'
  <2>1. /\ up' \in [Requests -> Serving \union {Idle}] /\ Others(r) /\ Proper(up'[r])
        /\ up'[r].pc \in {"blocked", "ip"}
    BY <1>1, SubmitStep
  <2>2. /\ UNCHANGED <<redisVars, memory, clock, inactive, owner, issued>>
        /\ UNCHANGED <<admitted, lapsed, spent, revoked, recalled>> /\ raced' \subseteq Sessions
    BY <1>1, GhostTypes DEF Submit, ghosts
  <2>3. up'[r].pc # "session" /\ up'[r].pc \notin Refreshing
    BY <2>1 DEF Refreshing
  <2> QED
    BY <2>1, <2>2, <2>3, ComingKeepsBasics
<1>2. ASSUME NEW t \in issued, Refresh(r, p, t) PROVE Basics'
  <2>1. /\ up' \in [Requests -> Serving \union {Idle}] /\ Others(r) /\ Proper(up'[r])
        /\ up'[r].pc = "read" /\ up'[r].token = t
    BY <1>2, RefreshStep
  <2>2. owner[t.session] # Null /\ t.session \in Sessions
    BY DEF Basics, SessionsTypeOK, Tokens
  <2>3. /\ UNCHANGED <<redisVars, memory, clock, inactive, owner, issued>>
        /\ UNCHANGED <<admitted, lapsed, spent, revoked, recalled>> /\ raced' \subseteq Sessions
    BY <1>2, <2>2, GhostTypes DEF Refresh
  <2> QED
    BY <2>1, <2>2, <2>3, ComingKeepsBasics
<1>3. ASSUME NEW s \in Sessions, Logout(r, p, s) PROVE Basics'
  <2>1. /\ up' \in [Requests -> Serving \union {Idle}] /\ Others(r) /\ Proper(up'[r])
        /\ up'[r].pc = "logout"
    BY <1>3, LogoutStep
  <2>2. /\ UNCHANGED <<redisVars, memory, clock, inactive, owner, issued>>
        /\ UNCHANGED <<admitted, lapsed, spent, revoked, recalled>> /\ raced' \subseteq Sessions
    BY <1>3, GhostTypes DEF Logout, ghosts
  <2>3. up'[r].pc # "session" /\ up'[r].pc \notin Refreshing
    BY <2>1 DEF Refreshing
  <2> QED
    BY <2>1, <2>2, <2>3, ComingKeepsBasics
<1> QED
  BY <1>1, <1>2, <1>3

\* The deletion of an account keeps Basics.
LEMMA DeletionKeepsBasics ==
  ASSUME Basics, NEW u \in Users, DeleteAccount(u)
  PROVE  Basics'
<1>1. /\ UNCHANGED <<redis, offline, strays, faults, memory, clock, owner, issued, up>>
      /\ UNCHANGED <<admitted, lapsed, spent, raced, revoked, recalled>>
      /\ inactive' = inactive \union {u}
  BY DEF DeleteAccount, redisVars, ghosts
<1>2. inactive' \subseteq Users
  BY <1>1, WorldTypes
<1> QED
  BY <1>1, <1>2, WorldTypes, WorldKeepsBasics DEF SameRequest

\* The passing of a second keeps Basics.
LEMMA TickKeepsBasics ==
  ASSUME Basics, Tick
  PROVE  Basics'
<1>1. /\ UNCHANGED <<redis, offline, strays, faults, memory, inactive, owner, issued, up>>
      /\ UNCHANGED <<admitted, lapsed, spent, raced, revoked, recalled>>
      /\ clock' = clock + 1
  BY DEF Tick, redisVars, ghosts
<1>2. clock' \in Nat
  BY <1>1, WorldTypes
<1> QED
  BY <1>1, <1>2, WorldTypes, WorldKeepsBasics DEF SameRequest

\* Each kind of step, by name.
LEMMA StepKeepsBasics ==
  ASSUME Basics, [Next]_vars
  PROVE  Basics'
<1>1. CASE UNCHANGED vars
  BY <1>1, ZenonT(60) DEF vars, redisVars, ghosts, Basics, SessionsTypeOK, Proper, InHand
<1>2. CASE Next
  <2>1. ASSUME NEW r \in Requests,
               \/ AskRedis(r) \/ AskExpiry(r) \/ Respond(r)
               \/ \E s \in Sessions : SignIn(r, s)
        PROVE  Basics'
    BY <2>1, AskKeepsBasics, ExpiryKeepsBasics, RespondKeepsBasics, SignInKeepsBasics
  <2>2. ASSUME NEW p \in Procs, BackOn(p) \/ Restart(p) \/ \E k \in Keys : Forget(p, k)
        PROVE  Basics'
    BY <2>2, RestartKeepsBasics, ForgetKeepsBasics
  <2> QED
    BY <1>2, <2>1, <2>2, HandlersKeepBasics, EntrancesKeepBasics, DeletionKeepsBasics,
       WindowKeepsBasics, SessionEndKeepsBasics, StragglerKeepsBasics, TickKeepsBasics
       DEF Next
<1> QED
  BY <1>1, <1>2

\* Types: Redis, the maps, the tokens and the ghosts keep theirs, every slot holds
\* a request of its handler or none, each request at a step of its handler with
\* the call that step makes; every token, and every session a request has in
\* hand, belongs to somebody.
THEOREM SessionsTypeCorrect == Spec => []SessionsTypeOK
<1>1. Basics /\ [Next]_vars => Basics'
  BY StepKeepsBasics
<1>2. Basics => SessionsTypeOK
  BY DEF Basics
<1> QED
  BY <1>1, <1>2, InitBasics, PTL DEF Spec

-----------------------------------------------------------------------------
(* Counters never admit more than their limit.                             *)

\* What Redis has counted.
Count(k) == IF redis[k].val = Null THEN 0 ELSE redis[k].val

\* A request that Redis has counted in the present window and that will pass.
Passing(x, k) ==
  /\ x.pc # "idle" /\ x.at \in {"expire", "memory"} /\ x.window
  /\ x.cmd.keys = {k} /\ Passes(x.ans)
Pending(k) == {r \in Requests : Passing(up[r], k)}

\* Only an answer of Redis opens a window.
Windowed(x) == x.pc # "idle" /\ x.at \in {"expire", "memory"} /\ x.window => x.ans \in Nat

\* Those who passed and those who will are no more than Redis has counted, and
\* no more than the limit.
Fits(k) ==
  /\ admitted[k] + Cardinality(Pending(k)) <= Count(k)
  /\ admitted[k] + Cardinality(Pending(k)) <= Limit

AdmitInv ==
  /\ \A r \in Requests : Windowed(up[r])
  /\ \A k \in LimitKeys : Fits(k)

\* The count of a limit is a number.
LEMMA CountIs ==
  ASSUME Basics, NEW k \in LimitKeys
  PROVE  Count(k) \in Nat
<1>1. redis[k].val \in Values
  BY WorldTypes, KeysAre DEF Kept
<1> QED
  BY <1>1 DEF Count, Values

\* The requests about to be let pass are finitely many.
LEMMA PendingIs ==
  ASSUME NEW k
  PROVE  IsFiniteSet(Pending(k)) /\ Cardinality(Pending(k)) \in Nat
BY SessionsAssumption, FS_Subset, FS_CardinalityType DEF Pending

\* A command never lowers a counter of requests, an INCR raises it by one.
LEMMA CountGrows ==
  ASSUME Basics, NEW c \in Call, ProperStray(c), redis' = Effect(c, redis), NEW k \in LimitKeys
  PROVE  /\ Count(k)' \in Nat /\ Count(k)' >= Count(k)
         /\ c.op = "incr" /\ c.keys = {k} =>
              Count(k)' = Count(k) + 1 /\ redis'[k].val = Count(k)'
<1>1. k \in Keys /\ redis[k].val \in Values
  BY WorldTypes, KeysAre DEF Kept
<1>2. Null \notin Nat
  BY SessionsAssumption
<1>3. /\ k \notin c.keys => redis'[k] = redis[k]
      /\ k \in c.keys =>
           /\ c.op = "incr" => /\ redis[k].val = Null => redis'[k].val = 1
                               /\ redis[k].val \in Nat => redis'[k].val = redis[k].val + 1
           /\ c.op = "expire" => redis'[k].val = redis[k].val
  BY <1>1, EffectIs DEF Basics
<1>4. k \in c.keys => c.op \in {"incr", "expire"}
  BY DEF ProperStray
<1> QED
  BY <1>1, <1>2, <1>3, <1>4 DEF Count, Values

\* Requests that do not come into the window, and a count that does not fall.
LEMMA StillFits ==
  ASSUME Basics, NEW k \in LimitKeys, Fits(k),
         \A r \in Requests : Passing(up'[r], k) => Passing(up[r], k),
         Count(k)' \in Nat, Count(k)' >= Count(k), admitted'[k] = admitted[k]
  PROVE  Fits(k)'
<1>1. Pending(k)' \subseteq Pending(k)
  BY DEF Pending, Passing
<1>2. Cardinality(Pending(k)') <= Cardinality(Pending(k)) /\ Cardinality(Pending(k)') \in Nat
  BY <1>1, PendingIs, FS_Subset, FS_CardinalityType
<1>3. admitted[k] \in Nat /\ Count(k) \in Nat /\ Limit \in Nat /\ Cardinality(Pending(k)) \in Nat
  BY CountIs, GhostTypes, PendingIs, SessionsAssumption
<1> QED
  BY <1>2, <1>3 DEF Fits

\* A step that lets no request pass.
LEMMA QuietAdmit ==
  ASSUME Basics, AdmitInv, admitted' = admitted,
         \A k \in LimitKeys : Count(k)' \in Nat /\ Count(k)' >= Count(k),
         \A r \in Requests : Windowed(up'[r]),
         \A r \in Requests, k \in LimitKeys : Passing(up'[r], k) => Passing(up[r], k)
  PROVE  AdmitInv'
<1>1. \A k \in LimitKeys : Fits(k)'
  BY StillFits DEF AdmitInv
<1>2. \A r \in Requests : Windowed(up[r])'
  BY DEF Windowed
<1> QED
  BY <1>1, <1>2 DEF AdmitInv

\* Redis as it is counts as it does.
LEMMA SameCount ==
  ASSUME Basics, UNCHANGED redis
  PROVE  \A k \in LimitKeys : Count(k)' \in Nat /\ Count(k)' >= Count(k) /\ Count(k)' = Count(k)
<1>1. \A k \in LimitKeys : Count(k) \in Nat /\ Count(k)' = Count(k)
  BY CountIs DEF Count
<1> QED
  BY <1>1

\* A request that goes on to its next call, or ends, is in no window.
LEMMA OutOfWindow ==
  ASSUME NEW x, x.pc = "idle" \/ x.at \in {"redis", "query"}
  PROVE  Windowed(x) /\ \A k : ~Passing(x, k)
BY DEF Windowed, Passing

\* A step that lets nobody pass and asks Redis nothing keeps AdmitInv.
LEMMA ServesAdmit ==
  ASSUME Basics, AdmitInv, NEW r \in Requests, OnlyServes(r), admitted' = admitted
  PROVE  AdmitInv'
<1>1. \A q \in Requests : up'[q] = up[q] \/ up'[q].pc = "idle" \/ up'[q].at \in {"redis", "query"}
  BY DEF OnlyServes, Others
<1>2. /\ \A q \in Requests : Windowed(up'[q])
      /\ \A q \in Requests, k \in LimitKeys : Passing(up'[q], k) => Passing(up[q], k)
  BY <1>1, OutOfWindow DEF AdmitInv
<1>3. \A k \in LimitKeys : Count(k)' \in Nat /\ Count(k)' >= Count(k)
  BY SameCount DEF OnlyServes, redisVars
<1> QED
  BY <1>2, <1>3, QuietAdmit

\* A request that passes a counter has been counted by it.
LEMMA AdmitFits ==
  ASSUME Basics, AdmitInv, NEW r \in Requests, OnlyServes(r), Admit(r),
         up[r].pc \in {"ip", "target"}, up[r].at = "memory"
  PROVE  AdmitInv'
<1>0. PICK k : k = Key(r)
  OBVIOUS
<1>1. /\ k \in LimitKeys /\ up[r].pc # "idle" /\ up[r].cmd.keys = {k} /\ up[r].cmd.op = "incr"
  BY <1>0, LimitKeyOf, CallIs
<1>2. CASE admitted' = admitted
  BY <1>2, ServesAdmit
<1>3. CASE Passes(Answer(r)) /\ up[r].window /\ admitted' = [admitted EXCEPT ![k] = @ + 1]
  <2>1. up[r].ans \in Nat /\ up[r].ans # Null
    BY <1>1, <1>3, SessionsAssumption DEF AdmitInv, Windowed
  <2>2. Answer(r) = up[r].ans
    BY <1>1, <2>1, AnswerIs
  <2>3. r \in Pending(k)
    BY <1>1, <1>3, <2>2 DEF Pending, Passing
  <2>4. \A q \in Requests : up'[q] = up[q] \/ up'[q].pc = "idle" \/ up'[q].at \in {"redis", "query"}
    BY DEF OnlyServes, Others
  <2>5. ~Passing(up'[r], k)
    BY OutOfWindow DEF OnlyServes
  <2>6. Pending(k)' \subseteq Pending(k) \ {r}
    BY <2>4, <2>5, OutOfWindow DEF Pending, Passing
  <2>7. /\ Cardinality(Pending(k) \ {r}) = Cardinality(Pending(k)) - 1
        /\ IsFiniteSet(Pending(k) \ {r})
    BY <2>3, PendingIs, FS_RemoveElement
  <2>8. /\ Cardinality(Pending(k)') <= Cardinality(Pending(k)) - 1
        /\ Cardinality(Pending(k)') \in Nat
    BY <2>6, <2>7, FS_Subset, FS_CardinalityType
  <2>9. Count(k)' = Count(k) /\ Count(k) \in Nat
    BY <1>1, SameCount, CountIs DEF OnlyServes, redisVars
  <2>10. Fits(k)'
    <3>1. admitted'[k] = admitted[k] + 1 /\ admitted[k] \in Nat
      BY <1>1, <1>3, GhostTypes
    <3>2. Fits(k) /\ Limit \in Nat /\ Cardinality(Pending(k)) \in Nat
      BY <1>1, SessionsAssumption, PendingIs DEF AdmitInv
    <3> QED
      BY <2>8, <2>9, <3>1, <3>2 DEF Fits
  <2>11. ASSUME NEW j \in LimitKeys, j # k PROVE Fits(j)'
    <3>1. admitted'[j] = admitted[j]
      BY <1>3, <2>11, GhostTypes
    <3>2. \A q \in Requests : Passing(up'[q], j) => Passing(up[q], j)
      BY <2>4, OutOfWindow
    <3>3. Fits(j) /\ Count(j)' \in Nat /\ Count(j)' >= Count(j)
      BY SameCount DEF AdmitInv, OnlyServes, redisVars
    <3> QED
      BY <3>1, <3>2, <3>3, StillFits
  <2>12. \A q \in Requests : Windowed(up[q])'
    BY <2>4, OutOfWindow DEF AdmitInv
  <2> QED
    BY <2>10, <2>11, <2>12 DEF AdmitInv
<1> QED
  BY <1>0, <1>2, <1>3 DEF Admit

\* AdmitInv holds at the start.
LEMMA InitAdmit == Init => AdmitInv
<1> SUFFICES ASSUME Init PROVE AdmitInv
  OBVIOUS
<1>1. \A r \in Requests : up[r].pc = "idle"
  BY DEF Init, Idle
<1>2. \A k \in LimitKeys : admitted[k] = 0 /\ Pending(k) = {} /\ Count(k) \in Nat
  BY <1>1, InitBasics, CountIs DEF Init, Pending, Passing
<1>3. Cardinality({}) = 0 /\ Limit \in Nat
  BY FS_EmptySet, SessionsAssumption
<1> QED
  BY <1>1, <1>2, <1>3 DEF AdmitInv, Windowed, Fits

\* A request comes back from Redis without an answer, or is not at a counter.
LEMMA AskAdmit ==
  ASSUME Basics, AdmitInv, NEW r \in Requests, AskRedis(r)
  PROVE  AdmitInv'
<1>0. PICK c, j : c = up[r].cmd /\ j = Key(r)
  OBVIOUS
<1>1. /\ up[r].pc # "idle" /\ up[r].at = "redis" /\ admitted' = admitted
      /\ c \in Call /\ ProperStray(c) /\ c.keys = {j} /\ j \in Keys
      /\ j \in LimitKeys => c.op = "incr"
  BY <1>0, Asking, CallIs, CallIsProper
<1>2. ~\E k : Passing(up[r], k)
  BY <1>1, OutOfWindow
<1>3. ASSUME NEW at \in {"expire", "memory"}, NEW ans \in Values, NEW held \in BOOLEAN,
             Back(r, at, ans, held)
      PROVE  /\ Others(r) /\ up'[r].cmd = c /\ up'[r].ans = ans
             /\ \A q \in Requests : Windowed(up'[q])
             /\ \A k : Passing(up'[r], k) => ans \in Nat /\ k = j /\ Passes(ans)
  <2>1. /\ Others(r) /\ up'[r].cmd = c /\ up'[r].ans = ans
        /\ up'[r].window => ans # Null
    BY <1>0, <1>1, <1>3, ComingBack DEF Basics
  <2>2. Windowed(up'[r])
    BY <2>1 DEF Windowed, Values
  <2>3. \A q \in Requests : Windowed(up'[q])
    BY <2>1, <2>2 DEF Others, AdmitInv
  <2>4. \A k : Passing(up'[r], k) => ans \in Nat /\ k = j /\ Passes(ans)
    BY <1>1, <2>1, <2>2 DEF Windowed, Passing
  <2> QED
    BY <2>1, <2>3, <2>4
<1>4. ASSUME UNCHANGED redis, NEW held \in BOOLEAN, Back(r, "memory", Null, held)
      PROVE  AdmitInv'
  <2>1. Null \in Values /\ Null \notin Nat
    BY WorldTypes, SessionsAssumption
  <2>2. /\ Others(r) /\ \A q \in Requests : Windowed(up'[q])
        /\ \A k : ~Passing(up'[r], k)
    BY <1>3, <1>4, <2>1
  <2>3. \A q \in Requests, k \in LimitKeys : Passing(up'[q], k) => Passing(up[q], k)
    BY <2>2 DEF Others
  <2>4. \A k \in LimitKeys : Count(k)' \in Nat /\ Count(k)' >= Count(k)
    BY <1>4, SameCount
  <2> QED
    BY <1>1, <2>2, <2>3, <2>4, QuietAdmit
<1>5. CASE UNCHANGED redisVars /\ Back(r, "memory", Null, FALSE)
  BY <1>4, <1>5 DEF redisVars
<1>6. CASE Failed(up[r].proc, up[r].cmd) /\ Back(r, "memory", Null, TRUE)
  BY <1>4, <1>6 DEF Failed
<1>7. CASE /\ Executed(up[r].cmd)
           /\ Back(r, IF up[r].cmd.op = "incr" /\ redis'[Key(r)].val = 1
                      THEN "expire" ELSE "memory", redis'[Key(r)].val, TRUE)
  <2>1. redis' = Effect(c, redis) /\ redis'[j].val \in Values
    BY <1>0, <1>1, <1>7, EffectIs DEF Executed, Basics, Kept
  <2>2. PICK at \in {"expire", "memory"} : Back(r, at, redis'[j].val, TRUE)
    BY <1>0, <1>7
  <2>3. PICK ans \in Values : ans = redis'[j].val
    BY <2>1
  <2>4. /\ Others(r) /\ \A q \in Requests : Windowed(up'[q])
        /\ \A k : Passing(up'[r], k) => ans \in Nat /\ k = j /\ Passes(ans)
    BY <1>3, <2>2, <2>3
  <2>5. ASSUME NEW k \in LimitKeys PROVE Fits(k)'
    <3>1. /\ Count(k)' \in Nat /\ Count(k)' >= Count(k)
          /\ c.op = "incr" /\ c.keys = {k} =>
               Count(k)' = Count(k) + 1 /\ redis'[k].val = Count(k)'
      BY <1>1, <2>1, CountGrows
    <3>2. /\ Fits(k) /\ admitted'[k] = admitted[k] /\ admitted[k] \in Nat
          /\ Limit \in Nat /\ Count(k) \in Nat
      BY <1>1, GhostTypes, SessionsAssumption, CountIs DEF AdmitInv
    <3>3. CASE ~Passing(up'[r], k)
      <4>1. \A q \in Requests : Passing(up'[q], k) => Passing(up[q], k)
        BY <2>4, <3>3 DEF Others
      <4> QED
        BY <3>1, <3>2, <4>1, StillFits
    <3>4. CASE Passing(up'[r], k)
      <4>1. k = j /\ c.op = "incr" /\ Count(k)' <= Limit /\ Count(k)' = Count(k) + 1
        BY <1>1, <2>3, <2>4, <3>1, <3>4 DEF Passes
      <4>2. Pending(k)' \subseteq Pending(k) \union {r}
        BY <2>4 DEF Others, Pending, Passing
      <4>3. r \notin Pending(k)
        BY <1>2 DEF Pending
      <4>4. /\ Cardinality(Pending(k) \union {r}) = Cardinality(Pending(k)) + 1
            /\ IsFiniteSet(Pending(k) \union {r}) /\ Cardinality(Pending(k)) \in Nat
        BY <4>3, PendingIs, FS_AddElement
      <4>5. /\ Cardinality(Pending(k)') <= Cardinality(Pending(k)) + 1
            /\ Cardinality(Pending(k)') \in Nat
        BY <4>2, <4>4, FS_Subset, FS_CardinalityType
      <4> QED
        BY <3>2, <4>1, <4>4, <4>5 DEF Fits
    <3> QED
      BY <3>3, <3>4
  <2>6. \A q \in Requests : Windowed(up[q])'
    BY <2>4
  <2> QED
    BY <2>5, <2>6 DEF AdmitInv
<1> QED
  BY <1>5, <1>6, <1>7, Asking

\* Setting the expiry of a counter keeps AdmitInv.
LEMMA ExpiryAdmit ==
  ASSUME Basics, AdmitInv, NEW r \in Requests, AskExpiry(r)
  PROVE  AdmitInv'
<1>0. PICK c : c = Command("expire", up[r].cmd.keys, Null)
  OBVIOUS
<1>1. /\ up[r].pc # "idle" /\ up[r].at = "expire" /\ admitted' = admitted
      /\ Executed(c) \/ Failed(up[r].proc, c)
  BY <1>0, AskingExpiry DEF ghosts
<1>2. /\ Key(r) \in Counters /\ Key(r) \in Keys /\ up[r].cmd.keys = {Key(r)}
  BY <1>1, CallIs DEF Basics, Proper
<1>3. c \in Call /\ ProperStray(c)
  <2>1. "expire" \in Ops /\ Null \in Values
    BY DEF Ops, Values
  <2>2. c \in Call /\ c.op = "expire" /\ c.keys = {Key(r)}
    BY <1>0, <1>2, <2>1, CommandIs
  <2> QED
    BY <1>2, <2>2 DEF ProperStray
<1>4. \A k \in LimitKeys : Count(k)' \in Nat /\ Count(k)' >= Count(k)
  BY <1>1, <1>3, CountGrows, SameCount, SMTT(30) DEF Executed, Failed
<1>5. /\ Others(r) /\ up'[r].pc = up[r].pc /\ up'[r].cmd = up[r].cmd /\ up'[r].at = "memory"
      /\ \/ up'[r].ans = up[r].ans /\ up'[r].window = up[r].window
         \/ up'[r].ans = Null /\ up'[r].window = FALSE
  BY <1>1, AskingExpiry, Expiring DEF Basics
<1>6. \A q \in Requests : Windowed(up'[q])
  BY <1>1, <1>5 DEF AdmitInv, Windowed, Others
<1>7. \A q \in Requests, k \in LimitKeys : Passing(up'[q], k) => Passing(up[q], k)
  BY <1>1, <1>5 DEF Passing, Others
<1> QED
  BY <1>1, <1>4, <1>6, <1>7, QuietAdmit

\* A request that comes has not been counted.
LEMMA ComingAdmit ==
  ASSUME Basics, AdmitInv, NEW r \in Requests, UNCHANGED <<redis, admitted>>, Others(r),
         up'[r].at = "redis"
  PROVE  AdmitInv'
<1>1. \A q \in Requests : up'[q] = up[q] \/ up'[q].at \in {"redis", "query"}
  BY DEF Others
<1>2. /\ \A q \in Requests : Windowed(up'[q])
      /\ \A q \in Requests, k \in LimitKeys : Passing(up'[q], k) => Passing(up[q], k)
  BY <1>1, OutOfWindow DEF AdmitInv
<1> QED
  BY <1>2, SameCount, QuietAdmit

\* When its window is over, a counter has admitted nobody, and nobody is pending.
LEMMA WindowAdmit ==
  ASSUME Basics, AdmitInv, NEW k \in Counters \union Blocks, WindowEnds(k)
  PROVE  AdmitInv'
<1>1. /\ redis' = [redis EXCEPT ![k] = Missing]
      /\ admitted' = [j \in LimitKeys |-> IF j = k THEN 0 ELSE admitted[j]]
      /\ up' = [r \in Requests |->
                  IF up[r].pc # "idle" /\ up[r].at # "query" /\ k \in up[r].cmd.keys
                  THEN [up[r] EXCEPT !.window = FALSE] ELSE up[r]]
  BY DEF WindowEnds, Expire
<1>2. \A r \in Requests :
        /\ up'[r].pc = up[r].pc /\ up'[r].cmd = up[r].cmd /\ up'[r].at = up[r].at
        /\ up'[r].ans = up[r].ans
        /\ up[r].pc # "idle" /\ up[r].at # "query" /\ k \in up[r].cmd.keys
             => up'[r].window = FALSE
        /\ ~(up[r].pc # "idle" /\ up[r].at # "query" /\ k \in up[r].cmd.keys) => up'[r] = up[r]
  BY <1>1, Closing
<1>3. \A r \in Requests : Windowed(up[r])'
  BY <1>2 DEF AdmitInv, Windowed
<1>4. ASSUME NEW j \in LimitKeys PROVE Fits(j)'
  <2>1. CASE j = k
    <3>1. redis'[j] = Missing
      BY <1>1, <2>1, WorldTypes, KeysAre
    <3>2. Pending(j)' = {}
      BY <1>2, <2>1 DEF Pending, Passing
    <3>3. Cardinality({}) = 0 /\ Limit \in Nat /\ admitted'[j] = 0 /\ Count(j)' = 0
      BY <1>1, <2>1, <3>1, FS_EmptySet, SessionsAssumption DEF Count, Missing
    <3> QED
      BY <3>2, <3>3 DEF Fits
  <2>2. CASE j # k
    <3>1. redis'[j] = redis[j] /\ admitted'[j] = admitted[j]
      BY <1>1, <2>2, WorldTypes, KeysAre
    <3>2. Count(j)' = Count(j) /\ Count(j) \in Nat
      BY <3>1, CountIs DEF Count
    <3>3. \A r \in Requests : Passing(up'[r], j) => Passing(up[r], j)
      BY <1>2 DEF Passing
    <3> QED
      BY <3>1, <3>2, <3>3, StillFits DEF AdmitInv
  <2> QED
    BY <2>1, <2>2
<1> QED
  BY <1>3, <1>4 DEF AdmitInv

\* Other events of the world: no counter falls, and a request stays or is lost.
LEMMA WorldAdmit ==
  ASSUME Basics, AdmitInv, admitted' = admitted,
         \A k \in LimitKeys : Count(k)' \in Nat /\ Count(k)' >= Count(k),
         \A r \in Requests : up'[r] = up[r] \/ up'[r].pc = "idle"
  PROVE  AdmitInv'
<1>1. /\ \A r \in Requests : Windowed(up'[r])
      /\ \A r \in Requests, k \in LimitKeys : Passing(up'[r], k) => Passing(up[r], k)
  BY OutOfWindow DEF AdmitInv
<1> QED
  BY <1>1, QuietAdmit

\* What happens outside of requests, late commands included, keeps AdmitInv.
LEMMA EventsAdmit ==
  ASSUME Basics, AdmitInv,
         \/ \E u \in Users : DeleteAccount(u)
         \/ \E p \in Procs : \E k \in Keys : Forget(p, k)
         \/ \E s \in Sessions : SessionEnds(s)
         \/ \E c \in strays : Straggler(c)
         \/ \E p \in Procs : BackOn(p) \/ Restart(p)
         \/ Tick \/ UNCHANGED vars
  PROVE  AdmitInv'
<1>1. ASSUME UNCHANGED <<redis, up, admitted>> PROVE AdmitInv'
  BY <1>1, SameCount, WorldAdmit
<1>2. CASE \/ \E u \in Users : DeleteAccount(u)
           \/ \E p \in Procs : \E k \in Keys : Forget(p, k)
           \/ \E p \in Procs : BackOn(p)
           \/ Tick \/ UNCHANGED vars
  BY <1>1, <1>2 DEF DeleteAccount, Forget, BackOn, Reconnect, Tick, vars, redisVars, ghosts
<1>3. ASSUME NEW s \in Sessions, SessionEnds(s) PROVE AdmitInv'
  <2>1. /\ redis' = [redis EXCEPT ![SessionKey(s)] = Missing] /\ UNCHANGED <<up, admitted>>
    BY <1>3 DEF SessionEnds, Expire, ghosts
  <2>2. \A k \in LimitKeys : redis'[k] = redis[k]
    BY <2>1, WorldTypes, KeysAre, KindsApart
  <2>3. \A k \in LimitKeys : Count(k)' = Count(k) /\ Count(k) \in Nat
    BY <2>2, CountIs DEF Count
  <2>4. \A k \in LimitKeys : Count(k)' \in Nat /\ Count(k)' >= Count(k)
    BY <2>3
  <2> QED
    BY <2>1, <2>4, WorldAdmit
<1>4. ASSUME NEW c \in strays, Straggler(c) PROVE AdmitInv'
  <2>1. redis' = Effect(c, redis) /\ UNCHANGED <<up, admitted>> /\ c \in Call /\ ProperStray(c)
    BY <1>4, WorldTypes DEF Straggler, StrayArrives, ghosts, Basics
  <2> QED
    BY <2>1, CountGrows, WorldAdmit
<1>5. ASSUME NEW p \in Procs, Restart(p) PROVE AdmitInv'
  <2>1. UNCHANGED <<redis, admitted>> /\ \A r \in Requests : up'[r] = up[r] \/ up'[r].pc = "idle"
    BY <1>5 DEF Restart, ghosts, Idle
  <2> QED
    BY <2>1, SameCount, WorldAdmit
<1> QED
  BY <1>2, <1>3, <1>4, <1>5

\* The steps of the handlers keep AdmitInv.
LEMMA HandlersAdmit ==
  ASSUME Basics, AdmitInv, NEW r \in Requests,
         \/ assertLoginAllowed(r) \/ LimitByIp(r) \/ LimitByTarget(r)
         \/ registerFailedLogin(r) \/ clearLoginFailures(r) \/ Respond(r)
         \/ CheckToken(r) \/ Rotate(r)
         \/ \E right \in BOOLEAN : ComparePassword(r, right)
         \/ \E s \in Sessions : SignIn(r, s)
  PROVE  AdmitInv'
<1>1. CASE LimitByIp(r)
  BY <1>1, IpStep, AdmitFits DEF LimitByIp
<1>2. CASE LimitByTarget(r)
  BY <1>2, TargetStep, AdmitFits DEF LimitByTarget
<1>3. CASE \/ assertLoginAllowed(r) \/ registerFailedLogin(r) \/ clearLoginFailures(r)
           \/ Respond(r) \/ CheckToken(r) \/ Rotate(r)
           \/ \E right \in BOOLEAN : ComparePassword(r, right)
           \/ \E s \in Sessions : SignIn(r, s)
  <2>1. OnlyServes(r)
    BY <1>3, BlockedStep, FailureStep, ClearStep, LastStep, TokenStep, RotateStep,
       PasswordStep, SignInStep
  <2>2. admitted' = admitted
    BY <1>3 DEF assertLoginAllowed, registerFailedLogin, clearLoginFailures, Respond,
       CheckToken, Rotate, ComparePassword, SignIn, ghosts
  <2> QED
    BY <2>1, <2>2, ServesAdmit
<1> QED
  BY <1>1, <1>2, <1>3

\* A new request keeps AdmitInv.
LEMMA EntrancesAdmit ==
  ASSUME Basics, AdmitInv, NEW r \in Requests, NEW p \in Procs,
         \/ \E u \in Users, i \in Ips, route \in Routes : Submit(r, p, u, i, route)
         \/ \E t \in issued : Refresh(r, p, t)
         \/ \E s \in Sessions : Logout(r, p, s)
  PROVE  AdmitInv'
<1>1. Others(r) /\ up'[r].at = "redis"
  BY SubmitStep, RefreshStep, LogoutStep
<1>2. UNCHANGED <<redis, admitted>>
  BY DEF Submit, Refresh, Logout, redisVars, ghosts
<1> QED
  BY <1>1, <1>2, ComingAdmit

\* However many requests are in flight, at however many processes, a counter
\* that Redis keeps lets no more of them pass in its window than its limit.
THEOREM AdmittedHolds == Spec => []AdmittedWithinLimit
<1>1. Basics /\ AdmitInv /\ [Next]_vars => AdmitInv'
  BY AskAdmit, ExpiryAdmit, HandlersAdmit, EntrancesAdmit, WindowAdmit, EventsAdmit DEF Next
<1>2. Basics /\ AdmitInv => AdmittedWithinLimit
  <2> SUFFICES ASSUME Basics, AdmitInv, NEW k \in LimitKeys PROVE admitted[k] <= Limit
    BY DEF AdmittedWithinLimit
  <2>1. Fits(k) /\ admitted[k] \in Nat /\ Cardinality(Pending(k)) \in Nat /\ Limit \in Nat
    BY GhostTypes, PendingIs, SessionsAssumption DEF AdmitInv
  <2> QED
    BY <2>1 DEF Fits
<1>3. Basics /\ [Next]_vars => Basics'
  BY StepKeepsBasics
<1> QED
  BY <1>1, <1>2, <1>3, InitBasics, InitAdmit, PTL DEF Spec

-----------------------------------------------------------------------------
(* Counters expire and blocks stand, as long as nothing has failed.        *)

\* A request is about to give a counter its expiry.
Expires(x, k) == x.pc # "idle" /\ x.at = "expire" /\ k \in x.cmd.keys
Bounded(k) ==
  redis[k].val # Null /\ ~redis[k].ttl => \E r \in Requests : Expires(up[r], k)

\* A request is about to store a block: the store call is next, or the count that
\* calls for it is in hand.
Blocking(x) ==
  \/ x.pc = "block" /\ x.at = "redis"
  \/ x.pc = "count" /\ x.at \in {"expire", "memory"} /\ x.ans \in Nat /\ x.ans >= Threshold
BlocksFor(x, u, i) == Blocking(x) /\ x.user = u /\ x.ip = i
Stands(u, i) ==
  redis[FailKey(u, i)].val \in Nat /\ redis[FailKey(u, i)].val >= Threshold =>
    \/ redis[BlockKey(u, i)] # Missing
    \/ BlockKey(u, i) \in lapsed
    \/ \E r \in Requests : BlocksFor(up[r], u, i)

Calm ==
  /\ strays = {} /\ offline = {}
  /\ \A k \in Counters : Bounded(k)
  /\ \A u \in Users, i \in Ips : Stands(u, i)

CalmInv == faults = 0 => Calm

\* A step that leaves counters, blocks and the requests that see to them alone.
LEMMA QuietCalm ==
  ASSUME Calm, UNCHANGED <<strays, lapsed>>, offline' \subseteq offline,
         \A k \in Counters \union Blocks : redis'[k] = redis[k],
         \A q \in Requests : \/ up'[q] = up[q]
                             \/ ~Blocking(up[q]) /\ \A k : ~Expires(up[q], k)
  PROVE  Calm'
<1>1. strays' = {} /\ offline' = {}
  BY DEF Calm
<1>2. ASSUME NEW k \in Counters PROVE Bounded(k)'
  <2>1. redis'[k] = redis[k] /\ Bounded(k)
    BY <1>2 DEF Calm
  <2>2. \A q \in Requests : Expires(up[q], k) => Expires(up'[q], k)
    OBVIOUS
  <2> QED
    BY <2>1, <2>2 DEF Bounded, Expires
<1>3. ASSUME NEW u \in Users, NEW i \in Ips PROVE Stands(u, i)'
  <2>1. /\ redis'[FailKey(u, i)] = redis[FailKey(u, i)]
        /\ redis'[BlockKey(u, i)] = redis[BlockKey(u, i)]
        /\ Stands(u, i) /\ lapsed' = lapsed
    BY KeysAre DEF Calm
  <2>2. \A q \in Requests : BlocksFor(up[q], u, i) => BlocksFor(up'[q], u, i)
    BY DEF BlocksFor
  <2>3. \A q \in Requests : BlocksFor(up'[q], u, i) <=> BlocksFor(up[q], u, i)'
    BY DEF BlocksFor, Blocking
  <2> QED
    BY <2>1, <2>2, <2>3 DEF Stands, FailKey, BlockKey, Missing
<1> QED
  BY <1>1, <1>2, <1>3 DEF Calm

\* A request that is neither at a count nor about to store a block.
LEMMA ServesCalm ==
  ASSUME Calm, NEW r \in Requests, OnlyServes(r), UNCHANGED lapsed,
         up[r].at \in {"memory", "query"}, up[r].pc # "count" \/ ~Blocking(up[r])
  PROVE  Calm'
<1>1. ~Blocking(up[r]) /\ \A k : ~Expires(up[r], k)
  BY DEF Blocking, Expires
<1>2. \A q \in Requests : up'[q] = up[q] \/ (~Blocking(up[q]) /\ \A k : ~Expires(up[q], k))
  BY <1>1 DEF OnlyServes, Others
<1> QED
  BY <1>2, QuietCalm DEF OnlyServes, redisVars

\* A failure that reaches the threshold goes on to the block.
LEMMA FailureCalm ==
  ASSUME Basics, Calm, NEW r \in Requests, registerFailedLogin(r)
  PROVE  Calm'
<1>1. /\ OnlyServes(r) /\ up[r].pc = "count" /\ up[r].at = "memory" /\ UNCHANGED lapsed
      /\ \/ up'[r].pc = "block" /\ up'[r].at = "redis" /\ SameRequest(r)
         \/ up'[r].pc = "idle" /\ ~(Answer(r) >= Threshold)
  BY FailureStep DEF registerFailedLogin, ghosts
<1>2. CASE ~Blocking(up[r])
  BY <1>1, <1>2, ServesCalm
<1>3. CASE Blocking(up[r])
  <2>1. up[r].ans \in Nat /\ up[r].ans >= Threshold
    BY <1>1, <1>3 DEF Blocking
  <2>2. Answer(r) = up[r].ans
    <3>1. up[r].ans # Null /\ up[r].cmd.op = "incr"
      BY <1>1, <2>1, CallIs, SessionsAssumption DEF OnlyServes
    <3> QED
      BY <1>1, <3>1, AnswerIs DEF OnlyServes
  <2>3. up'[r].pc = "block" /\ up'[r].at = "redis" /\ SameRequest(r)
    BY <1>1, <2>1, <2>2
  <2>4. \A u, i : BlocksFor(up[r], u, i) => BlocksFor(up'[r], u, i)
    BY <2>3 DEF BlocksFor, Blocking, SameRequest
  <2>5. \A q \in Requests : \A u, i : BlocksFor(up[q], u, i) => BlocksFor(up'[q], u, i)
    BY <1>1, <2>4 DEF OnlyServes, Others
  <2>6. \A q \in Requests : \A k : Expires(up[q], k) => Expires(up'[q], k)
    BY <1>1 DEF OnlyServes, Others, Expires
  <2>7. ASSUME NEW k \in Counters PROVE Bounded(k)'
    BY <1>1, <2>6 DEF Calm, Bounded, Expires, OnlyServes, redisVars
  <2>8. ASSUME NEW u \in Users, NEW i \in Ips PROVE Stands(u, i)'
    <3>1. Stands(u, i) /\ UNCHANGED <<redis, lapsed>>
      BY <1>1 DEF Calm, OnlyServes, redisVars
    <3>2. \A q \in Requests : BlocksFor(up'[q], u, i) <=> BlocksFor(up[q], u, i)'
      BY DEF BlocksFor, Blocking
    <3> QED
      BY <2>5, <3>1, <3>2 DEF Stands, FailKey, BlockKey, Missing
  <2> QED
    BY <1>1, <2>7, <2>8 DEF Calm, OnlyServes, redisVars
<1> QED
  BY <1>2, <1>3

\* The steps of the handlers keep Calm.
LEMMA HandlersCalm ==
  ASSUME Basics, Calm, NEW r \in Requests,
         \/ assertLoginAllowed(r) \/ LimitByIp(r) \/ LimitByTarget(r)
         \/ registerFailedLogin(r) \/ clearLoginFailures(r) \/ Respond(r)
         \/ CheckToken(r) \/ Rotate(r)
         \/ \E right \in BOOLEAN : ComparePassword(r, right)
         \/ \E s \in Sessions : SignIn(r, s)
  PROVE  Calm'
<1>1. CASE registerFailedLogin(r)
  BY <1>1, FailureCalm
<1>2. CASE \/ assertLoginAllowed(r) \/ LimitByIp(r) \/ LimitByTarget(r)
           \/ clearLoginFailures(r) \/ Respond(r) \/ CheckToken(r) \/ Rotate(r)
           \/ \E right \in BOOLEAN : ComparePassword(r, right)
           \/ \E s \in Sessions : SignIn(r, s)
  <2>1. OnlyServes(r) /\ up[r].pc # "count" /\ (up[r].at = "memory" \/ up[r].pc \in {"find", "user"})
    BY ZenonT(60), <1>2, BlockedStep, IpStep, TargetStep, ClearStep, LastStep, TokenStep, RotateStep,
       PasswordStep, SignInStep
  <2>2. up[r].at \in {"memory", "query"}
    BY <2>1 DEF Basics, Proper
  <2>3. UNCHANGED lapsed
    BY <1>2 DEF assertLoginAllowed, LimitByIp, LimitByTarget, clearLoginFailures, Respond,
       CheckToken, Rotate, ComparePassword, SignIn, ghosts
  <2> QED
    BY <2>1, <2>2, <2>3, ServesCalm
<1> QED
  BY <1>1, <1>2

\* A new request keeps Calm.
LEMMA EntrancesCalm ==
  ASSUME Basics, Calm, NEW r \in Requests, NEW p \in Procs,
         \/ \E u \in Users, i \in Ips, route \in Routes : Submit(r, p, u, i, route)
         \/ \E t \in issued : Refresh(r, p, t)
         \/ \E s \in Sessions : Logout(r, p, s)
  PROVE  Calm'
<1>1. Others(r) /\ up[r].pc = "idle"
  BY SubmitStep, RefreshStep, LogoutStep
<1>2. UNCHANGED <<redisVars, lapsed>>
  BY DEF Submit, Refresh, Logout, ghosts
<1>3. \A q \in Requests : up'[q] = up[q] \/ (~Blocking(up[q]) /\ \A k : ~Expires(up[q], k))
  BY <1>1 DEF Others, Blocking, Expires
<1> QED
  BY <1>2, <1>3, QuietCalm DEF redisVars

\* What happens outside of requests, but for failures, keeps Calm.
LEMMA EventsCalm ==
  ASSUME Basics, Calm,
         \/ \E u \in Users : DeleteAccount(u)
         \/ \E p \in Procs : \E k \in Keys : Forget(p, k)
         \/ \E s \in Sessions : SessionEnds(s)
         \/ \E p \in Procs : BackOn(p)
         \/ Tick \/ UNCHANGED vars
  PROVE  Calm'
<1>1. UNCHANGED <<up, lapsed, strays>> /\ offline' \subseteq offline
  BY DEF DeleteAccount, Forget, SessionEnds, Expire, BackOn, Reconnect, Tick, vars, redisVars,
     ghosts
<1>2. \A k \in Counters \union Blocks : redis'[k] = redis[k]
  <2>1. CASE \E s \in Sessions : SessionEnds(s)
    <3>1. PICK s \in Sessions : redis' = [redis EXCEPT ![SessionKey(s)] = Missing]
      BY <2>1 DEF SessionEnds, Expire
    <3> QED
      BY <3>1, WorldTypes, KeysAre, KindsApart
  <2>2. CASE UNCHANGED redis
    BY <2>2
  <2> QED
    BY <2>1, <2>2 DEF DeleteAccount, Forget, BackOn, Reconnect, Tick, vars, redisVars
<1> QED
  BY <1>1, <1>2, QuietCalm

\* A counter whose window is over is gone, a block that is over has lapsed.
LEMMA WindowCalm ==
  ASSUME Basics, Calm, NEW k \in Counters \union Blocks, WindowEnds(k)
  PROVE  Calm'
<1>1. /\ redis' = [redis EXCEPT ![k] = Missing] /\ UNCHANGED <<offline, strays>>
      /\ lapsed' = IF k \in Blocks THEN lapsed \union {k} ELSE lapsed
      /\ up' = [r \in Requests |->
                  IF up[r].pc # "idle" /\ up[r].at # "query" /\ k \in up[r].cmd.keys
                  THEN [up[r] EXCEPT !.window = FALSE] ELSE up[r]]
  BY DEF WindowEnds, Expire
<1>2. \A r \in Requests :
        /\ up'[r].pc = up[r].pc /\ up'[r].cmd = up[r].cmd /\ up'[r].at = up[r].at
        /\ up'[r].ans = up[r].ans /\ up'[r].user = up[r].user /\ up'[r].ip = up[r].ip
  BY <1>1, Closing DEF SameRequest
<1>3. redis'[k] = Missing /\ \A j \in Keys \ {k} : redis'[j] = redis[j]
  BY <1>1, WorldTypes, KeysAre
<1>4. ASSUME NEW j \in Counters PROVE Bounded(j)'
  <2>1. Bounded(j) /\ j \in Keys
    BY KeysAre DEF Calm
  <2>2. CASE j = k
    BY <1>3, <2>2 DEF Bounded, Missing
  <2>3. CASE j # k
    BY <1>2, <1>3, <2>1, <2>3 DEF Bounded, Expires
  <2> QED
    BY <2>2, <2>3
<1>5. ASSUME NEW u \in Users, NEW i \in Ips PROVE Stands(u, i)'
  <2> DEFINE f == FailKey(u, i)
             b == BlockKey(u, i)
  <2>1. Stands(u, i) /\ f \in Keys /\ b \in Keys /\ b \in Blocks /\ f # b
    BY KeysAre, KindsApart DEF Calm
  <2>2. \A q \in Requests : BlocksFor(up[q], u, i)' <=> BlocksFor(up[q], u, i)
    BY <1>2 DEF BlocksFor, Blocking
  <2>3. CASE f = k
    <3>1. redis'[f].val = Null /\ Null \notin Nat
      BY <1>3, <2>3, SessionsAssumption DEF Missing
    <3> QED
      BY <3>1 DEF Stands
  <2>4. CASE b = k
    BY <1>1, <2>1, <2>4 DEF Stands
  <2>5. CASE f # k /\ b # k
    <3>1. redis'[f] = redis[f] /\ redis'[b] = redis[b] /\ lapsed \subseteq lapsed'
      BY <1>1, <1>3, <2>1, <2>5
    <3> QED
      BY <2>1, <2>2, <3>1 DEF Stands
  <2> QED
    BY <2>3, <2>4, <2>5
<1> QED
  BY <1>1, <1>4, <1>5 DEF Calm

\* The call of each step of a handler.
LEMMA CallKinds ==
  ASSUME Basics, NEW r \in Requests, up[r].pc # "idle", up[r].at # "query"
  PROVE  /\ up[r].pc = "blocked" =>
              up[r].cmd.op = "get" /\ Key(r) = BlockKey(up[r].user, up[r].ip)
         /\ up[r].pc \in {"ip", "target"} => up[r].cmd.op = "incr" /\ Key(r) \in LimitKeys
         /\ up[r].pc = "count" => up[r].cmd.op = "incr" /\ Key(r) = FailKey(up[r].user, up[r].ip)
         /\ up[r].pc = "block" => /\ up[r].cmd.op = "set" /\ up[r].cmd.val = 1
                                  /\ Key(r) = BlockKey(up[r].user, up[r].ip)
         /\ up[r].pc = "clear" => up[r].cmd.op = "del" /\ Key(r) = FailKey(up[r].user, up[r].ip)
         /\ up[r].pc = "unblock" => up[r].cmd.op = "del" /\ Key(r) = BlockKey(up[r].user, up[r].ip)
         /\ up[r].pc = "session" => up[r].cmd.op = "set" /\ \E s \in Sessions : Key(r) = SessionKey(s)
         /\ up[r].pc = "read" => up[r].cmd.op = "get" /\ Key(r) = SessionKey(up[r].token.session)
         /\ up[r].pc = "rotate" => up[r].cmd.op = "set" /\ Key(r) = SessionKey(up[r].token.session)
         /\ up[r].pc \in {"drop", "logout"} =>
              up[r].cmd.op = "del" /\ Key(r) = SessionKey(up[r].token.session)
         /\ up[r].pc \in Refreshing \union {"logout"} => up[r].token.session \in Sessions
         /\ up[r].pc \in LoginPcs => up[r].user \in Users /\ up[r].ip \in Ips
         /\ up[r].pc \in LoginPcs \union Refreshing \union {"logout"}
         /\ up[r].pc \notin {"find", "user"}
<1> DEFINE x == up[r]
<1>1. x \in Serving /\ x.pc \in Pcs /\ Proper(x)
  BY ServingIsTyped DEF Basics
<1>2. ASSUME NEW op, NEW k, NEW v, x.cmd = Command(op, {k}, v)
      PROVE  x.cmd.op = op /\ x.cmd.val = v /\ Key(r) = k
  <2>1. x.cmd.op = op /\ x.cmd.val = v /\ x.cmd.keys = {k}
    BY <1>2 DEF Command
  <2> QED
    BY <2>1, OneKey
<1>3. /\ x.pc \in LoginPcs \union Refreshing \union {"logout"} /\ x.pc \notin {"find", "user"}
      /\ x.pc \in LoginPcs => x.user \in Users /\ x.ip \in Ips
  BY <1>1 DEF Pcs, LoginPcs, Serving, Proper
<1>4. x.pc \in Refreshing \union {"logout"} => x.token.session \in Sessions
  BY SessionOf DEF Tokens
<1>5. CASE x.pc = "blocked"
  <2>1. x.cmd = Command("get", {BlockKey(x.user, x.ip)}, Null)
    BY <1>1, <1>5 DEF Proper
  <2> QED
    BY <1>2, <1>3, <1>4, <1>5, <2>1
<1>6. CASE x.pc \in {"ip", "target"}
  <2>1. x.cmd.op = "incr" /\ Key(r) \in LimitKeys
    BY <1>6, CallIs, LimitKeyOf
  <2> QED
    BY <1>3, <1>4, <1>6, <2>1
<1>7. CASE x.pc = "count"
  <2>1. x.cmd = Command("incr", {FailKey(x.user, x.ip)}, Null)
    BY <1>1, <1>7 DEF Proper
  <2> QED
    BY <1>2, <1>3, <1>4, <1>7, <2>1
<1>8. CASE x.pc = "block"
  <2>1. x.cmd = Command("set", {BlockKey(x.user, x.ip)}, 1)
    BY <1>1, <1>8 DEF Proper
  <2> QED
    BY <1>2, <1>3, <1>4, <1>8, <2>1
<1>9. CASE x.pc = "clear"
  <2>1. x.cmd = Command("del", {FailKey(x.user, x.ip)}, Null)
    BY <1>1, <1>9 DEF Proper
  <2> QED
    BY <1>2, <1>3, <1>4, <1>9, <2>1
<1>10. CASE x.pc = "unblock"
  <2>1. x.cmd = Command("del", {BlockKey(x.user, x.ip)}, Null)
    BY <1>1, <1>10 DEF Proper
  <2> QED
    BY <1>2, <1>3, <1>4, <1>10, <2>1
<1>11. CASE x.pc = "session"
  <2>1. PICK s \in Sessions, v \in Nat : x.cmd = Command("set", {SessionKey(s)}, v)
    BY <1>1, <1>11 DEF Proper
  <2>2. x.cmd.op = "set" /\ Key(r) = SessionKey(s)
    BY <1>2, <2>1
  <2> QED
    BY <1>3, <1>4, <1>11, <2>2
<1>12. CASE x.pc = "read"
  <2>1. x.cmd = Command("get", {SessionKey(x.token.session)}, Null)
    BY <1>1, <1>12 DEF Proper
  <2> QED
    BY <1>2, <1>3, <1>4, <1>12, <2>1
<1>13. CASE x.pc = "rotate"
  <2>1. PICK v \in Nat : x.cmd = Command("set", {SessionKey(x.token.session)}, v)
    BY <1>1, <1>13 DEF Proper
  <2> QED
    BY <1>2, <1>3, <1>4, <1>13, <2>1
<1>14. CASE x.pc \in {"drop", "logout"}
  <2>1. x.cmd = Command("del", {SessionKey(x.token.session)}, Null)
    BY <1>1, <1>14 DEF Proper
  <2> QED
    BY <1>2, <1>3, <1>4, <1>14, <2>1
<1>15. x.pc \in {"blocked", "ip", "target", "count", "block", "clear", "unblock", "session",
                 "read", "rotate", "drop", "logout"}
  BY <1>3 DEF LoginPcs, Refreshing
<1> QED
  BY <1>5, <1>6, <1>7, <1>8, <1>9, <1>10, <1>11, <1>12, <1>13, <1>14, <1>15

\* Redis executes a call: a counter that begins is about to get its expiry, and a
\* count of failures that reaches the threshold is in hand.
LEMMA ExecutedCalm ==
  ASSUME Basics, Calm, NEW r \in Requests, up[r].pc # "idle", up[r].at = "redis",
         Executed(up[r].cmd), Noted(r),
         Back(r, IF up[r].cmd.op = "incr" /\ redis'[Key(r)].val = 1
                 THEN "expire" ELSE "memory", redis'[Key(r)].val, TRUE)
  PROVE  Calm'
<1>0. PICK c, j : c = up[r].cmd /\ j = Key(r)
  OBVIOUS
<1>1. /\ c \in Call /\ c.keys = {j} /\ j \in Keys /\ up[r].at # "query"
      /\ c.op \in {"get", "set", "del", "incr"}
  BY <1>0, CallIs
<1>2. /\ redis' \in [Keys -> Kept]
      /\ \A k \in Keys \ {j} : redis'[k] = redis[k]
      /\ c.op = "get" => redis'[j] = redis[j]
      /\ c.op = "set" => redis'[j].val = c.val /\ redis'[j].ttl
      /\ c.op = "del" => redis'[j] = Missing
      /\ c.op = "incr" => /\ redis'[j].ttl = redis[j].ttl
                          /\ redis[j].val = Null => redis'[j].val = 1
                          /\ redis[j].val \in Nat => redis'[j].val = redis[j].val + 1
  BY <1>0, <1>1, EffectIs DEF Executed, Basics
<1>3. PICK at \in {"expire", "memory"}, ans \in Values :
        /\ ans = redis'[j].val /\ Back(r, at, ans, TRUE)
        /\ c.op = "incr" /\ ans = 1 => at = "expire"
  BY <1>0, <1>1, <1>2 DEF Kept
<1>4. /\ Others(r) /\ SameRequest(r) /\ up'[r].pc = up[r].pc /\ up'[r].cmd = c
      /\ up'[r].at = at /\ up'[r].ans = ans
  BY <1>0, <1>3, ComingBack DEF Basics
<1>5. \A q \in Requests : \A k : Expires(up[q], k) => Expires(up'[q], k)
  BY <1>4 DEF Others, Expires
<1>6. ASSUME NEW k \in Counters PROVE Bounded(k)'
  <2>1. Bounded(k) /\ k \in Keys /\ redis[k] \in Kept
    BY WorldTypes, KeysAre DEF Calm
  <2>2. redis'[k].val = redis[k].val /\ redis'[k].ttl = redis[k].ttl => Bounded(k)'
    BY <1>5, <2>1 DEF Bounded, Expires
  <2>3. CASE k # j \/ c.op = "get"
    BY <1>2, <2>1, <2>2, <2>3
  <2>4. CASE k = j /\ c.op = "set"
    BY <1>2, <2>4 DEF Bounded
  <2>5. CASE k = j /\ c.op = "del"
    BY <1>2, <2>5 DEF Bounded, Missing
  <2>6. CASE k = j /\ c.op = "incr"
    <3>1. CASE redis[k].val = Null
      <4>1. Expires(up'[r], k)
        BY <1>1, <1>2, <1>3, <1>4, <2>6, <3>1 DEF Expires
      <4> QED
        BY <4>1 DEF Bounded, Expires
    <3>2. CASE redis[k].val # Null
      <4>1. redis'[k].ttl = redis[k].ttl
        BY <1>2, <2>6
      <4> QED
        BY <1>5, <2>1, <3>2, <4>1 DEF Bounded, Expires
    <3> QED
      BY <3>1, <3>2
  <2> QED
    BY <1>1, <2>3, <2>4, <2>5, <2>6
<1>7. ASSUME NEW u \in Users, NEW i \in Ips PROVE Stands(u, i)'
  <2> DEFINE f == FailKey(u, i)
             b == BlockKey(u, i)
  <2>1. /\ f \in Keys /\ b \in Keys /\ b \in Blocks /\ f \in Counters /\ b \notin Counters
        /\ f \notin LimitKeys /\ b \notin LimitKeys /\ f # b
    BY KeysAre, KindsApart
  <2>2. Stands(u, i)
    BY DEF Calm
  <2>3. /\ j = f => up[r].pc \in {"count", "clear"}
        /\ j = b => up[r].pc \in {"block", "unblock", "blocked"}
    BY <1>0, <1>1, <2>1, CallKinds, KeysAre, KindsApart DEF LoginPcs, Refreshing
  <2>4. CASE j = f /\ up[r].pc = "count"
    <3>1. up[r].user = u /\ up[r].ip = i
      <4>1. Key(r) = FailKey(up[r].user, up[r].ip) /\ up[r].user \in Users /\ up[r].ip \in Ips
        BY <1>1, <2>4, CallKinds DEF LoginPcs
      <4>2. FailKey(up[r].user, up[r].ip) = FailKey(u, i)
        BY <1>0, <2>4, <4>1
      <4>3. PICK v \in Users, h \in Ips : v = up[r].user /\ h = up[r].ip
        BY <4>1
      <4>4. FailKey(v, h) = FailKey(u, i)
        BY <4>2, <4>3
      <4>5. v = u /\ h = i
        BY <4>4 DEF FailKey
      <4> QED
        BY <4>3, <4>5
    <3>2. ans \in Nat /\ ans >= Threshold => BlocksFor(up'[r], u, i)
      BY <1>4, <2>4, <3>1 DEF BlocksFor, Blocking, SameRequest
    <3> QED
      BY <1>3, <2>4, <3>2 DEF Stands, BlocksFor, Blocking
  <2>5. CASE j = f /\ up[r].pc = "clear"
    <3>1. redis'[f] = Missing
      BY <1>0, <1>1, <1>2, <2>5, CallKinds
    <3>2. redis'[f].val \notin Nat
      BY <3>1, SessionsAssumption DEF Missing
    <3> QED
      BY <3>2 DEF Stands
  <2>6. CASE j = b /\ up[r].pc = "block"
    <3>1. redis'[b].val = 1 /\ 1 # Null
      BY <1>0, <1>1, <1>2, <2>6, CallKinds, SessionsAssumption
    <3>2. redis'[b] # Missing
      BY <3>1 DEF Missing
    <3> QED
      BY <3>2 DEF Stands
  <2>7. CASE j = b /\ up[r].pc = "unblock"
    <3>1. b \in lapsed'
      BY <1>0, <1>1, <2>7 DEF Noted
    <3> QED
      BY <3>1 DEF Stands
  <2>8. ASSUME redis'[f] = redis[f], redis'[b] = redis[b], b \in lapsed => b \in lapsed',
               ~BlocksFor(up[r], u, i)
        PROVE  Stands(u, i)'
    <3>1. \A q \in Requests : BlocksFor(up[q], u, i) => BlocksFor(up'[q], u, i)
      BY <1>4, <2>8 DEF Others
    <3>2. \A q \in Requests : BlocksFor(up'[q], u, i) <=> BlocksFor(up[q], u, i)'
      BY DEF BlocksFor, Blocking
    <3> QED
      BY <2>2, <2>8, <3>1, <3>2 DEF Stands
  <2>9. CASE j = b /\ up[r].pc = "blocked"
    <3>1. redis'[f] = redis[f] /\ redis'[b] = redis[b]
      BY <1>0, <1>1, <1>2, <2>1, <2>9, CallKinds
    <3>2. lapsed' = lapsed
      BY <2>9 DEF Noted
    <3> QED
      BY <2>8, <2>9, <3>1, <3>2 DEF BlocksFor, Blocking
  <2>10. CASE j # f /\ j # b
    <3>1. redis'[f] = redis[f] /\ redis'[b] = redis[b]
      BY <1>2, <2>1, <2>10
    <3>2. b \in lapsed => b \in lapsed'
      BY <1>0, <1>1, <2>10 DEF Noted
    <3>3. ~BlocksFor(up[r], u, i)
      <4>1. up[r].pc = "block" => j = BlockKey(up[r].user, up[r].ip)
        BY <1>0, <1>1, CallKinds
      <4> QED
        BY <2>10, <4>1 DEF BlocksFor, Blocking
    <3> QED
      BY <2>8, <3>1, <3>2, <3>3
  <2> QED
    BY <2>3, <2>4, <2>5, <2>6, <2>7, <2>9, <2>10
<1> QED
  BY <1>6, <1>7 DEF Calm, Executed

\* Setting the expiry of a counter keeps Calm as long as nothing fails.
LEMMA ExpiryCalm ==
  ASSUME Basics, Calm, NEW r \in Requests, AskExpiry(r), faults = 0, faults' = 0
  PROVE  Calm'
<1>0. PICK c, j : c = Command("expire", up[r].cmd.keys, Null) /\ j = Key(r)
  OBVIOUS
<1>1. /\ up[r].pc # "idle" /\ up[r].at = "expire" /\ UNCHANGED lapsed
      /\ Executed(c) /\ up' = [up EXCEPT ![r].at = "memory"]
  BY <1>0 DEF AskExpiry, ghosts, Failed
<1>2. j \in Counters /\ j \in Keys /\ up[r].cmd.keys = {j} /\ up[r].at # "query"
  BY <1>0, <1>1, CallIs DEF Basics, Proper
<1>3. c \in Call /\ c.op = "expire" /\ c.keys = {j}
  <2>1. "expire" \in Ops /\ Null \in Values
    BY DEF Ops, Values
  <2>2. /\ Command("expire", {j}, Null) \in Call
        /\ Command("expire", {j}, Null).op = "expire"
        /\ Command("expire", {j}, Null).keys = {j}
    BY SMTT(30), <1>2, <2>1, CommandIs
  <2> QED
    BY <1>0, <1>2, <2>2
<1>4. /\ \A k \in Keys \ {j} : redis'[k] = redis[k]
      /\ redis'[j].val = redis[j].val
      /\ redis[j].val # Null => redis'[j].ttl
  BY <1>1, <1>2, <1>3, EffectIs DEF Executed, Basics
<1>5. /\ Others(r) /\ SameRequest(r) /\ up'[r].pc = up[r].pc /\ up'[r].cmd = up[r].cmd
      /\ up'[r].at = "memory" /\ up'[r].ans = up[r].ans
  <2>1. /\ Others(r) /\ SameRequest(r) /\ up'[r].pc = up[r].pc /\ up'[r].cmd = up[r].cmd
        /\ up'[r].at = "memory"
    BY <1>1, Expiring DEF Basics
  <2>2. up[r] \in Serving /\ up \in [Requests -> Serving \union {Idle}]
    BY <1>1, ServingIsTyped, WorldTypes DEF Basics
  <2>3. up'[r].ans = up[r].ans
    BY <1>1, <2>2 DEF Serving
  <2> QED
    BY <2>1, <2>3
<1>6. ASSUME NEW k \in Counters PROVE Bounded(k)'
  <2>1. Bounded(k) /\ k \in Keys
    BY KeysAre DEF Calm
  <2>2. CASE k = j
    BY <1>4, <2>2 DEF Bounded
  <2>3. CASE k # j
    <3>1. \A q \in Requests : Expires(up[q], k) => Expires(up'[q], k)
      BY <1>2, <1>5, <2>3 DEF Others, Expires
    <3> QED
      BY <1>4, <2>1, <2>3, <3>1 DEF Bounded, Expires
  <2> QED
    BY <2>2, <2>3
<1>7. ASSUME NEW u \in Users, NEW i \in Ips PROVE Stands(u, i)'
  <2>1. /\ redis'[FailKey(u, i)].val = redis[FailKey(u, i)].val
        /\ redis'[BlockKey(u, i)] = redis[BlockKey(u, i)]
        /\ Stands(u, i)
    BY <1>2, <1>4, KeysAre, KindsApart DEF Calm
  <2>2. \A q \in Requests : BlocksFor(up[q], u, i) => BlocksFor(up'[q], u, i)
    BY <1>1, <1>5 DEF Others, BlocksFor, Blocking, SameRequest
  <2>3. \A q \in Requests : BlocksFor(up'[q], u, i) <=> BlocksFor(up[q], u, i)'
    BY DEF BlocksFor, Blocking
  <2> QED
    BY <1>1, <2>1, <2>2, <2>3 DEF Stands, FailKey, BlockKey, Missing
<1> QED
  BY <1>1, <1>6, <1>7 DEF Calm, Executed

\* Without a failure every call that is made is executed.
LEMMA AskCalm ==
  ASSUME Basics, Calm, NEW r \in Requests, AskRedis(r), faults = 0, faults' = 0
  PROVE  Calm'
<1>1. offline = {} /\ ~Failed(up[r].proc, up[r].cmd)
  BY DEF Calm, Failed
<1>2. /\ up[r].pc # "idle" /\ up[r].at = "redis"
      /\ Executed(up[r].cmd) /\ Noted(r)
      /\ Back(r, IF up[r].cmd.op = "incr" /\ redis'[Key(r)].val = 1
                 THEN "expire" ELSE "memory", redis'[Key(r)].val, TRUE)
  BY <1>1, Asking
<1> QED
  BY <1>2, ExecutedCalm

\* CalmInv holds at the start.
LEMMA InitCalm == Init => CalmInv
<1> SUFFICES ASSUME Init PROVE Calm
  BY DEF CalmInv
<1>1. strays = {} /\ offline = {}
  BY DEF Init, RedisInit
<1>2. \A k \in Counters : redis[k] = Missing
  <2>1. CASE RedisInit([k \in Keys |-> Missing])
    BY <2>1, KeysAre DEF RedisInit
  <2>2. ASSUME NEW s \in Sessions,
               RedisInit([j \in Keys |-> IF j = SessionKey(s) THEN [val |-> 0, ttl |-> TRUE]
                                         ELSE Missing])
        PROVE  \A k \in Counters : redis[k] = Missing
    BY <2>2, KeysAre, KindsApart DEF RedisInit
  <2> QED
    BY <2>1, <2>2 DEF Init
<1>3. \A k \in Counters : redis[k].val = Null /\ redis[k].val \notin Nat
  BY <1>2, SessionsAssumption DEF Missing
<1> QED
  BY <1>1, <1>3, KeysAre DEF Calm, Bounded, Stands

\* Failures are counted and not forgotten.
LEMMA FaultsStay ==
  ASSUME Basics, [Next]_vars
  PROVE  faults' = 0 => faults = 0
<1>1. faults \in Nat
  BY WorldTypes
<1>2. ASSUME faults' = faults \/ faults' = faults + 1 PROVE faults' = 0 => faults = 0
  BY <1>1, <1>2
<1>3. ASSUME NEW r \in Requests, AskRedis(r) PROVE faults' = faults \/ faults' = faults + 1
  BY <1>3, Asking DEF redisVars, Executed, Failed
<1>4. ASSUME NEW r \in Requests, AskExpiry(r) PROVE faults' = faults \/ faults' = faults + 1
  BY <1>4 DEF AskExpiry, Executed, Failed
<1>5. ASSUME NEW r \in Requests,
             \/ assertLoginAllowed(r) \/ LimitByIp(r) \/ LimitByTarget(r)
             \/ registerFailedLogin(r) \/ clearLoginFailures(r) \/ Respond(r)
             \/ CheckToken(r) \/ Rotate(r)
             \/ \E right \in BOOLEAN : ComparePassword(r, right)
             \/ \E s \in Sessions : SignIn(r, s)
      PROVE  faults' = faults
  BY <1>5 DEF assertLoginAllowed, LimitByIp, LimitByTarget, registerFailedLogin,
     clearLoginFailures, Respond, CheckToken, Rotate, ComparePassword, SignIn, redisVars
<1>6. ASSUME NEW r \in Requests, NEW p \in Procs,
             \/ \E u \in Users, i \in Ips, route \in Routes : Submit(r, p, u, i, route)
             \/ \E t \in issued : Refresh(r, p, t)
             \/ \E s \in Sessions : Logout(r, p, s)
      PROVE  faults' = faults
  BY <1>6 DEF Submit, Refresh, Logout, redisVars
<1>7. ASSUME \/ \E u \in Users : DeleteAccount(u)
             \/ \E k \in Counters \union Blocks : WindowEnds(k)
             \/ \E p \in Procs : \E k \in Keys : Forget(p, k)
             \/ \E s \in Sessions : SessionEnds(s)
             \/ \E c \in strays : Straggler(c)
             \/ \E p \in Procs : BackOn(p) \/ Restart(p)
             \/ Tick \/ UNCHANGED vars
      PROVE  faults' = faults \/ faults' = faults + 1
  BY <1>7 DEF DeleteAccount, WindowEnds, Expire, Forget, SessionEnds, Straggler, StrayArrives,
     BackOn, Reconnect, Restart, Tick, vars, redisVars
<1> QED
  BY <1>2, <1>3, <1>4, <1>5, <1>6, <1>7 DEF Next

\* Every step keeps CalmInv.
LEMMA StepKeepsCalm ==
  ASSUME Basics, CalmInv, [Next]_vars
  PROVE  CalmInv'
<1> SUFFICES ASSUME faults' = 0 PROVE Calm'
  BY DEF CalmInv
<1>1. faults = 0 /\ Calm
  BY FaultsStay DEF CalmInv
<1>2. ~\E c \in strays : Straggler(c)
  BY <1>1 DEF Calm
<1>3. ~\E p \in Procs : Restart(p)
  BY <1>1 DEF Restart
<1>4. CASE UNCHANGED vars
  BY <1>1, <1>4, EventsCalm
<1>5. CASE Next
  BY <1>1, <1>2, <1>3, <1>5, AskCalm, ExpiryCalm, HandlersCalm, EntrancesCalm, EventsCalm,
     WindowCalm DEF Next
<1> QED
  BY <1>4, <1>5

\* Unless something has failed, a counter that has counted has its expiry, or the
\* request that began it is about to give it one: INCR and EXPIRE are two calls.
THEOREM CounterExpiresHolds == Spec => []CounterExpires
<1>1. Basics /\ CalmInv => CounterExpires
  BY DEF CalmInv, Calm, Bounded, Expires, CounterExpires
<1>2. Basics /\ CalmInv /\ [Next]_vars => Basics' /\ CalmInv'
  BY StepKeepsBasics, StepKeepsCalm
<1> QED
  BY <1>1, <1>2, InitBasics, InitCalm, PTL DEF Spec

\* Unless something has failed, once the failures of an account from an address
\* reach the threshold it is blocked or a request is about to store the block,
\* whatever logins run at the same time, until the block ends or a login clears it.
THEOREM BlockStandsHolds == Spec => []BlockStands
<1>1. Basics /\ CalmInv => BlockStands
  <2> SUFFICES ASSUME Basics, CalmInv, faults = 0, NEW u \in Users, NEW i \in Ips,
                      redis[FailKey(u, i)].val \in Nat, redis[FailKey(u, i)].val >= Threshold
               PROVE  \/ redis[BlockKey(u, i)] # Missing
                      \/ BlockKey(u, i) \in lapsed
                      \/ \E r \in Requests : up[r].pc \in {"count", "block"}
                                               /\ up[r].user = u /\ up[r].ip = i
    BY DEF BlockStands
  <2>1. Stands(u, i)
    BY DEF CalmInv, Calm
  <2> QED
    BY <2>1 DEF Stands, BlocksFor, Blocking
<1>2. Basics /\ CalmInv /\ [Next]_vars => Basics' /\ CalmInv'
  BY StepKeepsBasics, StepKeepsCalm
<1> QED
  BY <1>1, <1>2, InitBasics, InitCalm, PTL DEF Spec

-----------------------------------------------------------------------------
(* What every step but a call to Redis does to the sessions.               *)

\* A request that comes: a refresh has been handed its token, and unless it is
\* alone with its session the session counts as raced.
Comes(q) ==
  /\ up[q].pc = "idle" /\ up'[q].at = "redis" /\ Others(q)
  /\ up'[q].late => up'[q].user \in inactive
  /\ \/ up'[q].pc \in {"blocked", "ip"}
     \/ /\ up'[q].pc = "read" /\ up'[q].token \in issued
        /\ With(up'[q].token.session) = {} \/ up'[q].token.session \in raced'
     \/ up'[q].pc = "logout" /\ \E t \in issued : t.session = up'[q].token.session

\* A request that goes on from its step.
GoesTo(q) ==
  /\ up[q].pc # "idle" /\ SameRequest(q) /\ Others(q)
  /\ \/ up'[q].pc \in {"ip", "target", "find", "count", "block"}
     \/ up'[q].pc = "clear" /\ up[q].user \notin inactive
     \/ up[q].pc = "clear" /\ up'[q].pc = "unblock"
     \/ /\ up[q].pc = "unblock" /\ up'[q].pc = "session"
        /\ \E s \in Sessions \ Used : up'[q].cmd = Command("set", {SessionKey(s)}, clock)
     \/ /\ up[q].pc = "read" /\ up[q].at = "memory" /\ up'[q].pc = "user"
        /\ IF up[q].ans = Null
           THEN up'[q].from = "memory" /\ up[q].token.session \in recalled'
           ELSE up'[q].from = "redis" /\ up[q].ans = up[q].token.second
     \/ up[q].pc = "user" /\ up'[q].pc = "drop"
     \/ /\ up[q].pc = "user" /\ up'[q].pc = "rotate" /\ up[q].user \notin inactive
        /\ up'[q].cmd = Command("set", {SessionKey(up[q].token.session)}, clock)

\* A request that is still at its call.
Stays(q) ==
  /\ up[q].pc # "idle" /\ up[q].at # "query" /\ SameRequest(q)
  /\ up'[q].pc = up[q].pc /\ up'[q].cmd = up[q].cmd
  /\ \/ up'[q].at = up[q].at /\ up'[q].ans = up[q].ans
     \/ up[q].at = "expire"

Moves(q) == up'[q] = up[q] \/ up'[q].pc = "idle" \/ Comes(q) \/ GoesTo(q) \/ Stays(q)

\* What becomes of a session's key without a call of a request.
Left(s) ==
  \/ redis'[SessionKey(s)] = redis[SessionKey(s)]
  \/ redis'[SessionKey(s)] = Missing
  \/ \E c \in strays : c.op = "set" /\ c.keys = {SessionKey(s)}

\* A token that is handed out is the one its request has stored.
HandsOut(q, t) ==
  /\ up[q].pc \in {"session", "rotate"} /\ up'[q].pc = "idle"
  /\ t = Token(Key(q)[2], up[q].cmd.val)

Rest ==
  /\ UNCHANGED <<spent, revoked>>
  /\ raced \subseteq raced' /\ recalled \subseteq recalled' /\ inactive \subseteq inactive'
  /\ clock' >= clock
  /\ \A s \in Sessions : owner[s] # Null => owner'[s] # Null
  /\ \A c \in strays' \ strays : c.op = "expire"
  /\ \A s \in Sessions : Left(s)
  /\ \A t \in issued' \ issued : \E q \in Requests : HandsOut(q, t)
  /\ \A q \in Requests : Moves(q)

\* The handlers' steps.
LEMMA HandlersRest ==
  ASSUME Basics, NEW r \in Requests,
         \/ assertLoginAllowed(r) \/ LimitByIp(r) \/ LimitByTarget(r)
         \/ registerFailedLogin(r) \/ clearLoginFailures(r) \/ Respond(r)
         \/ CheckToken(r) \/ Rotate(r)
         \/ \E right \in BOOLEAN : ComparePassword(r, right)
         \/ \E s \in Sessions : SignIn(r, s)
  PROVE  Rest
<1>1. OnlyServes(r)
  BY BlockedStep, IpStep, TargetStep, FailureStep, ClearStep, LastStep, TokenStep, RotateStep,
     PasswordStep, SignInStep
<1>2. ASSUME up'[r].pc # "idle" PROVE GoesTo(r)
  <2>1. up[r].pc # "idle" /\ SameRequest(r) /\ Others(r)
    BY <1>1, <1>2 DEF OnlyServes
  <2>2. CASE \/ assertLoginAllowed(r) \/ LimitByIp(r) \/ LimitByTarget(r)
             \/ registerFailedLogin(r) \/ Respond(r)
    <3>1. up'[r].pc \in {"ip", "target", "find", "count", "block"}
      BY <1>2, <2>2, BlockedStep, IpStep, TargetStep, FailureStep, LastStep
    <3> QED
      BY <2>1, <3>1 DEF GoesTo
  <2>3. CASE clearLoginFailures(r)
    BY <2>1, <2>3, ClearStep DEF GoesTo
  <2>4. CASE \E right \in BOOLEAN : ComparePassword(r, right)
    <3>1. up'[r].pc = "count" \/ (up'[r].pc = "clear" /\ up[r].user \notin inactive)
      BY <2>4, PasswordStep
    <3> QED
      BY <2>1, <3>1 DEF GoesTo
  <2>5. ASSUME NEW s \in Sessions, SignIn(r, s) PROVE GoesTo(r)
    <3>1. /\ up[r].pc = "unblock" /\ up'[r].pc = "session"
          /\ up'[r].cmd = Command("set", {SessionKey(s)}, clock)
      BY <2>5, SignInStep
    <3>2. s \in Sessions \ Used
      BY <2>5 DEF SignIn
    <3> QED
      BY <2>1, <3>1, <3>2 DEF GoesTo
  <2>6. CASE CheckToken(r)
    <3>1. /\ up[r].pc = "read" /\ up[r].at = "memory" /\ up'[r].pc = "user"
          /\ Answer(r) = up[r].token.second
          /\ up'[r].from = IF up[r].ans = Null THEN "memory" ELSE "redis"
      BY <1>2, <2>6, TokenStep
    <3>2. up[r].ans = Null => up[r].token.session \in recalled'
      BY <2>6, <3>1 DEF CheckToken
    <3>3. up[r].ans # Null => up[r].ans = up[r].token.second
      <4>1. up[r].cmd.op = "get"
        BY <2>1, <3>1, CallKinds
      <4> QED
        BY <2>1, <3>1, <4>1, AnswerIs
    <3> QED
      BY <2>1, <3>1, <3>2, <3>3 DEF GoesTo
  <2>7. CASE Rotate(r)
    <3>1. /\ up[r].pc = "user"
          /\ \/ up'[r].pc = "drop"
             \/ /\ up'[r].pc = "rotate" /\ up[r].user \notin inactive
                /\ up'[r].cmd = Command("set", {SessionKey(up[r].token.session)}, clock)
      BY <2>7, RotateStep
    <3> QED
      BY <2>1, <3>1 DEF GoesTo
  <2> QED
    BY <2>2, <2>3, <2>4, <2>5, <2>6, <2>7
<1>3. \A q \in Requests : Moves(q)
  BY <1>1, <1>2 DEF OnlyServes, Others, Moves
<1>4. /\ UNCHANGED <<spent, revoked, raced, inactive, clock>>
      /\ recalled \subseteq recalled'
  BY DEF assertLoginAllowed, LimitByIp, LimitByTarget, registerFailedLogin,
     clearLoginFailures, Respond, CheckToken, Rotate, ComparePassword, SignIn, ghosts
<1>5. \A s \in Sessions : owner[s] # Null => owner'[s] # Null
  <2>1. CASE UNCHANGED owner
    BY <2>1
  <2>2. ASSUME NEW s \in Sessions, SignIn(r, s)
        PROVE  \A x \in Sessions : owner[x] # Null => owner'[x] # Null
    <3>1. up[r].pc \in LoginPcs /\ owner' = [owner EXCEPT ![s] = up[r].user]
      BY <2>2, SignInStep DEF LoginPcs, SignIn
    <3>2. up[r].user # Null
      BY <3>1, LoggingIn, SessionsAssumption
    <3>3. owner \in [Sessions -> Users \union {Null}]
      BY DEF Basics, SessionsTypeOK
    <3> QED
      BY <3>1, <3>2, <3>3
  <2> QED
    BY <2>1, <2>2 DEF assertLoginAllowed, LimitByIp, LimitByTarget, registerFailedLogin,
       clearLoginFailures, Respond, CheckToken, Rotate, ComparePassword
<1>6. UNCHANGED redisVars
  BY <1>1 DEF OnlyServes
<1>7. \A t \in issued' \ issued : \E q \in Requests : HandsOut(q, t)
  <2>1. CASE issued' = issued
    BY <2>1
  <2>2. CASE Respond(r)
    <3>1. /\ up'[r].pc = "idle"
          /\ issued' = IF up[r].pc \in {"session", "rotate"}
                       THEN issued \union {Token(Key(r)[2], up[r].cmd.val)} ELSE issued
      BY <2>2, LastStep DEF Respond
    <3> QED
      BY <3>1 DEF HandsOut
  <2> QED
    BY <2>1, <2>2 DEF assertLoginAllowed, LimitByIp, LimitByTarget, registerFailedLogin,
       clearLoginFailures, CheckToken, Rotate, ComparePassword, SignIn
<1>8. clock' >= clock
  BY <1>4, WorldTypes
<1> QED
  BY <1>3, <1>4, <1>5, <1>6, <1>7, <1>8 DEF Rest, Left, redisVars

\* Requests that come.
LEMMA EntrancesRest ==
  ASSUME Basics, NEW r \in Requests, NEW p \in Procs,
         \/ \E u \in Users, i \in Ips, route \in Routes : Submit(r, p, u, i, route)
         \/ \E t \in issued : Refresh(r, p, t)
         \/ \E s \in Sessions : Logout(r, p, s)
  PROVE  Rest
<1>1. Comes(r)
  <2>1. ASSUME NEW u \in Users, NEW i \in Ips, NEW route \in Routes, Submit(r, p, u, i, route)
        PROVE  Comes(r)
    BY <2>1, SubmitStep DEF Comes
  <2>2. ASSUME NEW t \in issued, Refresh(r, p, t) PROVE Comes(r)
    <3>1. With(t.session) = {} \/ t.session \in raced'
      BY <2>2 DEF Refresh
    <3> QED
      BY <2>2, <3>1, RefreshStep DEF Comes
  <2>3. ASSUME NEW s \in Sessions, Logout(r, p, s) PROVE Comes(r)
    BY <2>3, LogoutStep DEF Comes
  <2> QED
    BY <2>1, <2>2, <2>3
<1>2. \A q \in Requests : Moves(q)
  BY <1>1 DEF Comes, Others, Moves
<1>3. /\ UNCHANGED <<redisVars, spent, revoked, recalled, inactive, clock, owner, issued>>
      /\ raced \subseteq raced'
  BY DEF Submit, Refresh, Logout, ghosts
<1>4. clock' >= clock
  BY <1>3, WorldTypes
<1> QED
  BY <1>2, <1>3, <1>4 DEF Rest, Left, redisVars

\* A counter gets its expiry.
LEMMA ExpiryRest ==
  ASSUME Basics, NEW r \in Requests, AskExpiry(r)
  PROVE  Rest
<1>0. PICK c, j : c = Command("expire", up[r].cmd.keys, Null) /\ j = Key(r)
  OBVIOUS
<1>1. /\ up[r].pc # "idle" /\ up[r].at = "expire"
      /\ UNCHANGED <<memory, clock, inactive, owner, issued, ghosts>>
      /\ Executed(c) \/ Failed(up[r].proc, c)
  BY <1>0, AskingExpiry
<1>2. j \in Counters /\ j \in Keys /\ up[r].cmd.keys = {j} /\ up[r].at # "query"
  BY <1>0, <1>1, CallIs DEF Basics, Proper
<1>3. c \in Call /\ c.op = "expire" /\ c.keys = {j}
  <2>1. "expire" \in Ops /\ Null \in Values
    BY DEF Ops, Values
  <2>2. /\ Command("expire", {j}, Null) \in Call
        /\ Command("expire", {j}, Null).op = "expire"
        /\ Command("expire", {j}, Null).keys = {j}
    BY SMTT(30), <1>2, <2>1, CommandIs
  <2> QED
    BY <1>0, <1>2, <2>2
<1>4. \A s \in Sessions : redis'[SessionKey(s)] = redis[SessionKey(s)]
  <2>1. \A s \in Sessions : SessionKey(s) \in Keys \ {j}
    BY <1>2, KeysAre, KindsApart
  <2> QED
    BY <1>1, <1>3, <2>1, EffectIs DEF Executed, Failed, Basics
<1>5. \A d \in strays' \ strays : d.op = "expire"
  BY <1>1, <1>3, SMTT(30) DEF Executed, Failed
<1>6. /\ Others(r) /\ SameRequest(r) /\ up'[r].pc = up[r].pc /\ up'[r].cmd = up[r].cmd
  BY <1>1, AskingExpiry, Expiring DEF Basics
<1>7. \A q \in Requests : Moves(q)
  BY <1>1, <1>2, <1>6 DEF Others, Moves, Stays
<1>8. clock' >= clock
  BY <1>1, WorldTypes
<1> QED
  BY <1>1, <1>4, <1>5, <1>7, <1>8 DEF Rest, Left, ghosts

\* Time and failures.
LEMMA EventsRest ==
  ASSUME Basics,
         \/ \E u \in Users : DeleteAccount(u)
         \/ \E k \in Counters \union Blocks : WindowEnds(k)
         \/ \E p \in Procs : \E k \in Keys : Forget(p, k)
         \/ \E s \in Sessions : SessionEnds(s)
         \/ \E c \in strays : Straggler(c)
         \/ \E p \in Procs : BackOn(p) \/ Restart(p)
         \/ Tick \/ UNCHANGED vars
  PROVE  Rest
<1>1. /\ UNCHANGED <<spent, revoked, raced, recalled, owner>> /\ inactive \subseteq inactive'
      /\ strays' \subseteq strays /\ issued' \subseteq issued
  BY DEF DeleteAccount, WindowEnds, Expire, Forget, SessionEnds, Straggler, StrayArrives, BackOn,
     Reconnect, Restart, Tick, vars, redisVars, ghosts
<1>2. clock' = clock \/ clock' = clock + 1
  BY DEF DeleteAccount, WindowEnds, Forget, SessionEnds, Straggler, BackOn, Restart, Tick, vars
<1>3. clock' >= clock
  BY <1>2, WorldTypes
<1>4. \A q \in Requests : Moves(q)
  <2>1. ASSUME NEW k \in Counters \union Blocks, WindowEnds(k)
        PROVE  \A q \in Requests : Moves(q)
    <3>1. \A q \in Requests :
            /\ up'[q].pc = up[q].pc /\ up'[q].cmd = up[q].cmd /\ up'[q].at = up[q].at
            /\ up'[q].ans = up[q].ans /\ SameRequest(q)
            /\ ~(up[q].pc # "idle" /\ up[q].at # "query" /\ k \in up[q].cmd.keys)
                 => up'[q] = up[q]
      BY <2>1, Closing DEF WindowEnds
    <3> QED
      BY <3>1 DEF Moves, Stays
  <2>2. CASE \E p \in Procs : Restart(p)
    BY <2>2 DEF Restart, Moves, Idle
  <2>3. CASE UNCHANGED up
    BY <2>3 DEF Moves
  <2> QED
    BY <2>1, <2>2, <2>3 DEF DeleteAccount, Forget, SessionEnds, Straggler, BackOn, Tick, vars
<1>5. ASSUME NEW s \in Sessions PROVE Left(s)
  <2> DEFINE k == SessionKey(s)
  <2>1. k \in Keys /\ k \notin Counters \union Blocks
    BY KeysAre, KindsApart
  <2>2. CASE UNCHANGED redis
    BY <2>2 DEF Left
  <2>3. ASSUME NEW j \in Counters \union Blocks, WindowEnds(j) PROVE Left(s)
    BY <2>1, <2>3, WorldTypes DEF WindowEnds, Expire, Left
  <2>4. ASSUME NEW x \in Sessions, SessionEnds(x) PROVE Left(s)
    BY <2>1, <2>4, WorldTypes DEF SessionEnds, Expire, Left
  <2>5. ASSUME NEW c \in strays, Straggler(c) PROVE Left(s)
    <3>1. c \in Call /\ ProperStray(c) /\ redis' = Effect(c, redis) /\ c.op \in Ops
      BY <2>5, WorldTypes DEF Basics, Straggler, StrayArrives, Call, Ops
    <3>2. PICK j \in Keys : c.keys = {j} /\ (c.op \in {"incr", "expire"} => j \in Counters)
      BY <3>1 DEF ProperStray
    <3>3. CASE j # k
      <4>1. redis'[k] = redis[k]
        BY <2>1, <3>1, <3>2, <3>3, EffectIs DEF Basics
      <4> QED
        BY <4>1 DEF Left
    <3>4. CASE j = k /\ c.op = "set"
      BY <3>2, <3>4 DEF Left
    <3>5. CASE j = k /\ c.op \in {"get", "del"}
      <4>1. redis'[k] = redis[k] \/ redis'[k] = Missing
        BY <2>1, <3>1, <3>2, <3>5, EffectIs DEF Basics
      <4> QED
        BY <4>1 DEF Left
    <3> QED
      BY <2>1, <3>1, <3>2, <3>3, <3>4, <3>5 DEF Ops
  <2> QED
    BY <2>2, <2>3, <2>4, <2>5 DEF DeleteAccount, Forget, BackOn, Reconnect, Restart, Tick,
       vars, redisVars
<1> QED
  BY <1>1, <1>3, <1>4, <1>5 DEF Rest

\* A step is a call of a request to Redis, or one of the rest.
LEMMA AskOrRest ==
  ASSUME Basics, [Next]_vars
  PROVE  Rest \/ \E r \in Requests : AskRedis(r)
BY HandlersRest, EntrancesRest, ExpiryRest, EventsRest DEF Next

\* What a call to Redis does: it comes back without an answer, and may be left on
\* its way, or the server executes it.
Silent(r) ==
  /\ UNCHANGED <<redis, spent, revoked>> /\ up'[r].ans = Null
  /\ strays' \subseteq strays \union {up[r].cmd}
  /\ \/ strays' = strays
     \/ up[r].pc \in {"session", "rotate"} => Key(r)[2] \in raced'
Heard(r) ==
  /\ Executed(up[r].cmd) /\ Noted(r) /\ up'[r].ans = redis'[Key(r)].val

\* What a call to Redis may change: the request heard an answer, or none.
LEMMA AskIs ==
  ASSUME Basics, NEW r \in Requests, AskRedis(r)
  PROVE  /\ Others(r) /\ SameRequest(r) /\ up[r].pc # "idle" /\ up[r].at = "redis"
         /\ up'[r].pc = up[r].pc /\ up'[r].cmd = up[r].cmd
         /\ UNCHANGED <<clock, inactive, owner, issued, recalled>> /\ raced \subseteq raced'
         /\ Silent(r) \/ Heard(r)
<1>1. /\ up[r].pc # "idle" /\ up[r].at = "redis" /\ up[r].at # "query"
      /\ UNCHANGED <<memory, clock, inactive, owner, issued, admitted, recalled>>
  BY Asking
<1>2. ASSUME NEW at \in {"expire", "memory"}, NEW ans \in Values, NEW held \in BOOLEAN,
             Back(r, at, ans, held)
      PROVE  /\ Others(r) /\ SameRequest(r)
             /\ up'[r].pc = up[r].pc /\ up'[r].cmd = up[r].cmd /\ up'[r].ans = ans
  BY <1>1, <1>2, ComingBack DEF Basics
<1>3. Null \in Values
  BY DEF Values
<1>4. CASE /\ UNCHANGED redisVars
           /\ Back(r, "memory", Null, FALSE) /\ UNCHANGED <<lapsed, spent, revoked, raced>>
  <2>1. /\ Others(r) /\ SameRequest(r) /\ up'[r].ans = Null
        /\ up'[r].pc = up[r].pc /\ up'[r].cmd = up[r].cmd
    BY <1>2, <1>3, <1>4
  <2>2. Silent(r) /\ raced \subseteq raced'
    BY <1>4, <2>1 DEF Silent, redisVars
  <2> QED
    BY <1>1, <2>1, <2>2
<1>5. CASE /\ Executed(up[r].cmd) /\ Noted(r) /\ UNCHANGED raced
           /\ Back(r, IF up[r].cmd.op = "incr" /\ redis'[Key(r)].val = 1
                      THEN "expire" ELSE "memory", redis'[Key(r)].val, TRUE)
  <2>1. PICK ans \in Values : ans = redis'[Key(r)].val
    BY <1>1, <1>5, CallIs, EffectIs DEF Executed, Kept, Basics
  <2>2. PICK at \in {"expire", "memory"} : Back(r, at, ans, TRUE)
    BY <1>5, <2>1
  <2>3. /\ Others(r) /\ SameRequest(r) /\ up'[r].ans = redis'[Key(r)].val
        /\ up'[r].pc = up[r].pc /\ up'[r].cmd = up[r].cmd
    BY <1>2, <2>1, <2>2
  <2>4. Heard(r) /\ raced \subseteq raced'
    BY <1>5, <2>3 DEF Heard
  <2> QED
    BY <1>1, <2>3, <2>4
<1>6. CASE /\ Failed(up[r].proc, up[r].cmd)
           /\ Back(r, "memory", Null, TRUE) /\ UNCHANGED <<lapsed, spent, revoked>>
           /\ raced' = IF up[r].pc \in {"session", "rotate"}
                       THEN raced \union {Key(r)[2]} ELSE raced
  <2>1. /\ Others(r) /\ SameRequest(r) /\ up'[r].ans = Null
        /\ up'[r].pc = up[r].pc /\ up'[r].cmd = up[r].cmd
    BY <1>2, <1>3, <1>6
  <2>2. strays' \subseteq strays \union {up[r].cmd} /\ UNCHANGED redis
    BY <1>6 DEF Failed
  <2>3. /\ raced \subseteq raced'
        /\ up[r].pc \in {"session", "rotate"} => Key(r)[2] \in raced'
    <3>1. CASE up[r].pc \in {"session", "rotate"}
      BY <1>6, <3>1
    <3>2. CASE up[r].pc \notin {"session", "rotate"}
      BY <1>6, <3>2
    <3> QED
      BY <3>1, <3>2
  <2>4. Silent(r)
    BY <1>6, <2>1, <2>2, <2>3 DEF Silent
  <2> QED
    BY <1>1, <2>1, <2>3, <2>4
<1> QED
  BY <1>4, <1>5, <1>6, Asking

-----------------------------------------------------------------------------
(* A session that is being signed in is nobody's yet.                      *)

SigningIn(x, s) == x.pc = "session" /\ x.cmd.keys = {SessionKey(s)}
Named(x, s) == x.pc \in Refreshing \union {"logout"} /\ x.token.session = s

\* A session somebody has heard of, or once had.
Public(s) ==
  \/ \E t \in issued : t.session = s
  \/ \E r \in Requests : Named(up[r], s)
  \/ s \in revoked
  \/ \E t \in spent : t.session = s

SignInv ==
  /\ \A s \in Sessions : Public(s) => owner[s] # Null
  /\ \A r \in Requests, s \in Sessions : SigningIn(up[r], s) =>
       ~Public(s) /\ \A q \in Requests : SigningIn(up[q], s) => q = r

\* SignInv holds at the start.
LEMMA InitSign == Init => SignInv
<1> SUFFICES ASSUME Init PROVE SignInv
  OBVIOUS
<1>1. revoked = {} /\ spent = {} /\ \A r \in Requests : up[r].pc = "idle"
  BY DEF Init, Idle
<1>2. \A t \in issued : owner[t.session] # Null
  BY InitBasics DEF Basics
<1>3. \A r \in Requests, s \in Sessions : ~SigningIn(up[r], s) /\ ~Named(up[r], s)
  BY <1>1 DEF SigningIn, Named, Refreshing
<1> QED
  BY <1>1, <1>2, <1>3 DEF SignInv, Public

\* A call to Redis keeps SignInv.
LEMMA AskSign ==
  ASSUME Basics, SignInv, NEW r \in Requests, AskRedis(r)
  PROVE  SignInv'
<1>1. /\ Others(r) /\ SameRequest(r) /\ up'[r].pc = up[r].pc /\ up'[r].cmd = up[r].cmd
      /\ UNCHANGED <<owner, issued>> /\ up[r].pc # "idle"
      /\ Silent(r) \/ Heard(r)
  BY AskIs
<1>2. \A q \in Requests, s \in Sessions :
        /\ SigningIn(up'[q], s) => SigningIn(up[q], s)
        /\ Named(up'[q], s) => Named(up[q], s)
  BY <1>1 DEF Others, SameRequest, SigningIn, Named
<1>3. \A s \in revoked' : s \in revoked \/ Named(up[r], s)
  BY <1>1 DEF Silent, Heard, Noted, Named
<1>4. \A t \in spent' : t \in spent \/ Named(up[r], t.session)
  BY <1>1 DEF Silent, Heard, Noted, Named, Refreshing
<1>5. ASSUME NEW s \in Sessions, Public(s)' PROVE Public(s)
  BY <1>1, <1>2, <1>3, <1>4, <1>5 DEF Public, Named
<1> QED
  BY <1>1, <1>2, <1>5 DEF SignInv, SigningIn

\* Where a name comes from.
LEMMA MovesNamed ==
  ASSUME Basics, NEW q \in Requests, Moves(q), NEW s, Named(up'[q], s)
  PROVE  Named(up[q], s) \/ \E t \in issued : t.session = s
<1>1. up'[q].pc # "idle" /\ up'[q].pc \in {"read", "user", "drop", "rotate", "logout"}
  BY DEF Named, Refreshing
<1>2. CASE Comes(q)
  BY <1>1, <1>2 DEF Comes, Named
<1>3. CASE GoesTo(q)
  BY <1>1, <1>3 DEF GoesTo, SameRequest, Named, Refreshing
<1>4. CASE Stays(q)
  BY <1>4 DEF Stays, SameRequest, Named
<1> QED
  BY <1>1, <1>2, <1>3, <1>4 DEF Moves

\* Where a sign-in comes from: the session was no one's.
LEMMA MovesSigningIn ==
  ASSUME Basics, NEW q \in Requests, Moves(q), NEW s \in Sessions, SigningIn(up'[q], s)
  PROVE  \/ SigningIn(up[q], s)
         \/ /\ owner[s] = Null /\ up[q].pc = "unblock" /\ Others(q)
            /\ \A x \in Sessions : SigningIn(up'[q], x) => x = s
<1>1. up'[q].pc = "session" /\ up'[q].cmd.keys = {SessionKey(s)}
  BY DEF SigningIn
<1>2. CASE Comes(q)
  BY <1>1, <1>2 DEF Comes
<1>3. CASE GoesTo(q)
  <2>1. PICK x \in Sessions \ Used :
          /\ up[q].pc = "unblock" /\ Others(q)
          /\ up'[q].cmd = Command("set", {SessionKey(x)}, clock)
    BY <1>1, <1>3 DEF GoesTo
  <2>2. up'[q].cmd.keys = {SessionKey(x)}
    BY <2>1 DEF Command
  <2>3. SessionKey(x) = SessionKey(s)
    BY <1>1, <2>2
  <2>4. x = s
    BY <2>3, KeysDiffer
  <2>5. ASSUME NEW y \in Sessions, SigningIn(up'[q], y) PROVE y = s
    <3>1. SessionKey(y) = SessionKey(s)
      BY <1>1, <2>5 DEF SigningIn
    <3> QED
      BY <3>1, KeysDiffer
  <2> QED
    BY <2>1, <2>4, <2>5 DEF Used
<1>4. CASE Stays(q)
  BY <1>1, <1>4 DEF Stays, SigningIn
<1>5. CASE up'[q] = up[q]
  BY <1>1, <1>5 DEF SigningIn
<1> QED
  BY <1>1, <1>2, <1>3, <1>4, <1>5 DEF Moves

\* Every other step keeps SignInv.
LEMMA RestSign ==
  ASSUME Basics, SignInv, Rest
  PROVE  SignInv'
<1>1. /\ UNCHANGED <<spent, revoked>>
      /\ \A s \in Sessions : owner[s] # Null => owner'[s] # Null
      /\ \A t \in issued' \ issued : \E q \in Requests : HandsOut(q, t)
      /\ \A q \in Requests : Moves(q)
  BY DEF Rest
<1>2. \A r \in Requests, s \in Sessions : SigningIn(up[r], s) => owner[s] # Null
  BY DEF Basics, InHand, SigningIn
\* A token is handed out for a session that is public or was being signed in.
<1>3. ASSUME NEW t \in issued' \ issued, NEW s \in Sessions, t.session = s
      PROVE  \E q \in Requests :
               /\ up'[q].pc = "idle"
               /\ SigningIn(up[q], s) \/ Named(up[q], s)
  <2>1. PICK q \in Requests : HandsOut(q, t)
    BY <1>1
  <2>2. /\ up[q].pc \in {"session", "rotate"} /\ up'[q].pc = "idle"
        /\ t = Token(Key(q)[2], up[q].cmd.val)
    BY <2>1 DEF HandsOut
  <2>3. Key(q)[2] = s
    BY <1>3, <2>2 DEF Token
  <2>4. InHand(up[q], s)
    BY <2>2, <2>3, Handed
  <2> QED
    BY <2>2, <2>4 DEF InHand, SigningIn, Named
<1>4. ASSUME NEW s \in Sessions, Public(s)'
      PROVE  Public(s) \/ \E q \in Requests : up'[q].pc = "idle" /\ SigningIn(up[q], s)
  <2>1. CASE \E t \in issued' : t.session = s
    BY <1>3, <2>1 DEF Public
  <2>2. ASSUME NEW q \in Requests, Named(up'[q], s) PROVE Public(s)
    BY <1>1, <2>2, MovesNamed DEF Public
  <2> QED
    BY <1>1, <1>4, <2>1, <2>2 DEF Public, Named
<1>5. \A s \in Sessions : Public(s)' => owner'[s] # Null
  BY <1>1, <1>2, <1>4 DEF SignInv
<1>6. ASSUME NEW r \in Requests, NEW s \in Sessions, SigningIn(up'[r], s)
      PROVE  ~Public(s)' /\ \A q \in Requests : SigningIn(up'[q], s) => q = r
  <2>1. up'[r].pc # "idle"
    BY <1>6 DEF SigningIn
  <2>2. CASE SigningIn(up[r], s)
    <3>1. ~Public(s) /\ \A q \in Requests : SigningIn(up[q], s) => q = r
      BY <2>2 DEF SignInv
    <3>2. ~Public(s)'
      BY <1>4, <2>1, <3>1
    <3>3. ASSUME NEW q \in Requests, SigningIn(up'[q], s) PROVE q = r
      <4>1. owner[s] # Null
        BY <1>2, <2>2
      <4>2. SigningIn(up[q], s)
        BY <1>1, <3>3, <4>1, MovesSigningIn
      <4> QED
        BY <3>1, <4>2
    <3> QED
      BY <3>2, <3>3
  <2>3. CASE ~SigningIn(up[r], s)
    <3>1. owner[s] = Null /\ Others(r)
      BY <1>1, <1>6, <2>3, MovesSigningIn
    <3>2. ~Public(s) /\ \A q \in Requests : ~SigningIn(up[q], s)
      BY <1>2, <3>1 DEF SignInv
    <3>3. ~Public(s)'
      BY <1>4, <3>2
    <3>4. \A q \in Requests : SigningIn(up'[q], s) => q = r
      BY <3>1, <3>2 DEF Others
    <3> QED
      BY <3>3, <3>4
  <2> QED
    BY <2>2, <2>3
<1> QED
  BY <1>5, <1>6 DEF SignInv, SigningIn

-----------------------------------------------------------------------------
(* What a logout or a deletion ends.                                       *)

\* The steps that a request of a deleted account does not reach.
Granting == {"clear", "unblock", "session", "rotate"}
LateInv ==
  \A r \in Requests : up[r].pc # "idle" /\ up[r].late =>
    up[r].user \in inactive /\ up[r].pc \notin Granting

\* A call to Redis keeps LateInv.
LEMMA AskLate ==
  ASSUME Basics, LateInv, NEW r \in Requests, AskRedis(r)
  PROVE  LateInv'
<1>1. /\ Others(r) /\ SameRequest(r) /\ up'[r].pc = up[r].pc /\ UNCHANGED inactive
  BY AskIs
<1> QED
  BY <1>1 DEF LateInv, Others, SameRequest

\* Every other step keeps LateInv.
LEMMA RestLate ==
  ASSUME Basics, LateInv, Rest
  PROVE  LateInv'
<1>1. inactive \subseteq inactive' /\ \A q \in Requests : Moves(q)
  BY DEF Rest
<1> SUFFICES ASSUME NEW q \in Requests, up'[q].pc # "idle", up'[q].late
             PROVE  up'[q].user \in inactive' /\ up'[q].pc \notin Granting
  BY DEF LateInv
<1>2. CASE Comes(q)
  BY <1>1, <1>2 DEF Comes, Granting
<1>3. CASE GoesTo(q)
  <2>1. up[q].pc # "idle" /\ up[q].late /\ up'[q].user = up[q].user
    BY <1>3 DEF GoesTo, SameRequest
  <2>2. up[q].user \in inactive /\ up[q].pc \notin Granting
    BY <2>1 DEF LateInv
  <2>3. \/ up'[q].pc \in {"ip", "target", "find", "count", "block", "user", "drop"}
        \/ up'[q].pc \in {"clear", "rotate"} /\ up[q].user \notin inactive
        \/ up'[q].pc \in {"unblock", "session"} /\ up[q].pc \in {"clear", "unblock"}
    BY <1>3 DEF GoesTo
  <2> QED
    BY <1>1, <2>1, <2>2, <2>3 DEF Granting
<1>4. CASE Stays(q)
  BY <1>1, <1>4 DEF Stays, SameRequest, LateInv
<1>5. CASE up'[q] = up[q]
  BY <1>1, <1>5 DEF LateInv
<1> QED
  BY <1>1, <1>2, <1>3, <1>4, <1>5 DEF Moves

\* A refresh of a session.
Refreshes(x, s) == x.pc \in Refreshing /\ x.token.session = s

\* A command that would store a session again.
Restores(c, s) == c.op = "set" /\ c.keys = {SessionKey(s)}

\* A session that was closed is gone from Redis, nothing on its way would bring it
\* back, and a refresh of it has found nothing there.
Closed(s) ==
  /\ redis[SessionKey(s)] = Missing
  /\ \A c \in strays : ~Restores(c, s)
  /\ \A r \in Requests : Refreshes(up[r], s) =>
       up[r].pc = "read" /\ (up[r].at # "redis" => up[r].ans = Null)

RevokedInv == \A s \in revoked \ recalled : Closed(s)

\* Who stores a session: its sign-in, or a refresh that rotates it.
LEMMA RestoredBy ==
  ASSUME Basics, NEW r \in Requests, up[r].pc # "idle", up[r].at # "query",
         NEW s \in Sessions, Restores(up[r].cmd, s)
  PROVE  SigningIn(up[r], s) \/ (up[r].pc = "rotate" /\ Refreshes(up[r], s))
<1>1. up[r].cmd.op = "set" /\ up[r].cmd.keys = {SessionKey(s)} /\ Key(r) = SessionKey(s)
  BY OneKey DEF Restores
<1>2. up[r].pc \in {"block", "session", "rotate"}
  BY <1>1, CallKinds DEF LoginPcs, Refreshing
<1>3. up[r].pc # "block"
  <2>1. SessionKey(s) \notin Blocks
    BY KindsApart
  <2> QED
    BY <1>1, <2>1, CallKinds, KeysAre DEF LoginPcs
<1>4. CASE up[r].pc = "rotate"
  <2>1. up[r].token.session \in Sessions /\ SessionKey(up[r].token.session) = SessionKey(s)
    BY <1>1, <1>4, CallKinds DEF Refreshing
  <2>2. up[r].token.session = s
    BY <2>1, KeysDiffer
  <2> QED
    BY <1>4, <2>2 DEF Refreshes, Refreshing
<1> QED
  BY <1>1, <1>2, <1>3, <1>4 DEF SigningIn

\* What the call of a request makes of a session's key.
LEMMA SessionAfter ==
  ASSUME Basics, NEW r \in Requests, up[r].pc # "idle", up[r].at # "query",
         Executed(up[r].cmd), NEW s \in Sessions
  PROVE  /\ Restores(up[r].cmd, s) => redis'[SessionKey(s)].val = up[r].cmd.val
         /\ ~Restores(up[r].cmd, s) =>
              redis'[SessionKey(s)] = redis[SessionKey(s)] \/ redis'[SessionKey(s)] = Missing
         /\ up[r].cmd.op = "get" => redis'[SessionKey(s)] = redis[SessionKey(s)]
         /\ up[r].cmd.op = "del" /\ Key(r) = SessionKey(s) => redis'[SessionKey(s)] = Missing
<1>0. PICK c, j : c = up[r].cmd /\ j = Key(r)
  OBVIOUS
<1>1. /\ c \in Call /\ c.keys = {j} /\ j \in Keys /\ c.op \in {"get", "set", "del", "incr"}
      /\ c.op = "incr" => j \in Counters
  BY <1>0, CallIs
<1>2. SessionKey(s) \in Keys /\ SessionKey(s) \notin Counters
  BY KeysAre, KindsApart
<1>3. /\ \A k \in Keys \ {j} : redis'[k] = redis[k]
      /\ c.op = "get" => redis'[j] = redis[j]
      /\ c.op = "set" => redis'[j].val = c.val
      /\ c.op = "del" => redis'[j] = Missing
  BY <1>0, <1>1, EffectIs DEF Executed, Basics
<1> QED
  BY <1>0, <1>1, <1>2, <1>3 DEF Restores

\* A call to Redis keeps RevokedInv.
LEMMA AskRevoked ==
  ASSUME Basics, SignInv, RevokedInv, NEW r \in Requests, AskRedis(r)
  PROVE  RevokedInv'
<1>1. /\ Others(r) /\ SameRequest(r) /\ up[r].pc # "idle" /\ up[r].at = "redis"
      /\ up[r].at # "query" /\ up'[r].pc = up[r].pc
      /\ UNCHANGED recalled
      /\ Silent(r) \/ Heard(r)
  BY AskIs
<1>2. \A q \in Requests, s \in Sessions : Refreshes(up'[q], s) => Refreshes(up[q], s)
  BY <1>1 DEF Others, SameRequest, Refreshes
<1>3. ASSUME NEW s \in revoked \ recalled PROVE Closed(s)'
  <2>1. s \in Sessions /\ Closed(s)
    BY <1>3, GhostTypes DEF RevokedInv
  <2>2. ~Restores(up[r].cmd, s)
    <3>1. ~SigningIn(up[r], s)
      BY <1>3, <2>1 DEF SignInv, Public
    <3>2. ~(up[r].pc = "rotate" /\ Refreshes(up[r], s))
      BY <2>1 DEF Closed
    <3> QED
      BY <1>1, <2>1, <3>1, <3>2, RestoredBy
  <2>3. redis'[SessionKey(s)] = Missing
    BY <1>1, <2>1, <2>2, SessionAfter DEF Silent, Heard, Closed
  <2>4. \A c \in strays' : ~Restores(c, s)
    BY <1>1, <2>1, <2>2 DEF Silent, Heard, Executed, Closed
  <2>5. ASSUME Refreshes(up'[r], s) PROVE up'[r].pc = "read" /\ up'[r].ans = Null
    <3>1. up[r].pc = "read" /\ up[r].token.session = s
      BY <1>1, <1>2, <2>1, <2>5 DEF Closed, Refreshes
    <3>2. Key(r) = SessionKey(s)
      BY <1>1, <3>1, CallKinds
    <3> QED
      BY <1>1, <2>3, <3>1, <3>2 DEF Silent, Heard, Missing
  <2>6. ASSUME NEW q \in Requests, Refreshes(up'[q], s)
        PROVE  up'[q].pc = "read" /\ (up'[q].at # "redis" => up'[q].ans = Null)
    BY <1>1, <1>2, <2>1, <2>5, <2>6 DEF Others, Closed
  <2> QED
    BY <2>3, <2>4, <2>6 DEF Closed, Refreshes, SessionKey, Missing
<1>4. ASSUME NEW s \in revoked', s \notin revoked PROVE Closed(s)'
  <2>1. Heard(r) /\ Noted(r)
    BY <1>1, <1>4 DEF Silent, Heard
  <2>2. /\ up[r].pc = "logout" /\ s = up[r].token.session /\ With(s) = {}
        /\ ~\E c \in strays : c.op = "set" /\ c.keys = up[r].cmd.keys
    BY <1>4, <2>1 DEF Noted
  <2>3. /\ s \in Sessions /\ Key(r) = SessionKey(s) /\ up[r].cmd.op = "del"
        /\ up[r].cmd.keys = {SessionKey(s)}
    BY <1>1, <2>2, CallKinds, CallIs
  <2>4. redis'[SessionKey(s)] = Missing
    BY <1>1, <2>1, <2>3, SessionAfter DEF Heard
  <2>5. \A c \in strays' : ~Restores(c, s)
    BY <2>1, <2>2, <2>3 DEF Heard, Executed, Restores
  <2>6. \A q \in Requests : ~Refreshes(up'[q], s)
    BY <1>2, <2>2, <2>3 DEF With, Refreshes
  <2> QED
    BY <2>4, <2>5, <2>6 DEF Closed, Refreshes, SessionKey, Missing
<1> QED
  BY <1>1, <1>3, <1>4 DEF RevokedInv

\* Every other step keeps RevokedInv.
LEMMA RestRevoked ==
  ASSUME Basics, RevokedInv, Rest
  PROVE  RevokedInv'
<1>1. /\ revoked' = revoked /\ recalled \subseteq recalled'
      /\ \A c \in strays' \ strays : c.op = "expire"
      /\ \A s \in Sessions : Left(s)
      /\ \A q \in Requests : Moves(q)
  BY DEF Rest
<1> SUFFICES ASSUME NEW s \in revoked \ recalled, s \notin recalled' PROVE Closed(s)'
  BY <1>1 DEF RevokedInv
<1>2. s \in Sessions /\ Closed(s)
  BY GhostTypes DEF RevokedInv
<1>3. redis'[SessionKey(s)] = Missing
  BY <1>1, <1>2 DEF Left, Closed, Restores
<1>4. \A c \in strays' : ~Restores(c, s)
  BY <1>1, <1>2 DEF Closed, Restores
<1>5. ASSUME NEW q \in Requests, Refreshes(up'[q], s)
      PROVE  up'[q].pc = "read" /\ (up'[q].at # "redis" => up'[q].ans = Null)
  <2>1. up'[q].pc \in {"read", "user", "drop", "rotate"} /\ up'[q].token.session = s
    BY <1>5 DEF Refreshes, Refreshing
  <2>2. CASE Comes(q)
    BY <2>1, <2>2 DEF Comes
  <2>3. CASE GoesTo(q)
    <3>1. Refreshes(up[q], s) /\ up[q].pc \in {"read", "user"}
      BY <2>1, <2>3 DEF GoesTo, SameRequest, Refreshes, Refreshing
    <3>2. up[q].pc = "read" /\ (up[q].at # "redis" => up[q].ans = Null)
      BY <1>2, <3>1 DEF Closed
    <3>3. up[q].at = "memory" /\ (up[q].ans = Null => up[q].token.session \in recalled')
      BY <2>1, <2>3, <3>2 DEF GoesTo
    <3> QED
      BY <3>1, <3>2, <3>3 DEF Refreshes
  <2>4. CASE Stays(q)
    <3>1. Refreshes(up[q], s) /\ up[q].pc # "idle" /\ up[q].at # "query"
      BY <2>1, <2>4 DEF Stays, SameRequest, Refreshes, Refreshing
    <3>2. up[q].pc = "read" /\ (up[q].at # "redis" => up[q].ans = Null)
      BY <1>2, <3>1 DEF Closed
    <3>3. up[q].at # "expire"
      BY <3>1, <3>2, CallKinds DEF Basics, Proper
    <3> QED
      BY <2>4, <3>2, <3>3 DEF Stays
  <2>5. CASE up'[q] = up[q]
    BY <1>2, <1>5, <2>5 DEF Closed
  <2> QED
    BY <1>1, <2>1, <2>2, <2>3, <2>4, <2>5 DEF Moves
<1> QED
  BY <1>3, <1>4, <1>5 DEF Closed, Refreshes, SessionKey, Missing

\* A session that a logout closed, with no refresh of it and no late command about,
\* is not stored again, by whatever requests run and whatever Redis executes late,
\* unless a process revives it from its memory; and a request that came after its
\* account was deleted never gets as far as a session.
THEOREM EndedHolds == Spec => []EndedGivesNothing
<1> DEFINE Inv == Basics /\ SignInv /\ LateInv /\ RevokedInv
<1>1. Init => Inv
  <2>1. Init => LateInv /\ RevokedInv
    BY DEF Init, LateInv, RevokedInv, Idle
  <2> QED
    BY <2>1, InitBasics, InitSign
<1>2. Inv /\ [Next]_vars => Inv'
  BY StepKeepsBasics, AskOrRest, AskSign, RestSign, AskLate, RestLate, AskRevoked, RestRevoked
<1>3. Inv => EndedGivesNothing
  <2>1. RevokedInv => LogoutRevokes
    BY DEF RevokedInv, Closed, LogoutRevokes
  <2>2. LateInv => DeletedGetsNothing
    BY DEF LateInv, DeletedGetsNothing, Granting
  <2> QED
    BY <2>1, <2>2 DEF EndedGivesNothing
<1> QED
  BY <1>1, <1>2, <1>3, PTL DEF Spec

-----------------------------------------------------------------------------
(* A token is exchanged once.                                              *)

\* No token is of a later second than the clock, and one that was exchanged is of
\* an earlier one.
ClockInv ==
  /\ \A t \in issued : t.second <= clock
  /\ \A t \in spent : t.second < clock
  /\ \A r \in Requests :
       /\ up[r].pc \in Refreshing => up[r].token.second <= clock
       /\ up[r].pc \in {"session", "rotate"} => up[r].cmd.val <= clock
       /\ up[r].pc = "rotate" => up[r].token.second <= up[r].cmd.val

\* A call to Redis keeps ClockInv.
LEMMA AskClock ==
  ASSUME Basics, ClockInv, NEW r \in Requests, AskRedis(r)
  PROVE  ClockInv'
<1>1. /\ Others(r) /\ SameRequest(r) /\ up'[r].pc = up[r].pc /\ up'[r].cmd = up[r].cmd
      /\ UNCHANGED <<clock, issued>>
      /\ Silent(r) \/ Heard(r)
  BY AskIs
<1>2. ASSUME NEW t \in spent', t \notin spent PROVE t.second < clock
  <2>1. up[r].pc = "rotate" /\ up[r].cmd.val # up[r].token.second /\ t = up[r].token
    BY <1>1, <1>2 DEF Silent, Heard, Noted
  <2>2. up[r].cmd.val \in Nat /\ up[r].token \in Tokens /\ clock \in Nat
    BY <2>1, SessionOf, WorldTypes DEF Refreshing
  <2>3. up[r].token.second \in Nat
    BY <2>2 DEF Tokens
  <2>4. up[r].token.second <= up[r].cmd.val /\ up[r].cmd.val <= clock
    BY <2>1 DEF ClockInv
  <2> QED
    BY <2>1, <2>2, <2>3, <2>4
<1>3. \A t \in spent' : t.second < clock
  BY <1>2 DEF ClockInv
<1> QED
  BY <1>1, <1>3 DEF ClockInv, Others, SameRequest

\* Every other step keeps ClockInv.
LEMMA RestClock ==
  ASSUME Basics, ClockInv, Rest, clock' \in Nat
  PROVE  ClockInv'
<1>1. /\ spent' = spent /\ clock' >= clock
      /\ \A t \in issued' \ issued : \E q \in Requests : HandsOut(q, t)
      /\ \A q \in Requests : Moves(q)
  BY DEF Rest
<1>2. clock \in Nat /\ clock' \in Nat /\ issued \subseteq Tokens /\ spent \subseteq Tokens
  BY GhostTypes, WorldTypes DEF Basics, SessionsTypeOK
<1>3. \A t \in Tokens : t.second \in Nat
  BY DEF Tokens
<1>4. \A t \in issued : t.second <= clock'
  BY <1>1, <1>2, <1>3 DEF ClockInv
<1>5. \A t \in spent' : t.second < clock'
  BY <1>1, <1>2, <1>3 DEF ClockInv
<1>6. ASSUME NEW t \in issued', t \notin issued PROVE t.second <= clock'
  <2>1. PICK q \in Requests : HandsOut(q, t)
    BY <1>1, <1>6
  <2>2. up[q].pc \in {"session", "rotate"} /\ t.second = up[q].cmd.val
    BY <2>1 DEF HandsOut, Token
  <2>3. up[q].cmd.val \in Nat /\ up[q].cmd.val <= clock
    BY <2>2, SessionOf DEF ClockInv
  <2> QED
    BY <1>1, <1>2, <2>2, <2>3
<1>7. ASSUME NEW q \in Requests, up'[q].pc \in Refreshing PROVE up'[q].token.second <= clock'
  <2>1. up'[q].pc \in {"read", "user", "drop", "rotate"}
    BY <1>7 DEF Refreshing
  <2>2. CASE Comes(q)
    BY <1>4, <2>1, <2>2 DEF Comes
  <2>3. CASE ~Comes(q)
    <3>1. up[q].pc \in Refreshing /\ up'[q].token = up[q].token
      BY <1>1, <2>1, <2>3 DEF Moves, GoesTo, Stays, SameRequest, Refreshing
    <3>2. up[q].token.second \in Nat /\ up[q].token.second <= clock
      BY <1>3, <3>1, SessionOf DEF ClockInv
    <3> QED
      BY <1>1, <1>2, <3>1, <3>2
  <2> QED
    BY <2>2, <2>3
<1>8. ASSUME NEW q \in Requests, up'[q].pc \in {"session", "rotate"}
      PROVE  up'[q].cmd.val <= clock' /\ (up'[q].pc = "rotate" => up'[q].token.second <= up'[q].cmd.val)
  <2>1. CASE GoesTo(q)
    <3>1. /\ up'[q].cmd.val = clock
          /\ up'[q].pc = "rotate" => up[q].pc = "user" /\ up'[q].token = up[q].token
      <4>1. CASE up'[q].pc = "session"
        <5>1. \E s \in Sessions \ Used : up'[q].cmd = Command("set", {SessionKey(s)}, clock)
          BY <2>1, <4>1 DEF GoesTo
        <5> QED
          BY <4>1, <5>1 DEF Command
      <4>2. CASE up'[q].pc = "rotate"
        <5>1. /\ up[q].pc = "user" /\ SameRequest(q)
              /\ up'[q].cmd = Command("set", {SessionKey(up[q].token.session)}, clock)
          BY <2>1, <4>2 DEF GoesTo
        <5> QED
          BY <5>1 DEF Command, SameRequest
      <4> QED
        BY <1>8, <4>1, <4>2
    <3>2. up'[q].pc = "rotate" => up[q].token.second <= clock
      BY <3>1 DEF ClockInv, Refreshing
    <3> QED
      BY <1>1, <1>2, <3>1, <3>2
  <2>2. CASE ~GoesTo(q)
    <3>1. up'[q].pc = up[q].pc /\ up'[q].cmd = up[q].cmd /\ up'[q].token = up[q].token
      BY <1>1, <1>8, <2>2 DEF Moves, Comes, Stays, SameRequest
    <3>2. /\ up[q].cmd.val \in Nat /\ up[q].cmd.val <= clock
          /\ up[q].pc = "rotate" => up[q].token.second <= up[q].cmd.val
      BY <1>8, <3>1, SessionOf DEF ClockInv
    <3> QED
      BY <1>1, <1>2, <3>1, <3>2
  <2> QED
    BY <2>1, <2>2
<1> QED
  BY <1>4, <1>5, <1>6, <1>7, <1>8 DEF ClockInv

\* A refresh whose token Redis has vouched for.
Accepted(x) ==
  \/ x.pc = "read" /\ x.at = "memory" /\ x.ans = x.token.second
  \/ x.pc = "user" /\ x.from = "redis"

\* What holds of a session as long as one refresh at a time has it in hand: the
\* tokens exchanged for another are neither the one stored nor the one at hand,
\* and the one to be stored is later than all of them.
Alone(s) ==
  /\ \A q, r \in Requests : Refreshes(up[q], s) /\ Refreshes(up[r], s) => q = r
  /\ \A c \in strays : ~Restores(c, s)
  /\ \A t \in spent : t.session = s =>
       /\ redis[SessionKey(s)].val # t.second
       /\ \A q \in Requests : Refreshes(up[q], s) =>
            /\ Accepted(up[q]) => up[q].token # t
            /\ up[q].pc = "rotate" => t.second < up[q].cmd.val

SpentInv == \A s \in Sessions \ raced : Alone(s)

\* The tokens that were exchanged, before and after a call to Redis.
LEMMA SpentTyped ==
  ASSUME Basics, NEW r \in Requests, AskRedis(r), NEW t \in spent'
  PROVE  t.second \in Nat
<1>1. Silent(r) \/ Heard(r)
  BY AskIs
<1>2. t \in spent \/ (up[r].pc = "rotate" /\ t = up[r].token)
  BY <1>1 DEF Silent, Heard, Noted
<1>3. t \in Tokens
  BY <1>2, GhostTypes, SessionOf DEF Refreshing
<1> QED
  BY <1>3 DEF Tokens

\* The token a call to Redis exchanges, if any, is the one of a rotation at hand.
LEMMA SpentBy ==
  ASSUME Basics, NEW r \in Requests, AskRedis(r), NEW t \in spent', t \notin spent
  PROVE  /\ up[r].pc = "rotate" /\ t = up[r].token /\ t.session \in Sessions
         /\ Refreshes(up[r], t.session) /\ up[r].cmd.val # t.second
         /\ Restores(up[r].cmd, t.session)
         /\ Heard(r)
<1>1. Silent(r) \/ Heard(r)
  BY AskIs
<1>2. Heard(r) /\ up[r].pc = "rotate" /\ up[r].cmd.val # up[r].token.second /\ t = up[r].token
  BY <1>1 DEF Silent, Heard, Noted
<1>3. up[r].pc # "idle" /\ up[r].at # "query"
  BY AskIs
<1>4. /\ up[r].cmd.op = "set" /\ Key(r) = SessionKey(t.session) /\ t.session \in Sessions
      /\ up[r].cmd.keys = {Key(r)}
  BY <1>2, <1>3, CallKinds, CallIs DEF Refreshing
<1> QED
  BY <1>2, <1>4 DEF Refreshes, Refreshing, Restores

\* A call to Redis keeps SpentInv.
LEMMA AskSpent ==
  ASSUME Basics, SignInv, ClockInv, SpentInv, NEW r \in Requests, AskRedis(r)
  PROVE  SpentInv'
<1>1. /\ Others(r) /\ SameRequest(r) /\ up[r].pc # "idle" /\ up[r].at = "redis"
      /\ up[r].at # "query" /\ up'[r].pc = up[r].pc /\ up'[r].cmd = up[r].cmd
      /\ raced \subseteq raced'
      /\ Silent(r) \/ Heard(r)
  BY AskIs
<1> SUFFICES ASSUME NEW s \in Sessions, s \notin raced' PROVE Alone(s)'
  BY DEF SpentInv
<1>2. Alone(s)
  BY <1>1 DEF SpentInv
<1>3. \A q \in Requests : Refreshes(up'[q], s) => Refreshes(up[q], s)
  BY <1>1 DEF Others, SameRequest, Refreshes
<1>4. Restores(up[r].cmd, s) => SigningIn(up[r], s) \/ (up[r].pc = "rotate" /\ Refreshes(up[r], s))
  BY <1>1, RestoredBy
<1>5. \A c \in strays' : ~Restores(c, s)
  <2>1. CASE Silent(r)
    <3>1. CASE ~Restores(up[r].cmd, s)
      BY <1>2, <2>1, <3>1 DEF Silent, Alone
    <3>2. CASE Restores(up[r].cmd, s)
      <4>1. Key(r) = SessionKey(s) /\ up[r].pc \in {"session", "rotate"}
        BY <1>4, <3>2, OneKey DEF Restores, SigningIn
      <4>2. Key(r)[2] = s
        BY <4>1, KeysDiffer
      <4>3. strays' = strays
        BY <2>1, <4>1, <4>2 DEF Silent
      <4> QED
        BY <1>2, <4>3 DEF Alone
    <3> QED
      BY <3>1, <3>2
  <2>2. CASE Heard(r)
    BY <1>2, <2>2 DEF Heard, Executed, Alone
  <2> QED
    BY <1>1, <2>1, <2>2
<1>6. ASSUME NEW t \in spent', t.session = s PROVE redis'[SessionKey(s)].val # t.second
  <2>1. t.second \in Nat /\ t.second # Null /\ Missing.val = Null
    BY <1>6, SpentTyped, SessionsAssumption DEF Missing
  <2>2. CASE t \in spent
    <3>1. redis[SessionKey(s)].val # t.second
      BY <1>2, <1>6, <2>2 DEF Alone
    <3>2. CASE Silent(r) \/ ~Restores(up[r].cmd, s)
      BY <1>1, <2>1, <3>1, <3>2, SessionAfter DEF Silent, Heard
    <3>3. CASE Heard(r) /\ Restores(up[r].cmd, s)
      <4>1. ~SigningIn(up[r], s)
        BY <1>6, <2>2 DEF SignInv, Public
      <4>2. up[r].pc = "rotate" /\ Refreshes(up[r], s)
        BY <1>4, <3>3, <4>1
      <4>3. t.second < up[r].cmd.val
        BY <1>2, <1>6, <2>2, <4>2 DEF Alone
      <4>4. redis'[SessionKey(s)].val = up[r].cmd.val /\ up[r].cmd.val \in Nat
        BY <1>1, <3>3, <4>2, SessionAfter, SessionOf DEF Heard
      <4> QED
        BY <2>1, <4>3, <4>4
    <3> QED
      BY <1>1, <3>2, <3>3
  <2>3. CASE t \notin spent
    <3>1. Restores(up[r].cmd, s) /\ up[r].cmd.val # t.second /\ Heard(r)
      BY <1>6, <2>3, SpentBy
    <3>2. redis'[SessionKey(s)].val = up[r].cmd.val
      BY <1>1, <3>1, SessionAfter DEF Heard
    <3> QED
      BY <3>1, <3>2
  <2> QED
    BY <2>2, <2>3
<1>7. ASSUME NEW t \in spent', t.session = s, NEW q \in Requests, Refreshes(up'[q], s)
      PROVE  /\ Accepted(up'[q]) => up'[q].token # t
             /\ up'[q].pc = "rotate" => t.second < up'[q].cmd.val
  <2>1. Refreshes(up[q], s)
    BY <1>3, <1>7
  <2>2. CASE t \notin spent
    <3>1. /\ up[r].pc = "rotate" /\ t = up[r].token /\ Refreshes(up[r], s)
          /\ up[r].cmd.val # t.second
      BY <1>7, <2>2, SpentBy
    <3>2. q = r
      BY <1>2, <2>1, <3>1 DEF Alone
    <3>3. t.second <= up[r].cmd.val
      BY <3>1 DEF ClockInv
    <3>4. t.second \in Nat /\ up[r].cmd.val \in Nat
      BY <1>7, <3>1, SpentTyped, SessionOf
    <3>5. t.second < up[r].cmd.val
      BY <3>1, <3>3, <3>4
    <3> QED
      BY <1>1, <3>1, <3>2, <3>5 DEF Accepted
  <2>3. CASE t \in spent /\ q # r
    BY <1>1, <1>2, <1>7, <2>1, <2>3 DEF Others, Alone
  <2>4. CASE t \in spent /\ q = r
    <3>1. up'[q].pc = "rotate" => t.second < up'[q].cmd.val
      BY <1>1, <1>2, <1>7, <2>1, <2>4 DEF Alone
    <3>2. ASSUME Accepted(up'[q]), up'[q].token = t PROVE FALSE
      <4>1. up[r].pc \in {"read", "user"}
        BY <1>1, <2>4, <3>2 DEF Accepted
      <4>2. up[r].pc = "read"
        BY <1>1, <4>1, CallKinds
      <4>3. Key(r) = SessionKey(s) /\ up[r].cmd.op = "get"
        BY <1>1, <2>1, <2>4, <4>2, CallKinds DEF Refreshes
      <4>4. up'[r].ans = t.second
        BY <1>1, <2>4, <3>2, <4>2 DEF Accepted
      <4>5. redis[SessionKey(s)].val # t.second
        BY <1>2, <1>7, <2>4 DEF Alone
      <4>6. t.second # Null
        BY <1>7, SpentTyped, SessionsAssumption
      <4>7. Heard(r)
        BY <1>1, <4>4, <4>6 DEF Silent
      <4>8. redis'[SessionKey(s)] = redis[SessionKey(s)]
        BY <1>1, <4>3, <4>7, SessionAfter DEF Heard
      <4> QED
        BY <4>3, <4>4, <4>5, <4>7, <4>8 DEF Heard
    <3> QED
      BY <3>1, <3>2
  <2> QED
    BY <2>2, <2>3, <2>4
<1>8. \A p, q \in Requests : Refreshes(up'[p], s) /\ Refreshes(up'[q], s) => p = q
  BY <1>2, <1>3 DEF Alone
<1> QED
  BY <1>5, <1>6, <1>7, <1>8 DEF Alone, Refreshes, Accepted, SessionKey

\* Every other step keeps SpentInv.
LEMMA RestSpent ==
  ASSUME Basics, ClockInv, SpentInv, Rest
  PROVE  SpentInv'
<1>1. /\ spent' = spent /\ raced \subseteq raced'
      /\ \A c \in strays' \ strays : c.op = "expire"
      /\ \A s \in Sessions : Left(s)
      /\ \A q \in Requests : Moves(q)
  BY DEF Rest
<1> SUFFICES ASSUME NEW s \in Sessions, s \notin raced' PROVE Alone(s)'
  BY DEF SpentInv
<1>2. Alone(s)
  BY <1>1 DEF SpentInv
\* Whoever has the session in hand had it before, or came when nobody had it.
<1>3. ASSUME NEW q \in Requests, Refreshes(up'[q], s)
      PROVE  Refreshes(up[q], s) \/ (Comes(q) /\ up'[q].pc = "read" /\ With(s) = {})
  <2>1. up'[q].pc \in {"read", "user", "drop", "rotate"} /\ up'[q].token.session = s
    BY <1>3 DEF Refreshes, Refreshing
  <2>2. CASE Comes(q)
    <3>1. up'[q].pc = "read"
      BY <2>1, <2>2 DEF Comes
    <3>2. With(s) = {}
      BY <2>1, <2>2, <3>1 DEF Comes
    <3> QED
      BY <2>2, <3>1, <3>2
  <2>3. CASE ~Comes(q)
    BY <1>1, <2>1, <2>3 DEF Moves, GoesTo, Stays, SameRequest, Refreshes, Refreshing
  <2> QED
    BY <2>2, <2>3
<1>4. ASSUME NEW p \in Requests, NEW q \in Requests, Refreshes(up'[p], s), Refreshes(up'[q], s)
      PROVE  p = q
  <2>1. \A x \in Requests : With(s) = {} => ~Refreshes(up[x], s)
    BY DEF With, Refreshes
  <2>2. CASE Refreshes(up[p], s) /\ Refreshes(up[q], s)
    BY <1>2, <2>2 DEF Alone
  <2>3. ASSUME NEW x \in Requests, NEW y \in Requests, x # y, Comes(x), With(s) = {},
               Refreshes(up'[y], s)
        PROVE  FALSE
    BY <2>1, <2>3 DEF Comes, Others
  <2> QED
    BY <1>3, <1>4, <2>2, <2>3
<1>5. \A c \in strays' : ~Restores(c, s)
  BY <1>1, <1>2 DEF Alone, Restores
<1>6. ASSUME NEW t \in spent, t.session = s
      PROVE  redis'[SessionKey(s)].val # t.second
  <2>1. t.second # Null /\ Missing.val = Null
    BY GhostTypes, SessionsAssumption DEF Missing, Tokens
  <2>2. redis'[SessionKey(s)] = redis[SessionKey(s)] \/ redis'[SessionKey(s)] = Missing
    BY <1>1, <1>2 DEF Left, Alone, Restores
  <2> QED
    BY <1>2, <1>6, <2>1, <2>2 DEF Alone
<1>7. ASSUME NEW t \in spent, t.session = s, NEW q \in Requests, Refreshes(up'[q], s)
      PROVE  /\ Accepted(up'[q]) => up'[q].token # t
             /\ up'[q].pc = "rotate" => t.second < up'[q].cmd.val
  <2>1. CASE Comes(q)
    <3>1. up'[q].pc = "read" /\ up'[q].at = "redis"
      BY <1>7, <2>1 DEF Comes, Refreshes, Refreshing
    <3> QED
      BY <3>1 DEF Accepted
  <2>2. CASE ~Comes(q)
    <3>1. /\ Refreshes(up[q], s)
          /\ Accepted(up[q]) => up[q].token # t
          /\ up[q].pc = "rotate" => t.second < up[q].cmd.val
      BY <1>2, <1>3, <1>7, <2>2 DEF Alone
    <3>2. CASE GoesTo(q)
      <4>1. SameRequest(q) /\ up'[q].pc \in {"user", "drop", "rotate"}
        BY <1>7, <3>2 DEF GoesTo, Refreshes, Refreshing
      <4>2. CASE up'[q].pc = "user"
        <5>1. /\ up[q].pc = "read" /\ up[q].at = "memory"
              /\ up'[q].from = "redis" => up[q].ans = up[q].token.second
          BY <3>2, <4>2 DEF GoesTo
        <5> QED
          BY <3>1, <4>1, <4>2, <5>1 DEF Accepted, SameRequest
      <4>3. CASE up'[q].pc = "rotate"
        <5>1. up'[q].cmd.val = clock
          BY <3>1, <3>2, <4>3 DEF GoesTo, Command, Refreshes, Refreshing
        <5> QED
          BY <4>3, <5>1 DEF ClockInv, Accepted
      <4> QED
        BY <4>1, <4>2, <4>3 DEF Accepted
    <3>3. CASE Stays(q)
      <4>1. SameRequest(q) /\ up'[q].pc = up[q].pc /\ up'[q].cmd = up[q].cmd
        BY <3>3 DEF Stays
      <4>2. up[q].pc \notin {"user"} /\ up[q].at # "expire"
        BY <3>1, <3>3, CallKinds DEF Stays, Basics, Proper, Refreshes, Refreshing
      <4>3. up'[q].at = up[q].at /\ up'[q].ans = up[q].ans
        BY <3>3, <4>2 DEF Stays
      <4> QED
        BY <3>1, <4>1, <4>2, <4>3 DEF Accepted, SameRequest
    <3>4. CASE up'[q] = up[q]
      BY <3>1, <3>4
    <3> QED
      BY <1>1, <1>7, <2>2, <3>2, <3>3, <3>4 DEF Moves, Refreshes, Refreshing
  <2> QED
    BY <2>1, <2>2
<1> QED
  BY <1>1, <1>4, <1>5, <1>6, <1>7 DEF Alone, Refreshes, Accepted, SessionKey

\* A refresh token that was exchanged for another is not accepted again on the word
\* of Redis, however late its commands are executed, however often the clients come
\* back with it and however many sign-ins run, unless two refreshes of its session
\* ran together or a command that stores the session was given up: the next token
\* is of a later second than every one before it.
THEOREM TokenSpentHolds == Spec => []TokenSpentOnce
<1> DEFINE Inv == Basics /\ SignInv /\ ClockInv /\ SpentInv
<1>1. Init => Inv
  <2> SUFFICES ASSUME Init PROVE ClockInv /\ SpentInv
    BY InitBasics, InitSign
  <2>1. /\ clock = 0 /\ spent = {} /\ strays = {} /\ \A r \in Requests : up[r].pc = "idle"
        /\ \A t \in issued : t.second = 0
    BY DEF Init, RedisInit, Idle, Token
  <2> QED
    BY <2>1 DEF ClockInv, SpentInv, Alone, Refreshes, Refreshing
<1>2. Inv /\ [Next]_vars => Inv'
  <2> SUFFICES ASSUME Inv, [Next]_vars PROVE Inv'
    OBVIOUS
  <2>1. Basics' /\ clock' \in Nat
    BY StepKeepsBasics DEF Basics, SessionsTypeOK
  <2> QED
    BY <2>1, AskOrRest, AskSign, RestSign, AskClock, RestClock, AskSpent, RestSpent
<1>3. Inv => TokenSpentOnce
  <2> SUFFICES ASSUME Inv, NEW r \in Requests, up[r].pc = "user", up[r].from = "redis",
                      up[r].token \in spent, up[r].token.session \notin raced
               PROVE  FALSE
    BY DEF TokenSpentOnce
  <2>1. up[r].token.session \in Sessions
    BY SessionOf DEF Refreshing
  <2>2. Refreshes(up[r], up[r].token.session) /\ Accepted(up[r])
    BY DEF Refreshes, Refreshing, Accepted
  <2> QED
    BY <2>1, <2>2 DEF SpentInv, Alone
<1> QED
  BY <1>1, <1>2, <1>3, PTL DEF Spec

=============================================================================

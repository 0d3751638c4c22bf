----------------------------- MODULE LoginSessions -----------------------------
(***************************************************************************)
(* Logins, refresh sessions and rate limits over the ephemeral store,      *)
(* which keeps every value in Redis and in a map of the process that wrote *)
(* it.  A store call asks Redis, then, once the answer is back, its own    *)
(* map; between the two any other request may run.                         *)
(*                                                                         *)
(* A refresh token is the session it belongs to and the second it was      *)
(* signed in: the same claims signed twice in a second are one token.      *)
(***************************************************************************)
EXTENDS RedisCache, Sequences

CONSTANTS
  Users,      \* accounts, by their e-mail and phone
  Ips,        \* addresses requests come from
  Routes,     \* what is limited: "login", "sms", "recovery"
  Sessions,   \* refresh session ids
  Requests,   \* slots for requests being served at the same time
  Limit,      \* requests a counter admits in its window
  Threshold,  \* AUTH_LOGIN_FAILURE_BLOCK_THRESHOLD
  MaxClock    \* bound on the seconds

ASSUME SessionsAssumption ==
  /\ "login" \in Routes
  /\ {Limit, Threshold} \subseteq Nat \ {0}
  /\ MaxClock \in Nat
  /\ Null \notin Users \union Nat
  /\ IsFiniteSet(Requests)

VARIABLES
  memory,    \* per process, the map of the store
  clock,     \* the second
  inactive,  \* accounts that were deleted
  owner,     \* the user of each session id handed out
  issued,    \* refresh tokens handed out so far
  up,        \* the request in each slot
  admitted,  \* ghost: requests each counter has let pass since it was created
  lapsed,    \* ghost: blocks that expired or were cleared since they were set
  spent,     \* ghost: tokens that were exchanged for another one
  raced,     \* ghost: sessions that two refreshes had in hand at once, or written late
  revoked,   \* ghost: sessions closed by a logout that no refresh overlapped
  recalled   \* ghost: sessions a process revived from its memory

ghosts == <<admitted, lapsed, spent, raced, revoked, recalled>>
vars == <<redisVars, memory, clock, inactive, owner, issued, up, ghosts>>

IpKey(route, i) == <<"ip", route, i>>
TargetKey(route, u) == <<"target", route, u>>
FailKey(u, i) == <<"fail", u, i>>
BlockKey(u, i) == <<"block", u, i>>
SessionKey(s) == <<"session", s>>

LimitKeys == {IpKey(route, i) : route \in Routes, i \in Ips} \union
             {TargetKey(route, u) : route \in Routes, u \in Users}
Blocks == {BlockKey(u, i) : u \in Users, i \in Ips}
Counters == LimitKeys \union {FailKey(u, i) : u \in Users, i \in Ips}
Keys == Counters \union Blocks \union {SessionKey(s) : s \in Sessions}

Empty == [k \in Keys |-> Null]
Token(s, t) == [session |-> s, second |-> t]

Idle == [pc |-> "idle"]

\* Nobody has logged in yet, or one user has, at some process.
Init ==
  /\ clock = 0
  /\ inactive = {}
  /\ up = [r \in Requests |-> Idle]
  /\ admitted = [k \in LimitKeys |-> 0]
  /\ lapsed = {} /\ spent = {} /\ raced = {} /\ revoked = {} /\ recalled = {}
  /\ \/ /\ RedisInit([k \in Keys |-> Missing])
        /\ memory = [p \in Procs |-> Empty]
        /\ owner = [s \in Sessions |-> Null]
        /\ issued = {}
     \/ \E u \in Users, s \in Sessions, p \in Procs :
          LET k == SessionKey(s)
          IN  /\ RedisInit([j \in Keys |-> IF j = k THEN [val |-> 0, ttl |-> TRUE]
                                           ELSE Missing])
              /\ memory = [q \in Procs |-> IF q = p THEN [Empty EXCEPT ![k] = 0] ELSE Empty]
              /\ owner = [x \in Sessions |-> IF x = s THEN u ELSE Null]
              /\ issued = {Token(s, 0)}

-----------------------------------------------------------------------------
(* get, set, delete and increment, once Redis has answered or has not.      *)

Key(r) == CHOOSE k \in up[r].cmd.keys : TRUE
Local(r) == memory[up[r].proc][Key(r)]

\* The result of the call: what Redis says, or else what the map says.
Answer(r) ==
  LET c == up[r].cmd
  IN  CASE c.op = "set" -> c.val
        [] c.op = "del" -> Null
        [] c.op \in {"get", "incr"} /\ up[r].ans # Null -> up[r].ans
        [] c.op = "get" /\ up[r].ans = Null -> Local(r)
        [] c.op = "incr" /\ up[r].ans = Null -> IF Local(r) = Null THEN 1 ELSE Local(r) + 1

\* A get leaves the map alone, any other call stores its result there.
Remember(r) ==
  memory' = IF up[r].cmd.op = "get" THEN memory
            ELSE [memory EXCEPT ![up[r].proc][Key(r)] = Answer(r)]

-----------------------------------------------------------------------------
(* A call of the store: Redis first.                                       *)

Refreshing == {"read", "user", "drop", "rotate"}
With(s) == {r \in Requests : up[r].pc \in Refreshing /\ up[r].token.session = s}

\* What the ghosts see of a command of request r that Redis executes.
Noted(r) ==
  /\ lapsed' = CASE up[r].pc = "block"   -> lapsed \ up[r].cmd.keys
                 [] up[r].pc = "unblock" -> lapsed \union up[r].cmd.keys
                 [] OTHER -> lapsed
  /\ spent' = IF up[r].pc = "rotate" /\ up[r].cmd.val # up[r].token.second
              THEN spent \union {up[r].token} ELSE spent
  /\ revoked' = IF up[r].pc = "logout" /\ With(up[r].token.session) = {}
                   /\ ~\E c \in strays : c.op = "set" /\ c.keys = up[r].cmd.keys
                THEN revoked \union {up[r].token.session} ELSE revoked

\* The client is the one getClient gave: a call that goes on keeps it.
AskRedis(r) ==
  LET c == up[r].cmd
      p == up[r].proc
      Came(at, ans, held) ==
        up' = [up EXCEPT ![r] = [@ EXCEPT !.at = at, !.ans = ans, !.held = held,
                                          !.window = c.op = "incr" /\ ans # Null]]
  IN  /\ up[r].pc # "idle" /\ up[r].at = "redis"
      /\ \/ /\ ~up[r].held
            /\ Skipped(p) /\ Came("memory", Null, FALSE)
            /\ UNCHANGED <<lapsed, spent, revoked, raced>>
         \/ /\ up[r].held \/ p \notin offline
            /\ Executed(c) /\ Noted(r) /\ UNCHANGED raced
            /\ LET v == redis'[Key(r)].val
               IN  Came(IF c.op = "incr" /\ v = 1 THEN "expire" ELSE "memory", v, TRUE)
         \/ /\ up[r].held \/ p \notin offline
            /\ Failed(p, c) /\ Came("memory", Null, TRUE)
            /\ raced' = IF up[r].pc \in {"session", "rotate"} THEN raced \union {Key(r)[2]} ELSE raced
            /\ UNCHANGED <<lapsed, spent, revoked>>
      /\ UNCHANGED <<memory, clock, inactive, owner, issued, admitted, recalled>>

\* A slip: the expiry is set by whoever comes second.
AskExpiry_Late(r) ==
  /\ up[r].pc # "idle" /\ up[r].at = "expire"
  /\ up' = [up EXCEPT ![r].at = "memory"]
  /\ UNCHANGED <<redisVars, memory, clock, inactive, owner, issued, ghosts>>

\* The first INCR of a key gives it its expiry, in a call of its own.
AskExpiry(r) ==
  LET c == Command("expire", up[r].cmd.keys, Null)
  IN  /\ up[r].pc # "idle" /\ up[r].at = "expire"
      /\ \/ Executed(c) /\ up' = [up EXCEPT ![r].at = "memory"]
         \/ /\ Failed(up[r].proc, c)
            /\ up' = [up EXCEPT ![r] = [@ EXCEPT !.at = "memory", !.ans = Null,
                                                  !.window = FALSE]]
      /\ UNCHANGED <<memory, clock, inactive, owner, issued, ghosts>>

-----------------------------------------------------------------------------
(* Then the map, and the handler goes on with the result.                  *)

Done(r) == up' = [up EXCEPT ![r] = Idle]

\* The next call of the store, or a query (which asks Redis for nothing).
Goto(r, pc, op, k, v) ==
  up' = [up EXCEPT ![r] = [@ EXCEPT !.pc = pc, !.at = "redis", !.ans = Null,
                                    !.held = FALSE, !.cmd = Command(op, {k}, v)]]
Query(r, pc, from) ==
  up' = [up EXCEPT ![r] = [@ EXCEPT !.pc = pc, !.at = "query", !.ans = Null, !.held = FALSE,
                                    !.window = FALSE, !.cmd = Null, !.from = from]]

Finish(r, pc) ==
  /\ up[r].pc = pc /\ up[r].at = "memory"
  /\ Remember(r)

-----------------------------------------------------------------------------
(* consumeLimit, in front of a login or of an SMS                          *)

\* A request of a user as it comes, with its first call.
Fresh(p, u, i, route, token, pc, op, k) ==
  [pc |-> pc, proc |-> p, user |-> u, ip |-> i, route |-> route,
   token |-> token, at |-> "redis", cmd |-> Command(op, {k}, Null), held |-> FALSE,
   ans |-> Null, window |-> FALSE, from |-> Null, late |-> u \in inactive]

Enter(r, request) ==
  /\ up[r] = Idle
  /\ up' = [up EXCEPT ![r] = request]

\* A login looks for a block first, other routes begin with their counters.
Submit(r, p, u, i, route) ==
  /\ IF route = "login"
     THEN Enter(r, Fresh(p, u, i, route, Null, "blocked", "get", BlockKey(u, i)))
     ELSE Enter(r, Fresh(p, u, i, route, Null, "ip", "incr", IpKey(route, i)))
  /\ UNCHANGED <<redisVars, memory, clock, inactive, owner, issued, ghosts>>

assertLoginAllowed(r) ==
  /\ Finish(r, "blocked")
  /\ IF Answer(r) # Null THEN Done(r)
     ELSE Goto(r, "ip", "incr", IpKey("login", up[r].ip), Null)
  /\ UNCHANGED <<redisVars, clock, inactive, owner, issued, ghosts>>

\* A slip: the limit itself is refused only afterwards.
Passes_OneMore(next) == next <= Limit + 1
Passes(next) == next <= Limit

Admit(r) ==
  admitted' = IF Passes(Answer(r)) /\ up[r].window
              THEN [admitted EXCEPT ![Key(r)] = @ + 1] ELSE admitted

LimitByIp(r) ==
  /\ Finish(r, "ip")
  /\ Admit(r)
  /\ IF Passes(Answer(r))
     THEN Goto(r, "target", "incr", TargetKey(up[r].route, up[r].user), Null)
     ELSE Done(r)
  /\ UNCHANGED <<redisVars, clock, inactive, owner, issued,
                 lapsed, spent, raced, revoked, recalled>>

LimitByTarget(r) ==
  /\ Finish(r, "target")
  /\ Admit(r)
  /\ IF Passes(Answer(r)) /\ up[r].route = "login" THEN Query(r, "find", Null) ELSE Done(r)
  /\ UNCHANGED <<redisVars, clock, inactive, owner, issued,
                 lapsed, spent, raced, revoked, recalled>>

-----------------------------------------------------------------------------
(* login                                                                   *)

\* The account is looked up and the password compared.
ComparePassword(r, right) ==
  LET u == up[r].user
      i == up[r].ip
  IN  /\ up[r].pc = "find"
      /\ IF right /\ u \notin inactive
         THEN Goto(r, "clear", "del", FailKey(u, i), Null)
         ELSE Goto(r, "count", "incr", FailKey(u, i), Null)
      /\ UNCHANGED <<redisVars, memory, clock, inactive, owner, issued, ghosts>>

\* A slip: the block comes one failure late.
registerFailedLogin_Late(r) ==
  /\ Finish(r, "count")
  /\ IF Answer(r) > Threshold
     THEN Goto(r, "block", "set", BlockKey(up[r].user, up[r].ip), 1)
     ELSE Done(r)
  /\ UNCHANGED <<redisVars, clock, inactive, owner, issued, ghosts>>

registerFailedLogin(r) ==
  /\ Finish(r, "count")
  /\ IF Answer(r) >= Threshold
     THEN Goto(r, "block", "set", BlockKey(up[r].user, up[r].ip), 1)
     ELSE Done(r)
  /\ UNCHANGED <<redisVars, clock, inactive, owner, issued, ghosts>>

\* clearLoginFailures sends its two commands together, in this order.
clearLoginFailures(r) ==
  /\ Finish(r, "clear")
  /\ up' = [up EXCEPT ![r] = [@ EXCEPT !.pc = "unblock", !.at = "redis",
              !.cmd = Command("del", {BlockKey(up[r].user, up[r].ip)}, Null)]]
  /\ UNCHANGED <<redisVars, clock, inactive, owner, issued, ghosts>>

Used == {s \in Sessions : owner[s] # Null}

\* generateTokens for a new session.
SignIn(r, s) ==
  /\ Finish(r, "unblock")
  /\ s \notin Used
  /\ owner' = [owner EXCEPT ![s] = up[r].user]
  /\ Goto(r, "session", "set", SessionKey(s), clock)
  /\ UNCHANGED <<redisVars, clock, inactive, issued, ghosts>>

\* The last call of a request: the client gets its answer, tokens included.
Respond(r) ==
  /\ up[r].pc \in {"block", "session", "rotate", "drop", "logout"}
  /\ Finish(r, up[r].pc)
  /\ issued' = IF up[r].pc \in {"session", "rotate"}
               THEN issued \union {Token(Key(r)[2], up[r].cmd.val)} ELSE issued
  /\ Done(r)
  /\ UNCHANGED <<redisVars, clock, inactive, owner, ghosts>>

-----------------------------------------------------------------------------
(* refreshToken, logout and deleteMyAccount                                *)

Refresh(r, p, t) ==
  LET s == t.session
  IN  /\ t \in issued
      /\ Enter(r, Fresh(p, owner[s], Null, Null, t, "read", "get", SessionKey(s)))
      /\ raced' = IF With(s) = {} THEN raced ELSE raced \union {s}
      /\ UNCHANGED <<redisVars, memory, clock, inactive, owner, issued,
                     admitted, lapsed, spent, revoked, recalled>>

\* A slip: any token of a living session will do.
CheckToken_AnyToken(r) ==
  /\ Finish(r, "read")
  /\ IF Answer(r) # Null
     THEN Query(r, "user", IF up[r].ans = Null THEN "memory" ELSE "redis")
     ELSE Done(r)
  /\ recalled' = IF Answer(r) # Null /\ up[r].ans = Null
                 THEN recalled \union {up[r].token.session} ELSE recalled
  /\ UNCHANGED <<redisVars, clock, inactive, owner, issued,
                 admitted, lapsed, spent, raced, revoked>>

\* The stored hash is that of the token presented.
CheckToken(r) ==
  /\ Finish(r, "read")
  /\ IF Answer(r) = up[r].token.second
     THEN Query(r, "user", IF up[r].ans = Null THEN "memory" ELSE "redis")
     ELSE Done(r)
  /\ recalled' = IF Answer(r) = up[r].token.second /\ up[r].ans = Null
                 THEN recalled \union {up[r].token.session} ELSE recalled
  /\ UNCHANGED <<redisVars, clock, inactive, owner, issued,
                 admitted, lapsed, spent, raced, revoked>>

\* A slip: the session speaks for its user.
Rotate_Trusting(r) ==
  LET s == up[r].token.session
  IN  /\ up[r].pc = "user"
      /\ Goto(r, "rotate", "set", SessionKey(s), clock)
      /\ UNCHANGED <<redisVars, memory, clock, inactive, owner, issued, ghosts>>

\* The user is read again; the new token takes the place of the old one.
Rotate(r) ==
  LET s == up[r].token.session
  IN  /\ up[r].pc = "user"
      /\ IF up[r].user \in inactive
         THEN Goto(r, "drop", "del", SessionKey(s), Null)
         ELSE Goto(r, "rotate", "set", SessionKey(s), clock)
      /\ UNCHANGED <<redisVars, memory, clock, inactive, owner, issued, ghosts>>

\* A slip: the session is only looked up.
Logout_Reads(r, p, s) ==
  /\ \E t \in issued : t.session = s
  /\ owner[s] \notin inactive
  /\ Enter(r, Fresh(p, owner[s], Null, Null, Token(s, clock), "logout", "get", SessionKey(s)))
  /\ UNCHANGED <<redisVars, memory, clock, inactive, owner, issued, ghosts>>

\* The access token names the session; JwtStrategy asks only for the user.
Logout(r, p, s) ==
  /\ \E t \in issued : t.session = s
  /\ owner[s] \notin inactive
  /\ Enter(r, Fresh(p, owner[s], Null, Null, Token(s, clock), "logout", "del", SessionKey(s)))
  /\ UNCHANGED <<redisVars, memory, clock, inactive, owner, issued, ghosts>>

DeleteAccount(u) ==
  /\ u \notin inactive
  /\ inactive' = inactive \union {u}
  /\ UNCHANGED <<redisVars, memory, clock, owner, issued, up, ghosts>>

-----------------------------------------------------------------------------
(* Time, and failures of Redis and of a process.                           *)

\* The window of a counter, or a block, is over at the server.
WindowEnds(k) ==
  /\ Expire(k)
  /\ up' = [r \in Requests |->
              IF up[r].pc # "idle" /\ up[r].at # "query" /\ k \in up[r].cmd.keys
              THEN [up[r] EXCEPT !.window = FALSE] ELSE up[r]]
  /\ admitted' = [j \in LimitKeys |-> IF j = k THEN 0 ELSE admitted[j]]
  /\ lapsed' = IF k \in Blocks THEN lapsed \union {k} ELSE lapsed
  /\ UNCHANGED <<memory, clock, inactive, owner, issued, spent, raced, revoked, recalled>>

\* An entry of the map expires, or gc evicts it when the map is too large
\* (the oldest entries then: here, any).
Forget(p, k) ==
  /\ memory[p][k] # Null
  /\ memory' = [memory EXCEPT ![p][k] = Null]
  /\ UNCHANGED <<redisVars, clock, inactive, owner, issued, up, ghosts>>

\* The newest token of a session expires, and every copy of it.
SessionEnds(s) ==
  /\ Expire(SessionKey(s))
  /\ memory' = [p \in Procs |-> [memory[p] EXCEPT ![SessionKey(s)] = Null]]
  /\ issued' = {t \in issued : t.session # s}
  /\ UNCHANGED <<clock, inactive, owner, up, ghosts>>

Tick ==
  /\ clock < MaxClock
  /\ clock' = clock + 1
  /\ UNCHANGED <<redisVars, memory, inactive, owner, issued, up, ghosts>>

Straggler(c) ==
  /\ StrayArrives(c)
  /\ UNCHANGED <<memory, clock, inactive, owner, issued, up, ghosts>>

BackOn(p) ==
  /\ Reconnect(p)
  /\ UNCHANGED <<memory, clock, inactive, owner, issued, up, ghosts>>

\* A process stops, with its requests and its map, and another starts for it.
Restart(p) ==
  /\ faults < MaxFaults
  /\ faults' = faults + 1
  /\ offline' = offline \ {p}
  /\ memory' = [memory EXCEPT ![p] = Empty]
  /\ up' = [r \in Requests |-> IF up[r].pc # "idle" /\ up[r].proc = p THEN Idle ELSE up[r]]
  /\ UNCHANGED <<redis, strays, clock, inactive, owner, issued, ghosts>>

Next ==
  \/ \E r \in Requests :
       \/ AskRedis(r) \/ AskExpiry(r)
       \/ assertLoginAllowed(r) \/ LimitByIp(r) \/ LimitByTarget(r)
       \/ registerFailedLogin(r) \/ clearLoginFailures(r) \/ Respond(r)
       \/ CheckToken(r) \/ Rotate(r)
       \/ \E right \in BOOLEAN : ComparePassword(r, right)
       \/ \E s \in Sessions : SignIn(r, s)
       \/ \E p \in Procs :
            \/ \E u \in Users, i \in Ips, route \in Routes : Submit(r, p, u, i, route)
            \/ \E t \in issued : Refresh(r, p, t)
            \/ \E s \in Sessions : Logout(r, p, s)
  \/ \E u \in Users : DeleteAccount(u)
  \/ \E k \in Counters \union Blocks : WindowEnds(k)
  \/ \E p \in Procs : \E k \in Keys : Forget(p, k)
  \/ \E s \in Sessions : SessionEnds(s)
  \/ \E c \in strays : Straggler(c)
  \/ \E p \in Procs : BackOn(p) \/ Restart(p)
  \/ Tick

Spec == Init /\ [][Next]_vars

-----------------------------------------------------------------------------
(* Properties.                                                             *)

Tokens == [session : Sessions, second : Nat]
Call == [op : {"get", "set", "del", "incr", "expire"}, keys : {{k} : k \in Keys},
         val : Nat \union {Null}]
Serving ==
  [pc : {"blocked", "ip", "target", "find", "count", "block", "clear", "unblock", "session",
         "logout"} \union Refreshing,
   proc : Procs, user : Users, ip : Ips \union {Null}, route : Routes \union {Null},
   token : Tokens \union {Null}, at : {"redis", "expire", "memory", "query"},
   cmd : Call \union {Null}, held : BOOLEAN, ans : Nat \union {Null}, window : BOOLEAN,
   from : {Null, "redis", "memory"}, late : BOOLEAN]

SessionsTypeOK ==
  /\ redis \in [Keys -> [val : Nat \union {Null}, ttl : BOOLEAN]]
  /\ offline \subseteq Procs /\ strays \subseteq Call /\ faults \in Nat
  /\ memory \in [Procs -> [Keys -> Nat \union {Null}]]
  /\ clock \in Nat /\ inactive \subseteq Users
  /\ owner \in [Sessions -> Users \union {Null}]
  /\ issued \subseteq Tokens
  /\ up \in [Requests -> Serving \union {Idle}]
  /\ admitted \in [LimitKeys -> Nat]
  /\ lapsed \subseteq Blocks /\ spent \subseteq Tokens
  /\ raced \subseteq Sessions /\ revoked \subseteq Sessions /\ recalled \subseteq Sessions

\* The requests that Redis answers pass a counter no more often in its window
\* than its limit, wherever and however concurrently they are served.
AdmittedWithinLimit == \A k \in LimitKeys : admitted[k] <= Limit

\* Unless Redis or a process has failed, a counter is about to get its expiry or
\* has it: only a failure between INCR and EXPIRE leaves one that counts for ever.
CounterExpires ==
  faults = 0 => \A k \in Counters :
    redis[k].val # Null /\ ~redis[k].ttl =>
      \E r \in Requests : up[r].pc # "idle" /\ up[r].at = "expire" /\ k \in up[r].cmd.keys

\* Once the threshold is counted the account is blocked for the address, or
\* about to be, until the block ends or a right password clears it.
BlockStands ==
  faults = 0 => \A u \in Users, i \in Ips :
    LET k == BlockKey(u, i)
    IN  redis[FailKey(u, i)].val \in Nat /\ redis[FailKey(u, i)].val >= Threshold =>
          \/ redis[k] # Missing
          \/ k \in lapsed
          \/ \E r \in Requests : up[r].pc \in {"count", "block"}
                                   /\ up[r].user = u /\ up[r].ip = i

\* A session that was logged out, with no refresh of it under way and no late
\* command of one, stays deleted unless a process revives it from its memory.
LogoutRevokes ==
  \A s \in revoked \ recalled : redis[SessionKey(s)] = Missing

\* A refresh token that was exchanged is not accepted again on the word of
\* Redis, unless two refreshes of its session ran together or a command that
\* stores the session was given up and may come late.
TokenSpentOnce ==
  \A r \in Requests :
    up[r].pc = "user" /\ up[r].from = "redis" /\ up[r].token \in spent
      => up[r].token.session \in raced

\* A request that began after the deletion of its account gets no session.
DeletedGetsNothing ==
  \A r \in Requests : up[r].pc \in {"session", "rotate"} => ~up[r].late

\* An ended session gives nothing, whether a logout ended it or the deletion of
\* its account.
EndedGivesNothing == LogoutRevokes /\ DeletedGetsNothing

\* What the comment on the map of the store promises.
MemoryOnlyWhenDown == faults = 0 => recalled = {}

=============================================================================

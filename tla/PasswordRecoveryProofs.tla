------------------------ MODULE PasswordRecoveryProofs ------------------------
(***************************************************************************)
(* Proofs about PasswordRecovery, for any number of sessions and of        *)
(* requests in flight and any limit on tries.                              *)
(***************************************************************************)
EXTENDS PasswordRecovery, FiniteSetTheorems, TLAPS

-----------------------------------------------------------------------------
(* Requests.                                                               *)

\* A request that is at a step of a session's handler names that session.
LEMMA OnSessionIsTyped ==
  ASSUME RecoveryTypeOK, NEW r \in Requests, up[r].pc \in OnSession
  PROVE  /\ up[r] \in SessionRequest
         /\ up[r].session \in Sessions
         /\ up[r].right \in BOOLEAN
         /\ up[r] # Idle
<1>1. up[r] \in SessionRequest \union AccountRequest \union {Idle}
  BY DEF RecoveryTypeOK, Request
<1>2. \A x \in AccountRequest : x.pc \notin OnSession
  BY DEF AccountRequest, OnSession, Starting
<1>3. Idle.pc \notin OnSession
  BY DEF Idle, OnSession
<1>4. up[r] \in SessionRequest
  BY <1>1, <1>2, <1>3
<1> QED
  BY <1>3, <1>4 DEF SessionRequest

\* A request that is at a step of a start has no session yet.
LEMMA StartingIsTyped ==
  ASSUME RecoveryTypeOK, NEW r \in Requests, up[r].pc \in Starting
  PROVE  up[r] \in AccountRequest
<1>1. up[r] \in SessionRequest \union AccountRequest \union {Idle}
  BY DEF RecoveryTypeOK, Request
<1>2. \A x \in SessionRequest : x.pc \notin Starting
  BY DEF SessionRequest, OnSession, Starting
<1>3. Idle.pc \notin Starting
  BY DEF Idle, Starting
<1> QED
  BY <1>1, <1>2, <1>3

\* What entering a handler does to the slots.
LEMMA Entering ==
  ASSUME RecoveryTypeOK, NEW r \in Requests, NEW pc \in OnSession, NEW s \in Sessions,
         NEW right \in BOOLEAN, Enter(r, pc, s, right)
  PROVE  /\ up' \in [Requests -> Request \union {Idle}]
         /\ up'[r] = [pc |-> pc, session |-> s, right |-> right]
         /\ \A q \in Requests : q # r => up'[q] = up[q]
         /\ overlapped' \subseteq Sessions
<1>1. [pc |-> pc, session |-> s, right |-> right] \in Request
  BY DEF Request, SessionRequest
<1> QED
  BY <1>1 DEF Enter, RecoveryTypeOK

\* What ending a request does to the slots.
LEMMA Ending ==
  ASSUME RecoveryTypeOK, NEW r \in Requests, Done(r)
  PROVE  /\ up' \in [Requests -> Request \union {Idle}]
         /\ up'[r] = Idle
         /\ \A q \in Requests : q # r => up'[q] = up[q]
BY DEF Done, RecoveryTypeOK

\* What going on to the next statement of a session's handler does.
LEMMA GoingOn ==
  ASSUME RecoveryTypeOK, NEW r \in Requests, NEW pc \in OnSession,
         up[r].pc \in OnSession, Goto(r, pc)
  PROVE  /\ up' \in [Requests -> Request \union {Idle}]
         /\ up'[r] = [pc |-> pc, session |-> up[r].session, right |-> up[r].right]
         /\ \A q \in Requests : q # r => up'[q] = up[q]
<1>1. up[r] \in SessionRequest
  BY OnSessionIsTyped
<1>2. [up[r] EXCEPT !.pc = pc] = [pc |-> pc, session |-> up[r].session, right |-> up[r].right]
  BY <1>1 DEF SessionRequest
<1>3. [pc |-> pc, session |-> up[r].session, right |-> up[r].right] \in Request
  BY <1>1 DEF Request, SessionRequest
<1> QED
  BY <1>2, <1>3 DEF Goto, RecoveryTypeOK

-----------------------------------------------------------------------------
(* Type correctness.                                                       *)

\* Every reachable state is well typed.
THEOREM RecoveryTypeCorrect == Spec => []RecoveryTypeOK
<1>1. Init => RecoveryTypeOK
  <2>1. NoRow \in Row
    BY DEF NoRow, Row, Status
  <2>2. <<>> \in Seq(Sessions)
    OBVIOUS
  <2>3. Init => /\ row \in [Sessions -> Row] /\ created \in Seq(Sessions)
                /\ up \in [Requests -> Request \union {Idle}]
                /\ resets \in [Sessions -> Nat] /\ overlapped \subseteq Sessions
    BY <2>1, <2>2 DEF Init
  <2>4. Init => account \in [active : BOOLEAN, password : Sessions \union {Original, Erased}]
    BY DEF Init
  <2>5. Init => rushed \in BOOLEAN /\ late \in BOOLEAN
    BY ZenonT(20) DEF Init
  <2> QED
    BY <2>3, <2>4, <2>5 DEF RecoveryTypeOK
<1>2. RecoveryTypeOK /\ [Next]_vars => RecoveryTypeOK'
  <2> SUFFICES ASSUME RecoveryTypeOK, [Next]_vars PROVE RecoveryTypeOK'
    OBVIOUS
  <2>1. ASSUME NEW r \in Requests, StartLookup(r) PROVE RecoveryTypeOK'
    <3>1. [Idle EXCEPT !.pc = "cooldown"] \in Request
      BY DEF Idle, Request, AccountRequest, Starting
    <3> QED
      BY <2>1, <3>1 DEF StartLookup, RecoveryTypeOK
  <2>2. ASSUME NEW r \in Requests, StartCooldown(r) PROVE RecoveryTypeOK'
    <3>1. up[r] \in AccountRequest
      BY <2>2, StartingIsTyped DEF StartCooldown, Starting
    <3>2. [up[r] EXCEPT !.pc = "send"] \in Request
      BY <3>1 DEF Request, AccountRequest, Starting
    <3> QED
      BY <2>2, <3>2 DEF StartCooldown, Goto, Done, GhostsKept, RecoveryTypeOK
  <2>3. ASSUME NEW r \in Requests, NEW s \in Sessions, CreateSession(r, s)
        PROVE RecoveryTypeOK'
    <3>1. [NoRow EXCEPT !.status = "PENDING", !.locked = TRUE] \in Row
      BY DEF NoRow, Row, Status
    <3>2. Append(created, s) \in Seq(Sessions)
      BY DEF RecoveryTypeOK
    <3> QED
      BY <2>3, <3>1, <3>2, Ending DEF CreateSession, RecoveryTypeOK
  <2>4. ASSUME NEW r \in Requests, NEW s \in Sessions, NEW right \in BOOLEAN,
               ConfirmRead(r, s, right)
        PROVE RecoveryTypeOK'
    <3>1. PICK pc \in {"expire", "fail", "count"} : Enter(r, pc, s, right)
      BY <2>4 DEF ConfirmRead
    <3>2. pc \in OnSession
      BY DEF OnSession
    <3>3. up' \in [Requests -> Request \union {Idle}] /\ overlapped' \subseteq Sessions
      BY <3>1, <3>2, Entering
    <3> QED
      BY <2>4, <3>3 DEF ConfirmRead, RecoveryTypeOK
  <2>5. ASSUME NEW r \in Requests, CountTry(r) PROVE RecoveryTypeOK'
    <3>1. up[r].session \in Sessions
      BY <2>5, OnSessionIsTyped DEF CountTry, OnSession
    <3>2. up' \in [Requests -> Request \union {Idle}]
      BY <2>5, Ending, GoingOn DEF CountTry, OnSession
    <3>3. row \in [Sessions -> Row] /\ row[up[r].session].attempts + 1 \in Nat
      BY <3>1 DEF RecoveryTypeOK, Row
    <3>4. row' = [row EXCEPT ![up[r].session].attempts = row[up[r].session].attempts + 1]
      BY <2>5 DEF CountTry
    <3>5. row' \in [Sessions -> Row]
      BY <3>1, <3>3, <3>4 DEF Row
    <3> QED
      BY <2>5, <3>2, <3>5 DEF CountTry, GhostsKept, RecoveryTypeOK
  <2>6. ASSUME NEW r \in Requests, ShutSession(r) PROVE RecoveryTypeOK'
    <3>1. up[r].session \in Sessions
      BY <2>6, OnSessionIsTyped DEF ShutSession, OnSession
    <3>2. row' \in [Sessions -> Row]
      BY <2>6, <3>1, ZenonT(60) DEF ShutSession, RecoveryTypeOK, Row, Status
    <3> QED
      BY <2>6, <3>2, Ending DEF ShutSession, GhostsKept, RecoveryTypeOK
  <2>7. ASSUME NEW r \in Requests, VerifySession(r) PROVE RecoveryTypeOK'
    <3>1. up[r].session \in Sessions
      BY <2>7, OnSessionIsTyped DEF VerifySession, OnSession
    <3>2. row' \in [Sessions -> Row]
      BY <2>7, <3>1, ZenonT(60) DEF VerifySession, RecoveryTypeOK, Row, Status
    <3> QED
      BY <2>7, <3>2, Ending DEF VerifySession, GhostsKept, RecoveryTypeOK
  <2>8. ASSUME NEW r \in Requests, ExpireSession(r) PROVE RecoveryTypeOK'
    <3>1. up[r].session \in Sessions
      BY <2>8, OnSessionIsTyped DEF ExpireSession, OnSession
    <3>2. row' \in [Sessions -> Row]
      BY <2>8, <3>1, ZenonT(60) DEF ExpireSession, RecoveryTypeOK, Row, Status
    <3> QED
      BY <2>8, <3>2, Ending DEF ExpireSession, GhostsKept, RecoveryTypeOK
  <2>9. ASSUME NEW r \in Requests, NEW s \in Sessions, ResetRead(r, s)
        PROVE RecoveryTypeOK'
    <3>1. PICK pc \in {"expire", "hash"} : Enter(r, pc, s, FALSE)
      BY <2>9 DEF ResetRead
    <3>2. pc \in OnSession
      BY DEF OnSession
    <3>3. up' \in [Requests -> Request \union {Idle}] /\ overlapped' \subseteq Sessions
      BY <3>1, <3>2, Entering
    <3> QED
      BY <2>9, <3>3 DEF ResetRead, RecoveryTypeOK
  <2>10. ASSUME NEW r \in Requests, CommitReset(r) PROVE RecoveryTypeOK'
    <3>1. up[r].session \in Sessions
      BY <2>10, OnSessionIsTyped DEF CommitReset, OnSession
    <3>2. row' \in [Sessions -> Row]
      BY <2>10, <3>1, ZenonT(60) DEF CommitReset, RecoveryTypeOK, Row, Status
    <3>3. /\ account' \in [active : BOOLEAN, password : Sessions \union {Original, Erased}]
          /\ resets' \in [Sessions -> Nat]
      <4>1. /\ account' = [account EXCEPT !.password = up[r].session]
            /\ resets' = [resets EXCEPT ![up[r].session] = @ + 1]
        BY <2>10 DEF CommitReset
      <4>2. /\ account \in [active : BOOLEAN, password : Sessions \union {Original, Erased}]
            /\ resets \in [Sessions -> Nat]
        BY DEF RecoveryTypeOK
      <4> QED
        BY <3>1, <4>1, <4>2
    <3> QED
      BY <2>10, <3>2, <3>3, Ending DEF CommitReset, GhostsKept, RecoveryTypeOK
  <2>11. ASSUME NEW r \in Requests, EraseLookup(r) PROVE RecoveryTypeOK'
    <3>1. [Idle EXCEPT !.pc = "erase"] \in Request
      BY DEF Idle, Request, AccountRequest, Starting
    <3> QED
      BY <2>11, <3>1 DEF EraseLookup, GhostsKept, RecoveryTypeOK
  <2>12. ASSUME NEW r \in Requests, EraseAccount(r) PROVE RecoveryTypeOK'
    <3>1. row' \in [Sessions -> Row]
      <4>1. \A s \in Sessions : [row[s] EXCEPT !.status = "GONE"] \in Row
        BY ZenonT(60) DEF RecoveryTypeOK, Row, Status
      <4>2. row' = [s \in Sessions |->
                     IF Exists(s) THEN [row[s] EXCEPT !.status = "GONE"] ELSE row[s]]
        BY <2>12 DEF EraseAccount
      <4>3. \A s \in Sessions : row[s] \in Row
        BY DEF RecoveryTypeOK
      <4> QED
        BY <4>1, <4>2, <4>3
    <3> QED
      BY <2>12, <3>1, Ending DEF EraseAccount, GhostsKept, RecoveryTypeOK
  <2>13. ASSUME NEW s \in Sessions, LockEnds(s) \/ CodeExpires(s) \/ TokenExpires(s)
         PROVE RecoveryTypeOK'
    <3>a. row \in [Sessions -> Row]
      BY DEF RecoveryTypeOK
    <3>b. \/ row' = [row EXCEPT ![s].locked = FALSE]
          \/ row' = [row EXCEPT ![s].codeExpired = TRUE]
          \/ row' = [row EXCEPT ![s].tokenExpired = TRUE]
      BY <2>13 DEF LockEnds, CodeExpires, TokenExpires
    <3>1. row' \in [Sessions -> Row]
      BY <3>a, <3>b, ZenonT(60) DEF Row
    <3> QED
      BY <2>13, <3>1 DEF LockEnds, CodeExpires, TokenExpires, GhostsKept, RecoveryTypeOK
  <2>14. ASSUME NEW r \in Requests, Stop(r) PROVE RecoveryTypeOK'
    BY <2>14, Ending DEF Stop, GhostsKept, RecoveryTypeOK
  <2>15. CASE UNCHANGED vars
    BY <2>15 DEF vars, RecoveryTypeOK
  <2> QED
    BY <2>1, <2>2, <2>3, <2>4, <2>5, <2>6, <2>7, <2>8, <2>9, <2>10, <2>11, <2>12,
       <2>13, <2>14, <2>15 DEF Next
<1> QED
  BY <1>1, <1>2, PTL DEF Spec

-----------------------------------------------------------------------------
(* Tries and resets under way.                                             *)

\* The requests that are about to count a try, or to set a password.
LEMMA UnderWayFinite ==
  ASSUME NEW s \in Sessions
  PROVE  /\ IsFiniteSet(Counting(s)) /\ Cardinality(Counting(s)) \in Nat
         /\ Cardinality(Counting(s)) <= Cardinality(Requests)
         /\ IsFiniteSet(Hashing(s)) /\ Cardinality(Hashing(s)) \in Nat
         /\ Cardinality(Hashing(s)) <= Cardinality(Requests)
         /\ Cardinality(Requests) \in Nat
<1>1. IsFiniteSet(Requests)
  BY RecoveryAssumption
<1>2. Counting(s) \in SUBSET Requests /\ Hashing(s) \in SUBSET Requests
  BY DEF Counting, Hashing
<1> QED
  BY <1>1, <1>2, FS_Subset, FS_CardinalityType

\* The same in the next state.
LEMMA UnderWayFiniteNext ==
  ASSUME NEW s \in Sessions
  PROVE  /\ Cardinality(Counting(s)') \in Nat
         /\ Cardinality(Counting(s)') <= Cardinality(Requests)
         /\ Cardinality(Hashing(s)') \in Nat
         /\ Cardinality(Hashing(s)') <= Cardinality(Requests)
<1>1. IsFiniteSet(Requests)
  BY RecoveryAssumption
<1>2. Counting(s)' \in SUBSET Requests /\ Hashing(s)' \in SUBSET Requests
  BY DEF Counting, Hashing
<1> QED
  BY <1>1, <1>2, FS_Subset, FS_CardinalityType

\* What counting a try does to the slots: the request is done, or goes on to
\* accept the code or to shut the session.
LEMMA AfterTry ==
  ASSUME RecoveryTypeOK, NEW r \in Requests, CountTry(r)
  PROVE  /\ \A q \in Requests : q # r => up'[q] = up[q]
         /\ \/ up'[r] = Idle
            \/ /\ up'[r].pc = "verify" /\ up[r].right
               /\ up'[r].session = up[r].session
            \/ /\ up'[r].pc = "fail"
               /\ up'[r].session = up[r].session
         /\ up'[r].pc \notin {"count", "hash"}
<1>1. up[r].pc \in OnSession
  BY DEF CountTry, OnSession
<1>2. CASE Done(r)
  <2>1. up'[r] = Idle /\ \A q \in Requests : q # r => up'[q] = up[q]
    BY <1>2, Ending
  <2>2. Idle.pc = "idle"
    BY DEF Idle
  <2>3. up'[r].pc = "idle"
    BY <2>1, <2>2
  <2> QED
    BY <2>1, <2>3
<1>3. ASSUME NEW pc \in {"verify", "fail"}, Goto(r, pc)
      PROVE  /\ \A q \in Requests : q # r => up'[q] = up[q]
             /\ up'[r].pc = pc /\ up'[r].session = up[r].session
  <2>1. pc \in OnSession
    BY DEF OnSession
  <2>2. up'[r] = [pc |-> pc, session |-> up[r].session, right |-> up[r].right]
    BY <1>1, <1>3, <2>1, GoingOn
  <2>3. \A q \in Requests : q # r => up'[q] = up[q]
    BY <1>1, <1>3, <2>1, GoingOn
  <2> QED
    BY <2>2, <2>3
<1>4. \/ Done(r)
      \/ Goto(r, "verify") /\ up[r].right
      \/ Goto(r, "fail")
  BY DEF CountTry
<1>5. CASE Goto(r, "verify") /\ up[r].right
  BY <1>3, <1>5
<1>6. CASE Goto(r, "fail")
  BY <1>3, <1>6
<1> QED
  BY <1>2, <1>4, <1>5, <1>6

\* When a request leaves the handler, or goes to another step than these two,
\* the sets shrink by it.
LEMMA Leaving ==
  ASSUME NEW r \in Requests, NEW s \in Sessions,
         \A q \in Requests : q # r => up'[q] = up[q],
         up'[r].pc \notin {"count", "hash"}
  PROVE  /\ Counting(s)' = Counting(s) \ {r}
         /\ Hashing(s)' = Hashing(s) \ {r}
BY DEF Counting, Hashing

\* A step that is neither the start of a confirmation or a reset, nor the
\* creation of a session, a counted try or a committed reset.
Quiet ==
  \/ UNCHANGED vars
  \/ \E r \in Requests :
       \/ StartLookup(r) \/ StartCooldown(r) \/ ShutSession(r) \/ VerifySession(r)
       \/ ExpireSession(r) \/ EraseLookup(r) \/ EraseAccount(r) \/ Stop(r)
  \/ \E s \in Sessions : LockEnds(s) \/ CodeExpires(s) \/ TokenExpires(s)

\* A quiet step counts no try, consumes no session and sets no password, and
\* brings no request nearer to doing so.
LEMMA QuietSteps ==
  ASSUME RecoveryTypeOK, Quiet, NEW s \in Sessions
  PROVE  /\ row'[s].attempts = row[s].attempts
         /\ row'[s].consumed = row[s].consumed
         /\ row'[s].status = "NONE" => row[s].status = "NONE"
         /\ resets'[s] = resets[s]
         /\ Counting(s)' \subseteq Counting(s)
         /\ Hashing(s)' \subseteq Hashing(s)
<1> DEFINE Same == /\ row'[s].attempts = row[s].attempts
                   /\ row'[s].consumed = row[s].consumed
                   /\ row'[s].status = "NONE" => row[s].status = "NONE"
           Fewer == Counting(s)' \subseteq Counting(s) /\ Hashing(s)' \subseteq Hashing(s)
<1>1. CASE UNCHANGED vars
  BY <1>1 DEF vars, Counting, Hashing
<1>2. ASSUME NEW r \in Requests, StartLookup(r) \/ EraseLookup(r)
      PROVE  Same /\ Fewer /\ resets'[s] = resets[s]
  <2>1. \A q \in Requests : q # r => up'[q] = up[q]
    BY <1>2 DEF StartLookup, EraseLookup, RecoveryTypeOK
  <2>2. up'[r].pc \in {"cooldown", "erase"}
    BY <1>2 DEF StartLookup, EraseLookup, RecoveryTypeOK, Idle
  <2> QED
    BY <1>2, <2>1, <2>2, Leaving DEF StartLookup, EraseLookup
<1>3. ASSUME NEW r \in Requests, StartCooldown(r)
      PROVE  Same /\ Fewer /\ resets'[s] = resets[s]
  <2>1. up[r] \in AccountRequest
    BY <1>3, StartingIsTyped DEF StartCooldown, Starting
  <2>2. /\ \A q \in Requests : q # r => up'[q] = up[q]
        /\ up'[r].pc \in {"send", "idle"}
    BY <1>3, <2>1 DEF StartCooldown, Goto, Done, Idle, RecoveryTypeOK, AccountRequest
  <2> QED
    BY <1>3, <2>2, Leaving DEF StartCooldown
<1>4. ASSUME NEW r \in Requests, Done(r) PROVE Fewer
  <2>1. up'[r].pc = "idle"
    BY <1>4, Ending DEF Idle
  <2> QED
    BY <1>4, <2>1, Ending, Leaving
<1>5. row[s] \in Row
  BY DEF RecoveryTypeOK
<1>6. ASSUME NEW r \in Requests, ShutSession(r)
      PROVE  Same /\ Fewer /\ resets'[s] = resets[s]
  BY <1>4, <1>5, <1>6 DEF ShutSession, RecoveryTypeOK, Row
<1>7. ASSUME NEW r \in Requests, VerifySession(r)
      PROVE  Same /\ Fewer /\ resets'[s] = resets[s]
  BY <1>4, <1>5, <1>7 DEF VerifySession, RecoveryTypeOK, Row
<1>8. ASSUME NEW r \in Requests, ExpireSession(r)
      PROVE  Same /\ Fewer /\ resets'[s] = resets[s]
  BY <1>4, <1>5, <1>8 DEF ExpireSession, RecoveryTypeOK, Row
<1>9. ASSUME NEW r \in Requests, EraseAccount(r)
      PROVE  Same /\ Fewer /\ resets'[s] = resets[s]
  BY <1>4, <1>5, <1>9 DEF EraseAccount, Row
<1>10. ASSUME NEW r \in Requests, Stop(r)
       PROVE  Same /\ Fewer /\ resets'[s] = resets[s]
  BY <1>4, <1>10 DEF Stop
<1>11. ASSUME NEW t \in Sessions, LockEnds(t) \/ CodeExpires(t) \/ TokenExpires(t)
       PROVE  Same /\ Fewer /\ resets'[s] = resets[s]
  <2>1. up' = up /\ resets' = resets
    BY <1>11 DEF LockEnds, CodeExpires, TokenExpires
  <2>2. Same
    <3>1. \/ row' = [row EXCEPT ![t].locked = FALSE]
          \/ row' = [row EXCEPT ![t].codeExpired = TRUE]
          \/ row' = [row EXCEPT ![t].tokenExpired = TRUE]
      BY <1>11 DEF LockEnds, CodeExpires, TokenExpires
    <3>2. row \in [Sessions -> Row]
      BY DEF RecoveryTypeOK
    <3> QED
      BY <3>1, <3>2 DEF Row
  <2> QED
    BY <2>1, <2>2 DEF Counting, Hashing
<1> QED
  BY <1>1, <1>2, <1>3, <1>6, <1>7, <1>8, <1>9, <1>10, <1>11 DEF Quiet

-----------------------------------------------------------------------------
(* The limit on tries.                                                     *)

\* Requests that checked the limit together may exceed it, by no more than the
\* other requests that can be in flight: each try still to be counted is
\* already in the sum.
THEOREM TriesBoundedHolds == Spec => []TriesBounded
<1>1. Init => TriesBounded
  <2> SUFFICES ASSUME Init, NEW s \in Sessions
               PROVE  row[s].attempts + Cardinality(Counting(s))
                        <= MaxAttempts - 1 + Cardinality(Requests)
    BY DEF TriesBounded
  <2>1. Counting(s) = {} /\ row[s].attempts = 0
    BY DEF Init, Counting, Idle, NoRow
  <2> QED
    BY <2>1, FS_EmptySet, UnderWayFinite, RecoveryAssumption
<1>2. RecoveryTypeOK /\ TriesBounded /\ [Next]_vars => TriesBounded'
  <2> SUFFICES ASSUME RecoveryTypeOK, TriesBounded, [Next]_vars, NEW s \in Sessions
               PROVE  row'[s].attempts + Cardinality(Counting(s)')
                        <= MaxAttempts - 1 + Cardinality(Requests)
    BY DEF TriesBounded
  <2> DEFINE C == Cardinality(Counting(s))
             D == Cardinality(Counting(s)')
             R == Cardinality(Requests)
  <2>a. /\ row[s] \in Row /\ row[s].attempts \in Nat
        /\ row[s].attempts + C <= MaxAttempts - 1 + R
    BY DEF RecoveryTypeOK, Row, TriesBounded
  <2>b. C \in Nat /\ D \in Nat /\ R \in Nat /\ D <= R /\ MaxAttempts \in Nat \ {0}
    BY UnderWayFinite, UnderWayFiniteNext, RecoveryAssumption
  <2>c. ASSUME row'[s].attempts = row[s].attempts, Counting(s)' \subseteq Counting(s)
        PROVE  row'[s].attempts + D <= MaxAttempts - 1 + R
    <3>1. D <= C
      BY <2>c, UnderWayFinite, FS_Subset
    <3> QED
      BY <2>a, <2>b, <2>c, <3>1
  <2>1. CASE Quiet
    BY <2>1, <2>c, QuietSteps
  <2>2. ASSUME NEW r \in Requests, NEW t \in Sessions, CreateSession(r, t)
        PROVE  row'[s].attempts + D <= MaxAttempts - 1 + R
    <3>1. \/ row'[s] = row[s]
          \/ row'[s].attempts = 0
      BY <2>2 DEF CreateSession, RecoveryTypeOK, NoRow
    <3>2. Counting(s)' \subseteq Counting(s)
      <4>1. Done(r)
        BY <2>2 DEF CreateSession
      <4> QED
        BY <4>1, Ending, Leaving DEF Idle
    <3>3. CASE row'[s] = row[s]
      BY <2>c, <3>2, <3>3
    <3>4. CASE row'[s].attempts = 0
      BY <2>b, <3>4
    <3> QED
      BY <3>1, <3>3, <3>4
  <2>3. ASSUME NEW r \in Requests, NEW t \in Sessions, NEW right \in BOOLEAN,
               ConfirmRead(r, t, right)
        PROVE  row'[s].attempts + D <= MaxAttempts - 1 + R
    <3>1. row' = row
      BY <2>3 DEF ConfirmRead
    <3>2. PICK pc \in {"expire", "fail", "count"} :
            /\ Enter(r, pc, t, right)
            /\ pc = "count" => row[t].attempts < MaxAttempts
      BY <2>3 DEF ConfirmRead
    <3>3. pc \in OnSession
      BY DEF OnSession
    <3>4. /\ up'[r] = [pc |-> pc, session |-> t, right |-> right]
          /\ \A q \in Requests : q # r => up'[q] = up[q]
      BY <3>2, <3>3, Entering
    <3>5. CASE pc = "count" /\ s = t
      BY <2>a, <2>b, <3>1, <3>2, <3>5
    <3>6. CASE ~(pc = "count" /\ s = t)
      <4>1. Counting(s)' \subseteq Counting(s)
        BY <3>4, <3>6 DEF Counting
      <4> QED
        BY <2>c, <3>1, <4>1
    <3> QED
      BY <3>5, <3>6
  <2>4. ASSUME NEW r \in Requests, CountTry(r)
        PROVE  row'[s].attempts + D <= MaxAttempts - 1 + R
    <3> DEFINE t == up[r].session
    <3>1. t \in Sessions /\ up[r].pc = "count"
      BY <2>4, OnSessionIsTyped DEF CountTry, OnSession
    <3>2. /\ \A q \in Requests : q # r => up'[q] = up[q]
          /\ up'[r].pc \notin {"count", "hash"}
      BY <2>4, AfterTry
    <3>3. Counting(s)' = Counting(s) \ {r}
      BY <3>2, Leaving
    <3>4. row' = [row EXCEPT ![t].attempts = row[t].attempts + 1]
      BY <2>4 DEF CountTry
    <3>5. row \in [Sessions -> Row]
      BY DEF RecoveryTypeOK
    <3> HIDE DEF t
    <3>6. CASE s = t
      <4>1. r \in Counting(s)
        BY <3>1, <3>6 DEF Counting, t
      <4>2. D = C - 1
        BY <3>3, <4>1, UnderWayFinite, FS_RemoveElement
      <4>3. row'[s].attempts = row[s].attempts + 1
        BY <3>1, <3>4, <3>5, <3>6 DEF Row
      <4> QED
        BY <2>a, <2>b, <4>2, <4>3
    <3>7. CASE s # t
      <4>1. row'[s] = row[s]
        BY <3>1, <3>4, <3>5, <3>7
      <4> QED
        BY <2>c, <3>3, <4>1
    <3> QED
      BY <3>6, <3>7
  <2>5. ASSUME NEW r \in Requests, NEW t \in Sessions, ResetRead(r, t)
        PROVE  row'[s].attempts + D <= MaxAttempts - 1 + R
    <3>1. row' = row
      BY <2>5 DEF ResetRead
    <3>2. PICK pc \in {"expire", "hash"} : Enter(r, pc, t, FALSE)
      BY <2>5 DEF ResetRead
    <3>3. pc \in OnSession
      BY DEF OnSession
    <3>4. /\ up'[r] = [pc |-> pc, session |-> t, right |-> FALSE]
          /\ \A q \in Requests : q # r => up'[q] = up[q]
      BY <3>2, <3>3, Entering
    <3>5. Counting(s)' \subseteq Counting(s)
      BY <3>2, <3>4 DEF Counting
    <3> QED
      BY <2>c, <3>1, <3>5
  <2>6. ASSUME NEW r \in Requests, CommitReset(r)
        PROVE  row'[s].attempts + D <= MaxAttempts - 1 + R
    <3>1. up[r].session \in Sessions
      BY <2>6, OnSessionIsTyped DEF CommitReset, OnSession
    <3>2. row'[s].attempts = row[s].attempts
      BY <2>6, <3>1 DEF CommitReset, RecoveryTypeOK, Row
    <3>3. Done(r)
      BY <2>6 DEF CommitReset
    <3>4. Counting(s)' \subseteq Counting(s)
      BY <3>3, Ending, Leaving DEF Idle
    <3> QED
      BY <2>c, <3>2, <3>4
  <2> QED
    BY <2>1, <2>2, <2>3, <2>4, <2>5, <2>6 DEF Next, Quiet
<1> QED
  BY <1>1, <1>2, RecoveryTypeCorrect, PTL DEF Spec

-----------------------------------------------------------------------------
(* Consumed sessions.                                                      *)

\* Only CommitReset consumes a session, so a row that does not exist yet is not
\* consumed.
Fresh == \A s \in Sessions : row[s].status = "NONE" => ~row[s].consumed

\* A session that has set a password is consumed, and every further password it
\* sets comes from a request that had read it before: there are at most as many
\* as requests that can be in flight.
THEOREM ConsumedHolds == Spec => []ConsumedStaysConsumed
<1> DEFINE Inv == Fresh /\ ConsumedStaysConsumed
<1>1. Init => Inv
  <2> SUFFICES ASSUME Init, NEW s \in Sessions
               PROVE  /\ ~row[s].consumed
                      /\ resets[s] = 0
                      /\ resets[s] + Cardinality(Hashing(s)) <= Cardinality(Requests)
    BY DEF Fresh, ConsumedStaysConsumed
  <2>1. Hashing(s) = {} /\ resets[s] = 0 /\ ~row[s].consumed
    BY DEF Init, Hashing, Idle, NoRow
  <2> QED
    BY <2>1, FS_EmptySet, UnderWayFinite
<1>2. RecoveryTypeOK /\ Inv /\ [Next]_vars => Inv'
  <2> SUFFICES ASSUME RecoveryTypeOK, Inv, [Next]_vars, NEW s \in Sessions
               PROVE  /\ row'[s].status = "NONE" => ~row'[s].consumed
                      /\ resets'[s] > 0 => row'[s].consumed
                      /\ resets'[s] + Cardinality(Hashing(s)') <= Cardinality(Requests)
    BY DEF Fresh, ConsumedStaysConsumed
  <2> DEFINE H == Cardinality(Hashing(s))
             I == Cardinality(Hashing(s)')
             R == Cardinality(Requests)
             Goal == /\ row'[s].status = "NONE" => ~row'[s].consumed
                     /\ resets'[s] > 0 => row'[s].consumed
                     /\ resets'[s] + I <= R
  <2>a. /\ row \in [Sessions -> Row] /\ resets[s] \in Nat
        /\ row[s].status = "NONE" => ~row[s].consumed
        /\ resets[s] > 0 => row[s].consumed
        /\ resets[s] + H <= R
    BY DEF RecoveryTypeOK, Fresh, ConsumedStaysConsumed
  <2>b. H \in Nat /\ I \in Nat /\ R \in Nat /\ I <= R
    BY UnderWayFinite, UnderWayFiniteNext
  <2>c. ASSUME row'[s].consumed = row[s].consumed,
               row'[s].status = "NONE" => row[s].status = "NONE",
               resets'[s] = resets[s], Hashing(s)' \subseteq Hashing(s)
        PROVE  Goal
    <3>1. I <= H
      BY <2>c, UnderWayFinite, FS_Subset
    <3> QED
      BY <2>a, <2>b, <2>c, <3>1
  <2>1. CASE Quiet
    BY <2>1, <2>c, QuietSteps
  <2>2. ASSUME NEW r \in Requests, NEW t \in Sessions, CreateSession(r, t)
        PROVE  Goal
    <3>1. Hashing(s)' \subseteq Hashing(s) /\ resets'[s] = resets[s]
      <4>1. Done(r)
        BY <2>2 DEF CreateSession
      <4> QED
        BY <2>2, <4>1, Ending, Leaving DEF Idle, CreateSession
    <3>2. CASE s # t
      <4>1. row'[s] = row[s]
        BY <2>2, <2>a, <3>2 DEF CreateSession
      <4> QED
        BY <2>c, <3>1, <4>1
    <3>3. CASE s = t
      <4>1. row[s].status = "NONE" /\ row'[s] = [NoRow EXCEPT !.status = "PENDING", !.locked = TRUE]
        BY <2>2, <2>a, <3>3 DEF CreateSession
      <4>2. row'[s].status = "PENDING" /\ ~row'[s].consumed
        BY <4>1 DEF NoRow
      <4>3. resets[s] = 0 /\ resets'[s] = 0
        BY <2>a, <3>1, <4>1
      <4> QED
        BY <2>a, <2>b, <3>1, <4>1, <4>2, <4>3
    <3> QED
      BY <3>2, <3>3
  <2>3. ASSUME NEW r \in Requests, NEW t \in Sessions, NEW right \in BOOLEAN,
               ConfirmRead(r, t, right)
        PROVE  Goal
    <3>1. PICK pc \in {"expire", "fail", "count"} : Enter(r, pc, t, right)
      BY <2>3 DEF ConfirmRead
    <3>2. pc \in OnSession
      BY DEF OnSession
    <3>3. /\ up'[r] = [pc |-> pc, session |-> t, right |-> right]
          /\ \A q \in Requests : q # r => up'[q] = up[q]
      BY <3>1, <3>2, Entering
    <3>4. Hashing(s)' \subseteq Hashing(s)
      BY <3>1, <3>3 DEF Hashing
    <3>5. row' = row /\ resets' = resets
      BY <2>3 DEF ConfirmRead
    <3> QED
      BY <2>c, <3>4, <3>5
  <2>4. ASSUME NEW r \in Requests, CountTry(r)
        PROVE  Goal
    <3> DEFINE t == up[r].session
    <3>1. t \in Sessions /\ row' = [row EXCEPT ![t].attempts = row[t].attempts + 1]
      BY <2>4, OnSessionIsTyped DEF CountTry, OnSession
    <3>2. row'[s].consumed = row[s].consumed /\ row'[s].status = row[s].status
      BY <2>a, <3>1 DEF Row
    <3>3. Hashing(s)' \subseteq Hashing(s)
      BY <2>4, AfterTry, Leaving
    <3>4. resets' = resets
      BY <2>4 DEF CountTry
    <3> QED
      BY <2>c, <3>2, <3>3, <3>4
  <2>5. ASSUME NEW r \in Requests, NEW t \in Sessions, ResetRead(r, t)
        PROVE  Goal
    <3>1. row' = row /\ resets' = resets /\ ~row[t].consumed
      BY <2>5 DEF ResetRead
    <3>2. CASE s = t
      BY <2>a, <2>b, <3>1, <3>2
    <3>3. CASE s # t
      <4>1. PICK pc \in {"expire", "hash"} : Enter(r, pc, t, FALSE)
        BY <2>5 DEF ResetRead
      <4>2. pc \in OnSession
        BY DEF OnSession
      <4>3. /\ up'[r] = [pc |-> pc, session |-> t, right |-> FALSE]
            /\ \A q \in Requests : q # r => up'[q] = up[q]
        BY <4>1, <4>2, Entering
      <4>4. Hashing(s)' \subseteq Hashing(s)
        BY <3>3, <4>3 DEF Hashing
      <4> QED
        BY <2>c, <3>1, <4>4
    <3> QED
      BY <3>2, <3>3
  <2>6. ASSUME NEW r \in Requests, CommitReset(r)
        PROVE  Goal
    <3> DEFINE t == up[r].session
    <3>1. /\ t \in Sessions /\ up[r].pc = "hash" /\ Done(r)
          /\ row' = [row EXCEPT ![t] = [@ EXCEPT !.status = "USED", !.consumed = TRUE]]
          /\ resets' = [resets EXCEPT ![t] = @ + 1]
      BY <2>6, OnSessionIsTyped DEF CommitReset, OnSession
    <3>2. Hashing(s)' = Hashing(s) \ {r}
      BY <3>1, Ending, Leaving DEF Idle
    <3>3. CASE s = t
      <4>1. row'[s] = [row[s] EXCEPT !.status = "USED", !.consumed = TRUE]
        BY <2>a, <3>1, <3>3
      <4>2. row'[s].consumed /\ row'[s].status # "NONE"
        BY <2>a, <4>1 DEF Row
      <4>3. r \in Hashing(s)
        BY <3>1, <3>3 DEF Hashing
      <4>4. I = H - 1
        BY <3>2, <4>3, UnderWayFinite, FS_RemoveElement
      <4>5. resets'[s] = resets[s] + 1
        BY <3>1, <3>3 DEF RecoveryTypeOK
      <4> QED
        BY <2>a, <2>b, <4>2, <4>4, <4>5
    <3>4. CASE s # t
      <4>1. row'[s] = row[s] /\ resets'[s] = resets[s]
        BY <2>a, <3>1, <3>4 DEF RecoveryTypeOK
      <4> QED
        BY <2>c, <3>2, <4>1
    <3> QED
      BY <3>3, <3>4
  <2> QED
    BY <2>1, <2>2, <2>3, <2>4, <2>5, <2>6 DEF Next, Quiet
<1>3. Inv => ConsumedStaysConsumed
  OBVIOUS
<1> QED
  BY <1>1, <1>2, <1>3, RecoveryTypeCorrect, PTL DEF Spec

-----------------------------------------------------------------------------
(* Deletion.                                                               *)

\* Once the account is deleted, and unless a start outlived it, there is no
\* session left through which a request could write.
Shut == ~account.active /\ ~late =>
          account.password = Erased /\ \A s \in Sessions : ~Exists(s)

\* A deleted account keeps the password the deletion gave it: a reset under way
\* finds its session gone and rolls back.
THEOREM DeletedHolds == Spec => []DeletedStaysErased
<1>1. Init => Shut
  BY DEF Init, Shut
<1>2. RecoveryTypeOK /\ Shut /\ [Next]_vars => Shut'
  <2> SUFFICES ASSUME RecoveryTypeOK, Shut, [Next]_vars, ~account'.active, ~late'
               PROVE  account'.password = Erased /\ \A s \in Sessions : ~Exists(s)'
    BY DEF Shut
  <2> DEFINE Goal == account'.password = Erased /\ \A s \in Sessions : ~Exists(s)'
  <2>a. row \in [Sessions -> Row]
    BY DEF RecoveryTypeOK
  <2>1. ASSUME NEW r \in Requests, EraseAccount(r) PROVE Goal
    <3>1. account'.password = Erased
      BY <2>1 DEF EraseAccount
    <3>2. ASSUME NEW s \in Sessions PROVE ~Exists(s)'
      <4>1. row'[s] = IF Exists(s) THEN [row[s] EXCEPT !.status = "GONE"] ELSE row[s]
        BY <2>1 DEF EraseAccount
      <4>2. [row[s] EXCEPT !.status = "GONE"].status = "GONE"
        BY <2>a DEF Row
      <4> QED
        BY <4>1, <4>2 DEF Exists
    <3> QED
      BY <3>1, <3>2
  <2>2. ASSUME NEW r \in Requests, NEW s \in Sessions, CreateSession(r, s) PROVE Goal
    <3>1. account' = account /\ (~account.active => late')
      BY <2>2 DEF CreateSession
    <3> QED
      BY <3>1
  <2>b. ASSUME account' = account, late' = late,
               \A s \in Sessions : row'[s].status = row[s].status
        PROVE  Goal
    BY <2>b DEF Shut, Exists
  <2>c. ASSUME NEW s \in Sessions, Exists(s), account'.active = account.active, late' = late
        PROVE  FALSE
    BY <2>c DEF Shut
  <2>3. ASSUME NEW r \in Requests, StartLookup(r) \/ StartCooldown(r) \/ EraseLookup(r) \/ Stop(r)
        PROVE  Goal
    BY <2>3, <2>b DEF StartLookup, StartCooldown, EraseLookup, Stop, GhostsKept
  <2>4. ASSUME NEW r \in Requests, NEW s \in Sessions,
               ResetRead(r, s) \/ \E right \in BOOLEAN : ConfirmRead(r, s, right)
        PROVE  Goal
    BY <2>4, <2>b DEF ResetRead, ConfirmRead
  <2>5. ASSUME NEW r \in Requests,
               CountTry(r) \/ ShutSession(r) \/ VerifySession(r) \/ ExpireSession(r)
        PROVE  Goal
    <3>1. /\ up[r].pc \in OnSession /\ Exists(up[r].session)
          /\ account' = account /\ late' = late
      BY <2>5 DEF CountTry, ShutSession, VerifySession, ExpireSession, GhostsKept, OnSession
    <3> QED
      BY <2>c, <3>1, OnSessionIsTyped
  <2>6. ASSUME NEW r \in Requests, CommitReset(r) PROVE Goal
    <3>1. /\ up[r].pc \in OnSession /\ Exists(up[r].session)
          /\ account' = [account EXCEPT !.password = up[r].session] /\ late' = late
      BY <2>6 DEF CommitReset, GhostsKept, OnSession
    <3>2. account'.active = account.active
      BY <3>1 DEF RecoveryTypeOK
    <3> QED
      BY <2>c, <3>1, <3>2, OnSessionIsTyped
  <2>7. ASSUME NEW t \in Sessions, LockEnds(t) \/ CodeExpires(t) \/ TokenExpires(t)
        PROVE  Goal
    <3>1. \/ row' = [row EXCEPT ![t].locked = FALSE]
          \/ row' = [row EXCEPT ![t].codeExpired = TRUE]
          \/ row' = [row EXCEPT ![t].tokenExpired = TRUE]
      BY <2>7 DEF LockEnds, CodeExpires, TokenExpires
    <3>2. \A s \in Sessions : row'[s].status = row[s].status
      BY <2>a, <3>1 DEF Row
    <3> QED
      BY <2>7, <2>b, <3>2 DEF LockEnds, CodeExpires, TokenExpires, GhostsKept
  <2>8. CASE UNCHANGED vars
    BY <2>8, <2>b DEF vars
  <2> QED
    BY <2>1, <2>2, <2>3, <2>4, <2>5, <2>6, <2>7, <2>8 DEF Next
<1>3. Shut => DeletedStaysErased
  BY DEF Shut, DeletedStaysErased
<1> QED
  BY <1>1, <1>2, <1>3, RecoveryTypeCorrect, PTL DEF Spec

-----------------------------------------------------------------------------
(* A user whose requests come one after the other.                         *)

\* What holds of a session that never had two requests in flight.
AloneOn(s) ==
  /\ \A q, r \in InFlight(s) : q = r
  /\ row[s].attempts <= MaxAttempts
  /\ Counting(s) # {} => row[s].attempts < MaxAttempts
  /\ resets[s] <= 1
  /\ Hashing(s) # {} => ~row[s].consumed
  /\ resets[s] > 0 => row[s].consumed
  /\ row[s].status = "NONE" => resets[s] = 0

AloneInv == \A s \in Sessions \ overlapped : AloneOn(s)

\* A request that goes on or ends is on the session it was on, or on none.
LEMMA FlightsEnd ==
  ASSUME NEW s \in Sessions, NEW r \in Requests, \A q \in Requests : q # r => up'[q] = up[q],
         up'[r].session \in {up[r].session, NoSession}
  PROVE  InFlight(s)' \subseteq InFlight(s)
BY RecoveryAssumption DEF InFlight

\* So are those that count a try or set a password.
LEMMA UnderWayIsInFlight ==
  \A s \in Sessions : Counting(s) \subseteq InFlight(s) /\ Hashing(s) \subseteq InFlight(s)
BY DEF Counting, Hashing, InFlight

\* A request that ends is on no session.
LEMMA EndsFlight ==
  ASSUME RecoveryTypeOK, NEW r \in Requests, Done(r)
  PROVE  /\ \A q \in Requests : q # r => up'[q] = up[q]
         /\ up'[r].session = NoSession /\ up'[r].pc = "idle"
BY Ending DEF Idle

\* Quiet steps put no request on a session.
LEMMA QuietFlights ==
  ASSUME RecoveryTypeOK, Quiet, NEW s \in Sessions
  PROVE  InFlight(s)' \subseteq InFlight(s) /\ overlapped' = overlapped
<1>1. CASE UNCHANGED vars
  BY <1>1 DEF vars, InFlight
<1>2. ASSUME NEW r \in Requests, StartLookup(r) \/ EraseLookup(r)
      PROVE  InFlight(s)' \subseteq InFlight(s) /\ overlapped' = overlapped
  <2>1. /\ \A q \in Requests : q # r => up'[q] = up[q]
        /\ up'[r].session = up[r].session /\ overlapped' = overlapped
    BY <1>2 DEF StartLookup, EraseLookup, GhostsKept, RecoveryTypeOK, Idle
  <2> QED
    BY <2>1, FlightsEnd
<1>3. ASSUME NEW r \in Requests, StartCooldown(r)
      PROVE  InFlight(s)' \subseteq InFlight(s) /\ overlapped' = overlapped
  <2>1. up[r] \in AccountRequest
    BY <1>3, StartingIsTyped DEF StartCooldown, Starting
  <2>2. /\ \A q \in Requests : q # r => up'[q] = up[q]
        /\ up'[r].session = NoSession /\ overlapped' = overlapped
    BY <1>3, <2>1 DEF StartCooldown, Goto, Done, GhostsKept, RecoveryTypeOK, Idle, AccountRequest
  <2> QED
    BY <2>2, FlightsEnd
<1>4. ASSUME NEW r \in Requests, Done(r) PROVE InFlight(s)' \subseteq InFlight(s)
  BY <1>4, EndsFlight, FlightsEnd
<1>5. ASSUME NEW r \in Requests,
             ShutSession(r) \/ VerifySession(r) \/ ExpireSession(r) \/ EraseAccount(r) \/ Stop(r)
      PROVE  InFlight(s)' \subseteq InFlight(s) /\ overlapped' = overlapped
  BY <1>4, <1>5 DEF ShutSession, VerifySession, ExpireSession, EraseAccount, Stop, GhostsKept
<1>6. ASSUME NEW t \in Sessions, LockEnds(t) \/ CodeExpires(t) \/ TokenExpires(t)
      PROVE  InFlight(s)' \subseteq InFlight(s) /\ overlapped' = overlapped
  BY <1>6 DEF LockEnds, CodeExpires, TokenExpires, GhostsKept, InFlight
<1> QED
  BY <1>1, <1>2, <1>3, <1>5, <1>6 DEF Quiet

\* When nothing of a session changes and no request comes, it is as alone as it was.
LEMMA StaysAlone ==
  ASSUME NEW s \in Sessions, AloneOn(s),
         InFlight(s)' \subseteq InFlight(s), Counting(s)' \subseteq Counting(s),
         Hashing(s)' \subseteq Hashing(s),
         row'[s].attempts = row[s].attempts, row'[s].consumed = row[s].consumed,
         resets'[s] = resets[s], row'[s].status = "NONE" => row[s].status = "NONE"
  PROVE  AloneOn(s)'
BY DEF AloneOn

\* A request that comes to a session without another finds it as it stays.
LEMMA EnteringAlone ==
  ASSUME RecoveryTypeOK, AloneInv, NEW r \in Requests, up[r] = Idle,
         NEW pc \in OnSession, NEW t \in Sessions, NEW right \in BOOLEAN, Enter(r, pc, t, right),
         row' = row, resets' = resets,
         pc = "count" => row[t].attempts < MaxAttempts,
         pc = "hash" => ~row[t].consumed
  PROVE  AloneInv'
<1>1. /\ up'[r] = [pc |-> pc, session |-> t, right |-> right]
      /\ \A q \in Requests : q # r => up'[q] = up[q]
  BY Entering
<1>2. up[r].session = NoSession /\ up[r].pc = "idle"
  BY DEF Idle
<1>3. up'[r].pc = pc /\ up'[r].session = t
  BY <1>1
<1>4. ASSUME NEW s \in Sessions \ overlapped' PROVE AloneOn(s)'
  <2>1. s \notin overlapped /\ (s = t => InFlight(s) = {})
    BY DEF Enter
  <2>2. AloneOn(s)
    BY <2>1 DEF AloneInv
  <2>3. CASE s = t
    <3>1. InFlight(s)' = {r}
      BY <1>1, <1>3, <2>1, <2>3 DEF InFlight
    <3>2. Counting(s)' # {} => pc = "count"
      BY <1>3, <3>1 DEF Counting, InFlight
    <3>3. Hashing(s)' # {} => pc = "hash"
      BY <1>3, <3>1 DEF Hashing, InFlight
    <3> QED
      BY <2>2, <2>3, <3>1, <3>2, <3>3 DEF AloneOn
  <2>4. CASE s # t
    <3>1. /\ InFlight(s)' \subseteq InFlight(s) /\ Counting(s)' \subseteq Counting(s)
          /\ Hashing(s)' \subseteq Hashing(s)
      BY <1>1, <1>3, <2>4 DEF InFlight, Counting, Hashing
    <3> QED
      BY <2>2, <3>1, StaysAlone
  <2> QED
    BY <2>3, <2>4
<1> QED
  BY <1>4 DEF AloneInv

\* A session that is created has no request on it that has read anything.
LEMMA CreatedAlone ==
  ASSUME RecoveryTypeOK, AloneInv, NEW r \in Requests, NEW t \in Sessions, CreateSession(r, t)
  PROVE  AloneInv'
<1>1. /\ \A q \in Requests : q # r => up'[q] = up[q]
      /\ up'[r].session = NoSession /\ up'[r].pc = "idle"
  BY EndsFlight DEF CreateSession
<1>2. /\ row' = [row EXCEPT ![t] = [NoRow EXCEPT !.status = "PENDING", !.locked = TRUE]]
      /\ resets' = resets /\ overlapped' = overlapped /\ row[t].status = "NONE"
  BY DEF CreateSession
<1>3. ASSUME NEW s \in Sessions \ overlapped' PROVE AloneOn(s)'
  <2>1. AloneOn(s)
    BY <1>2 DEF AloneInv
  <2>2. /\ InFlight(s)' \subseteq InFlight(s) /\ Counting(s)' \subseteq Counting(s)
        /\ Hashing(s)' \subseteq Hashing(s)
    BY <1>1, FlightsEnd, Leaving
  <2>3. CASE s = t
    <3>1. /\ row'[s].attempts = 0 /\ ~row'[s].consumed /\ row'[s].status = "PENDING"
          /\ resets'[s] = 0
      BY <1>2, <2>1, <2>3 DEF RecoveryTypeOK, NoRow, AloneOn
    <3> QED
      BY <2>1, <2>2, <3>1, RecoveryAssumption DEF AloneOn
  <2>4. CASE s # t
    BY <1>2, <2>1, <2>2, <2>4, StaysAlone DEF RecoveryTypeOK
  <2> QED
    BY <2>3, <2>4
<1> QED
  BY <1>3 DEF AloneInv

\* The only request on a session counts its try below the limit.
LEMMA CountsAlone ==
  ASSUME RecoveryTypeOK, AloneInv, NEW r \in Requests, CountTry(r)
  PROVE  AloneInv'
<1> DEFINE t == up[r].session
<1>1. t \in Sessions /\ r \in Counting(t) /\ r \in InFlight(t)
  BY OnSessionIsTyped DEF CountTry, OnSession, Counting, InFlight
<1>2. /\ \A q \in Requests : q # r => up'[q] = up[q]
      /\ up'[r].session \in {t, NoSession} /\ up'[r].pc \notin {"count", "hash"}
  BY AfterTry DEF Idle
<1>3. /\ row' = [row EXCEPT ![t].attempts = row[t].attempts + 1]
      /\ resets' = resets /\ overlapped' = overlapped
  BY DEF CountTry, GhostsKept
<1>4. ASSUME NEW s \in Sessions \ overlapped' PROVE AloneOn(s)'
  <2>1. AloneOn(s)
    BY <1>3 DEF AloneInv
  <2>2. /\ InFlight(s)' \subseteq InFlight(s)
        /\ Counting(s)' = Counting(s) \ {r} /\ Hashing(s)' = Hashing(s) \ {r}
    BY <1>2, FlightsEnd, Leaving
  <2>3. CASE s = t
    <3>1. Counting(s)' = {}
      BY <1>1, <2>1, <2>2, <2>3, UnderWayIsInFlight DEF AloneOn
    <3>2. row[s].attempts < MaxAttempts /\ row[s].attempts \in Nat /\ row[s] \in Row
      BY <1>1, <2>1, <2>3 DEF AloneOn, RecoveryTypeOK, Row
    <3>3. row'[s] = [row[s] EXCEPT !.attempts = row[s].attempts + 1]
      BY <1>3, <2>3 DEF RecoveryTypeOK
    <3>4. /\ row'[s].attempts <= MaxAttempts /\ row'[s].consumed = row[s].consumed
          /\ row'[s].status = row[s].status
      BY <3>2, <3>3, RecoveryAssumption DEF Row
    <3> QED
      BY <1>3, <2>1, <2>2, <3>1, <3>4 DEF AloneOn
  <2>4. CASE s # t
    <3>1. row'[s] = row[s]
      BY <1>3, <2>4 DEF RecoveryTypeOK
    <3> QED
      BY <1>3, <2>1, <2>2, <3>1, StaysAlone
  <2> QED
    BY <2>3, <2>4
<1> QED
  BY <1>4 DEF AloneInv

\* The only request on a session sets the first password with it.
LEMMA ResetsAlone ==
  ASSUME RecoveryTypeOK, AloneInv, NEW r \in Requests, CommitReset(r)
  PROVE  AloneInv'
<1> DEFINE t == up[r].session
<1>1. t \in Sessions /\ r \in Hashing(t) /\ r \in InFlight(t)
  BY OnSessionIsTyped DEF CommitReset, OnSession, Hashing, InFlight
<1>2. /\ \A q \in Requests : q # r => up'[q] = up[q]
      /\ up'[r].session = NoSession /\ up'[r].pc = "idle"
  BY EndsFlight DEF CommitReset
<1>3. /\ row' = [row EXCEPT ![t] = [@ EXCEPT !.status = "USED", !.consumed = TRUE]]
      /\ resets' = [resets EXCEPT ![t] = @ + 1] /\ overlapped' = overlapped
  BY DEF CommitReset, GhostsKept
<1>4. ASSUME NEW s \in Sessions \ overlapped' PROVE AloneOn(s)'
  <2>1. AloneOn(s)
    BY <1>3 DEF AloneInv
  <2>2. /\ InFlight(s)' \subseteq InFlight(s)
        /\ Counting(s)' = Counting(s) \ {r} /\ Hashing(s)' = Hashing(s) \ {r}
    BY <1>2, FlightsEnd, Leaving
  <2>3. CASE s = t
    <3>1. Hashing(s)' = {}
      BY <1>1, <2>1, <2>2, <2>3, UnderWayIsInFlight DEF AloneOn
    <3>2. ~row[s].consumed /\ row[s] \in Row /\ resets[s] \in Nat
      BY <1>1, <2>1, <2>3 DEF AloneOn, RecoveryTypeOK
    <3>3. resets[s] = 0
      BY <2>1, <3>2 DEF AloneOn
    <3>4. resets'[s] = 1
      <4>1. resets'[s] = resets[s] + 1
        BY <1>1, <1>3, <2>3 DEF RecoveryTypeOK
      <4> QED
        BY <3>2, <3>3, <4>1
    <3>5. /\ row'[s].attempts = row[s].attempts /\ row'[s].consumed
          /\ row'[s].status = "USED"
      <4>1. row'[s] = [row[s] EXCEPT !.status = "USED", !.consumed = TRUE]
        BY <1>1, <1>3, <2>3 DEF RecoveryTypeOK
      <4> QED
        BY <3>2, <4>1 DEF Row
    <3> QED
      BY <2>1, <2>2, <3>1, <3>4, <3>5 DEF AloneOn
  <2>4. CASE s # t
    <3>1. row'[s] = row[s] /\ resets'[s] = resets[s]
      BY <1>3, <2>4 DEF RecoveryTypeOK
    <3> QED
      BY <2>1, <2>2, <3>1, StaysAlone
  <2> QED
    BY <2>3, <2>4
<1> QED
  BY <1>4 DEF AloneInv

\* Every step keeps what holds of sessions whose requests never overlapped.
LEMMA AloneNext == RecoveryTypeOK /\ AloneInv /\ [Next]_vars => AloneInv'
<1> SUFFICES ASSUME RecoveryTypeOK, AloneInv, [Next]_vars PROVE AloneInv'
  OBVIOUS
<1>1. CASE Quiet
  <2>1. ASSUME NEW s \in Sessions \ overlapped' PROVE AloneOn(s)'
    <3>1. InFlight(s)' \subseteq InFlight(s) /\ s \in Sessions \ overlapped
      BY <1>1, <2>1, QuietFlights
    <3>2. AloneOn(s)
      BY <3>1 DEF AloneInv
    <3> QED
      BY <1>1, <3>1, <3>2, QuietSteps, StaysAlone
  <2> QED
    BY <2>1 DEF AloneInv
<1>2. ASSUME NEW r \in Requests, NEW s \in Sessions, CreateSession(r, s) PROVE AloneInv'
  BY <1>2, CreatedAlone
<1>3. ASSUME NEW r \in Requests, NEW s \in Sessions, NEW right \in BOOLEAN, ConfirmRead(r, s, right)
      PROVE  AloneInv'
  <2>1. PICK pc \in {"expire", "fail", "count"} :
          Enter(r, pc, s, right) /\ (pc = "count" => row[s].attempts < MaxAttempts)
    BY <1>3 DEF ConfirmRead
  <2>2. pc \in OnSession /\ pc # "hash"
    BY DEF OnSession
  <2>3. up[r] = Idle /\ row' = row /\ resets' = resets
    BY <1>3 DEF ConfirmRead
  <2> QED
    BY <2>1, <2>2, <2>3, EnteringAlone
<1>4. ASSUME NEW r \in Requests, NEW s \in Sessions, ResetRead(r, s) PROVE AloneInv'
  <2>1. PICK pc \in {"expire", "hash"} : Enter(r, pc, s, FALSE)
    BY <1>4 DEF ResetRead
  <2>2. pc \in OnSession /\ pc # "count"
    BY DEF OnSession
  <2>3. up[r] = Idle /\ row' = row /\ resets' = resets /\ ~row[s].consumed
    BY <1>4 DEF ResetRead
  <2> QED
    BY <2>1, <2>2, <2>3, EnteringAlone
<1>5. ASSUME NEW r \in Requests, CountTry(r) PROVE AloneInv'
  BY <1>5, CountsAlone
<1>6. ASSUME NEW r \in Requests, CommitReset(r) PROVE AloneInv'
  BY <1>6, ResetsAlone
<1> QED
  BY <1>1, <1>2, <1>3, <1>4, <1>5, <1>6 DEF Next, Quiet

-----------------------------------------------------------------------------
(* The cooldown.                                                           *)

\* A pending code whose resend lock is still running.
Waiting(s) == row[s].status = "PENDING" /\ row[s].locked

\* As long as no two starts overlap, only the newest session can be waiting,
\* and none is once the cooldown was looked at.
OneStart ==
  /\ \A q, r \in Requests : up[q].pc \in Starting /\ up[r].pc \in Starting => q = r
  /\ \A i \in DOMAIN created : Waiting(created[i]) => i = Len(created)
  /\ \A r \in Requests : up[r].pc = "send" => \A s \in Sessions : ~Waiting(s)

CoolInv ==
  /\ \A i \in DOMAIN created : row[created[i]].status # "NONE"
  /\ \A s \in Sessions : row[s].status # "NONE" => \E i \in DOMAIN created : created[i] = s
  /\ \A s \in Sessions : row[s].status = "PENDING" => ~row[s].consumed
  /\ ~rushed => OneStart

\* A row that is neither created nor made to wait by a step.
Ages(s) ==
  /\ row'[s].status = "NONE" <=> row[s].status = "NONE"
  /\ row'[s].status = "PENDING" => row[s].status = "PENDING"
  /\ row'[s].status = "PENDING" => row'[s].consumed = row[s].consumed
  /\ Waiting(s)' => Waiting(s)

\* A step by which rows only age and no start comes or goes on.
LEMMA StaysCool ==
  ASSUME RecoveryTypeOK, CoolInv, created' = created, rushed' = rushed,
         \A s \in Sessions : Ages(s),
         \A r \in Requests : up'[r].pc \in Starting => up'[r].pc = up[r].pc
  PROVE  CoolInv'
<1>1. \A i \in DOMAIN created : created[i] \in Sessions
  BY DEF RecoveryTypeOK
<1>2. \A i \in DOMAIN created' : row'[created'[i]].status # "NONE"
  BY <1>1 DEF CoolInv, Ages
<1>3. \A s \in Sessions : row'[s].status # "NONE" => \E i \in DOMAIN created' : created'[i] = s
  BY DEF CoolInv, Ages
<1>4. \A s \in Sessions : row'[s].status = "PENDING" => ~row'[s].consumed
  BY DEF CoolInv, Ages
<1>5. ASSUME ~rushed' PROVE OneStart'
  <2>1. OneStart
    BY <1>5 DEF CoolInv
  <2>2. \A s \in Sessions : Waiting(s)' => Waiting(s)
    BY DEF Ages
  <2>3. \A q, r \in Requests : up'[q].pc \in Starting /\ up'[r].pc \in Starting => q = r
    BY <2>1 DEF OneStart
  <2>4. ASSUME NEW i \in DOMAIN created', Waiting(created[i])' PROVE i = Len(created')
    <3>1. created'[i] = created[i] /\ i \in DOMAIN created
      BY <2>4
    <3>2. Waiting(created[i])
      BY <1>1, <2>2, <2>4, <3>1 DEF Waiting
    <3> QED
      BY <2>1, <3>1, <3>2 DEF OneStart
  <2>5. ASSUME NEW r \in Requests, up'[r].pc = "send", NEW s \in Sessions PROVE ~Waiting(s)'
    <3>1. up[r].pc = "send"
      BY <2>5 DEF Starting
    <3> QED
      BY <2>1, <2>2, <3>1 DEF OneStart
  <2> QED
    BY <2>3, <2>4, <2>5 DEF OneStart
<1> QED
  BY <1>2, <1>3, <1>4, <1>5 DEF CoolInv

\* A row that is not touched ages.
LEMMA Untouched ==
  ASSUME NEW s \in Sessions, row'[s] = row[s]
  PROVE  Ages(s)
BY DEF Ages, Waiting

\* A row that exists and loses its pending status ages.
LEMMA Settled ==
  ASSUME NEW s \in Sessions, Exists(s), row'[s].status \notin {"NONE", "PENDING"}
  PROVE  Ages(s)
BY DEF Ages, Waiting, Exists

\* A row whose status, lock and consumption are kept, or whose lock ends, ages.
LEMMA Kept ==
  ASSUME NEW s \in Sessions, row'[s].status = row[s].status,
         row'[s].consumed = row[s].consumed, row'[s].locked => row[s].locked
  PROVE  Ages(s)
BY DEF Ages, Waiting

\* A start that looks the account up alone leaves no other start under way.
LEMMA LookupCools ==
  ASSUME RecoveryTypeOK, CoolInv, NEW r \in Requests, StartLookup(r)
  PROVE  CoolInv'
<1>1. /\ row' = row /\ created' = created
      /\ rushed' = (rushed \/ \E q \in Requests : up[q].pc \in Starting)
      /\ \A q \in Requests : q # r => up'[q] = up[q]
  BY DEF StartLookup, RecoveryTypeOK
<1>2. up'[r].pc = "cooldown"
  BY DEF StartLookup, RecoveryTypeOK, Idle
<1>3. ASSUME ~rushed' PROVE OneStart'
  <2>1. OneStart /\ \A q \in Requests : up[q].pc \notin Starting
    BY <1>1, <1>3 DEF CoolInv
  <2>2. \A q \in Requests : up'[q].pc \in Starting => q = r
    BY <1>1, <2>1
  <2>3. \A q \in Requests : up'[q].pc # "send"
    BY <1>2, <2>2 DEF Starting
  <2>4. \A i \in DOMAIN created' : Waiting(created[i])' => i = Len(created')
    BY <1>1, <2>1 DEF OneStart, Waiting
  <2> QED
    BY <2>2, <2>3, <2>4 DEF OneStart
<1> QED
  BY <1>1, <1>3 DEF CoolInv

\* A start goes on to send only when no session waits: the newest one would
\* have asked it to.
LEMMA CooldownCools ==
  ASSUME RecoveryTypeOK, CoolInv, NEW r \in Requests, StartCooldown(r)
  PROVE  CoolInv'
<1>1. /\ row' = row /\ created' = created /\ rushed' = rushed
      /\ up[r].pc = "cooldown" /\ (IF Cooling THEN Done(r) ELSE Goto(r, "send"))
  BY DEF StartCooldown, GhostsKept
<1>2. \A s \in Sessions : Ages(s)
  BY <1>1, Untouched
<1>3. CASE Done(r)
  <2>1. /\ \A q \in Requests : q # r => up'[q] = up[q]
        /\ up'[r].pc \notin Starting
    BY <1>3, EndsFlight DEF Starting
  <2>2. \A q \in Requests : up'[q].pc \in Starting => up'[q].pc = up[q].pc
    BY <2>1
  <2> QED
    BY <1>1, <1>2, <2>2, StaysCool
<1>4. CASE ~Cooling /\ Goto(r, "send")
  <2>1. /\ \A q \in Requests : q # r => up'[q] = up[q]
        /\ up'[r].pc = "send"
    <3>1. up[r] \in AccountRequest
      BY <1>1, StartingIsTyped DEF Starting
    <3> QED
      BY <1>4, <3>1 DEF Goto, RecoveryTypeOK, AccountRequest
  <2>2. ASSUME ~rushed' PROVE OneStart'
    <3>1. OneStart
      BY <1>1, <2>2 DEF CoolInv
    <3>2. ASSUME NEW s \in Sessions, Waiting(s) PROVE FALSE
      <4>1. PICK i \in DOMAIN created : created[i] = s
        BY <3>2 DEF CoolInv, Waiting
      <4>2. i = Len(created)
        BY <3>1, <3>2, <4>1 DEF OneStart
      <4>3. \A j \in DOMAIN created : ~(j > i)
        BY <4>2 DEF RecoveryTypeOK
      <4>4. row[created[i]].status = "PENDING" /\ row[created[i]].locked
            /\ ~row[created[i]].consumed
        BY <3>2, <4>1 DEF CoolInv, Waiting
      <4> QED
        BY <1>4, <4>3, <4>4 DEF Cooling
    <3>3. \A q \in Requests : up'[q].pc \in Starting <=> up[q].pc \in Starting
      BY <1>1, <2>1 DEF Starting
    <3>4. \A i \in DOMAIN created' : Waiting(created[i])' => i = Len(created')
      BY <1>1, <3>1 DEF OneStart, Waiting
    <3>5. \A s \in Sessions : ~Waiting(s)'
      BY <1>1, <3>2 DEF Waiting
    <3> QED
      BY <3>1, <3>3, <3>4, <3>5 DEF OneStart
  <2> QED
    BY <1>1, <2>2 DEF CoolInv
<1> QED
  BY <1>1, <1>3, <1>4

\* The session created is the only one that waits, and its start is over.
LEMMA CreatedCools ==
  ASSUME RecoveryTypeOK, CoolInv, NEW r \in Requests, NEW s \in Sessions, CreateSession(r, s)
  PROVE  CoolInv'
<1> DEFINE n == Len(created)
<1>1. /\ up[r].pc = "send" /\ row[s].status = "NONE" /\ rushed' = rushed
      /\ row' = [row EXCEPT ![s] = [NoRow EXCEPT !.status = "PENDING", !.locked = TRUE]]
      /\ created' = Append(created, s) /\ Done(r)
  BY DEF CreateSession
<1>2. /\ row'[s].status = "PENDING" /\ ~row'[s].consumed
      /\ \A t \in Sessions : t # s => row'[t] = row[t]
  BY <1>1 DEF RecoveryTypeOK, NoRow
<1>3. /\ n \in Nat /\ DOMAIN created = 1 .. n /\ DOMAIN created' = 1 .. (n + 1)
      /\ Len(created') = n + 1 /\ created'[n + 1] = s
      /\ \A i \in 1 .. n : created'[i] = created[i] /\ created[i] \in Sessions
  BY <1>1 DEF RecoveryTypeOK
<1>4. \A i \in 1 .. n : created[i] # s
  BY <1>1, <1>3 DEF CoolInv
<1>5. \A i \in DOMAIN created' : row'[created'[i]].status # "NONE"
  <2>1. \A i \in 1 .. n : row'[created'[i]].status # "NONE"
    BY <1>2, <1>3, <1>4 DEF CoolInv
  <2>2. \A i \in 1 .. (n + 1) : i \in 1 .. n \/ i = n + 1
    BY <1>3
  <2> QED
    BY <1>2, <1>3, <2>1, <2>2
<1>6. ASSUME NEW t \in Sessions, row'[t].status # "NONE"
      PROVE  \E i \in DOMAIN created' : created'[i] = t
  <2>1. CASE t = s
    BY <1>3, <2>1
  <2>2. CASE t # s
    <3>1. PICK i \in DOMAIN created : created[i] = t
      BY <1>2, <1>6, <2>2 DEF CoolInv
    <3>2. i \in 1 .. n /\ i \in 1 .. (n + 1)
      BY <1>3
    <3> QED
      BY <1>3, <3>1, <3>2
  <2> QED
    BY <2>1, <2>2
<1>7. \A t \in Sessions : row'[t].status = "PENDING" => ~row'[t].consumed
  BY <1>2 DEF CoolInv
<1>8. ASSUME ~rushed' PROVE OneStart'
  <2>1. OneStart
    BY <1>1, <1>8 DEF CoolInv
  <2>2. /\ \A q \in Requests : q # r => up'[q] = up[q]
        /\ up'[r].pc = "idle"
    BY <1>1, EndsFlight
  <2>3. \A q \in Requests : up'[q].pc \notin Starting
    <3>1. \A q \in Requests : q # r => up[q].pc \notin Starting
      BY <1>1, <2>1 DEF OneStart, Starting
    <3> QED
      BY <2>2, <3>1 DEF Starting
  <2>4. \A i \in 1 .. n : ~(row'[created'[i]].status = "PENDING" /\ row'[created'[i]].locked)
    <3>1. \A t \in Sessions : ~(row[t].status = "PENDING" /\ row[t].locked)
      BY <1>1, <2>1 DEF OneStart, Waiting
    <3>2. \A i \in 1 .. n : row'[created'[i]] = row[created[i]] /\ created[i] \in Sessions
      BY <1>2, <1>3, <1>4
    <3> QED
      BY <3>1, <3>2
  <2>5. ASSUME NEW i \in DOMAIN created', Waiting(created[i])' PROVE i = Len(created')
    <3>1. i \in 1 .. n \/ i = n + 1
      BY <1>3
    <3>2. row'[created'[i]].status = "PENDING" /\ row'[created'[i]].locked
      BY <2>5 DEF Waiting
    <3> QED
      BY <1>3, <2>4, <3>1, <3>2
  <2>6. \A q \in Requests : up'[q].pc # "send"
    BY <2>3 DEF Starting
  <2> QED
    BY <2>3, <2>5, <2>6 DEF OneStart
<1> QED
  BY <1>5, <1>6, <1>7, <1>8 DEF CoolInv

\* The steps of a handler on a session that end it or go on in it.
LEMMA ServingCools ==
  ASSUME RecoveryTypeOK, CoolInv, NEW r \in Requests,
         CountTry(r) \/ ShutSession(r) \/ VerifySession(r) \/ ExpireSession(r) \/ CommitReset(r)
  PROVE  CoolInv'
<1> DEFINE t == up[r].session
<1>1. /\ t \in Sessions /\ Exists(t) /\ row \in [Sessions -> Row]
      /\ created' = created /\ rushed' = rushed
  <2>1. up[r].pc \in OnSession
    BY DEF CountTry, ShutSession, VerifySession, ExpireSession, CommitReset, OnSession
  <2>2. t \in Sessions
    BY <2>1, OnSessionIsTyped
  <2> QED
    BY <2>2 DEF CountTry, ShutSession, VerifySession, ExpireSession, CommitReset, GhostsKept,
                RecoveryTypeOK
<1>2. \A q \in Requests : up'[q].pc \in Starting => up'[q].pc = up[q].pc
  <2>1. CASE CountTry(r)
    <3>1. up'[r].pc \notin Starting
      BY <2>1, AfterTry DEF Idle, Starting
    <3>2. \A q \in Requests : q # r => up'[q] = up[q]
      BY <2>1, AfterTry
    <3> QED
      BY <3>1, <3>2
  <2>2. CASE Done(r)
    BY <2>2, EndsFlight DEF Starting
  <2> QED
    BY <2>1, <2>2 DEF ShutSession, VerifySession, ExpireSession, CommitReset
<1>3. ASSUME NEW s \in Sessions PROVE Ages(s)
  <2>1. CASE s # t
    <3>1. row'[s] = row[s]
      BY <1>1, <2>1 DEF CountTry, ShutSession, VerifySession, ExpireSession, CommitReset
    <3> QED
      BY <3>1, Untouched
  <2>2. CASE s = t /\ CountTry(r)
    <3>1. row'[s] = [row[s] EXCEPT !.attempts = row[s].attempts + 1]
      BY <1>1, <2>2 DEF CountTry
    <3>2. /\ row'[s].status = row[s].status /\ row'[s].consumed = row[s].consumed
          /\ row'[s].locked = row[s].locked
      BY <1>1, <3>1 DEF Row
    <3> QED
      BY <3>2, Kept
  <2>3. CASE s = t /\ ~CountTry(r)
    <3>1. \/ row'[s] = [row[s] EXCEPT !.status = "FAILED", !.locked = TRUE]
          \/ row'[s] = [row[s] EXCEPT !.status = "VERIFIED", !.tokenExpired = FALSE]
          \/ row'[s] = [row[s] EXCEPT !.status = "EXPIRED"]
          \/ row'[s] = [row[s] EXCEPT !.status = "USED", !.consumed = TRUE]
      BY <1>1, <2>3 DEF ShutSession, VerifySession, ExpireSession, CommitReset
    <3>2. row'[s].status \notin {"NONE", "PENDING"}
      BY <1>1, <3>1 DEF Row
    <3> QED
      BY <1>1, <2>3, <3>2, Settled
  <2> QED
    BY <2>1, <2>2, <2>3
<1> QED
  BY <1>1, <1>2, <1>3, StaysCool

\* Every step keeps the cooldown.
LEMMA CoolNext == RecoveryTypeOK /\ CoolInv /\ [Next]_vars => CoolInv'
<1> SUFFICES ASSUME RecoveryTypeOK, CoolInv, [Next]_vars PROVE CoolInv'
  OBVIOUS
<1>0. row \in [Sessions -> Row]
  BY DEF RecoveryTypeOK
<1>1. ASSUME NEW r \in Requests, StartLookup(r) PROVE CoolInv'
  BY <1>1, LookupCools
<1>2. ASSUME NEW r \in Requests, StartCooldown(r) PROVE CoolInv'
  BY <1>2, CooldownCools
<1>3. ASSUME NEW r \in Requests, NEW s \in Sessions, CreateSession(r, s) PROVE CoolInv'
  BY <1>3, CreatedCools
<1>4. ASSUME NEW r \in Requests,
             CountTry(r) \/ ShutSession(r) \/ VerifySession(r) \/ ExpireSession(r) \/ CommitReset(r)
      PROVE  CoolInv'
  BY <1>4, ServingCools
<1>5. ASSUME NEW r \in Requests, NEW pc \in OnSession, NEW s \in Sessions, NEW right \in BOOLEAN,
             Enter(r, pc, s, right), row' = row, created' = created, rushed' = rushed
      PROVE  CoolInv'
  <2>1. pc \notin Starting
    BY DEF OnSession, Starting
  <2>2. /\ \A q \in Requests : q # r => up'[q] = up[q]
        /\ up'[r].pc \notin Starting
    <3>1. up'[r] = [pc |-> pc, session |-> s, right |-> right]
      BY <1>5, Entering
    <3>2. \A q \in Requests : q # r => up'[q] = up[q]
      BY <1>5, Entering
    <3> QED
      BY <2>1, <3>1, <3>2
  <2>3. \A q \in Requests : up'[q].pc \in Starting => up'[q].pc = up[q].pc
    BY <2>2
  <2>4. \A u \in Sessions : Ages(u)
    BY <1>5, Untouched
  <2> QED
    BY <1>5, <2>3, <2>4, StaysCool
<1>6. ASSUME NEW r \in Requests, NEW s \in Sessions, NEW right \in BOOLEAN, ConfirmRead(r, s, right)
      PROVE  CoolInv'
  <2>1. PICK pc \in {"expire", "fail", "count"} : Enter(r, pc, s, right)
    BY <1>6 DEF ConfirmRead
  <2>2. pc \in OnSession
    BY DEF OnSession
  <2>3. row' = row /\ created' = created /\ rushed' = rushed
    BY <1>6 DEF ConfirmRead
  <2> QED
    BY <1>5, <2>1, <2>2, <2>3
<1>7. ASSUME NEW r \in Requests, NEW s \in Sessions, ResetRead(r, s) PROVE CoolInv'
  <2>1. PICK pc \in {"expire", "hash"} : Enter(r, pc, s, FALSE)
    BY <1>7 DEF ResetRead
  <2>2. pc \in OnSession
    BY DEF OnSession
  <2>3. row' = row /\ created' = created /\ rushed' = rushed
    BY <1>7 DEF ResetRead
  <2> QED
    BY <1>5, <2>1, <2>2, <2>3
<1>8. ASSUME NEW r \in Requests, EraseLookup(r) PROVE CoolInv'
  <2>1. /\ \A q \in Requests : q # r => up'[q] = up[q]
        /\ up'[r].pc \notin Starting
    BY <1>8 DEF EraseLookup, RecoveryTypeOK, Idle, Starting
  <2>2. \A q \in Requests : up'[q].pc \in Starting => up'[q].pc = up[q].pc
    BY <2>1
  <2>3. row' = row /\ created' = created /\ rushed' = rushed
    BY <1>8 DEF EraseLookup, GhostsKept
  <2>4. \A u \in Sessions : Ages(u)
    BY <2>3, Untouched
  <2> QED
    BY <2>2, <2>3, <2>4, StaysCool
<1>9. ASSUME NEW r \in Requests, Done(r), created' = created, rushed' = rushed,
             \A u \in Sessions : Ages(u)
      PROVE  CoolInv'
  <2>1. \A q \in Requests : up'[q].pc \in Starting => up'[q].pc = up[q].pc
    BY <1>9, EndsFlight DEF Starting
  <2> QED
    BY <1>9, <2>1, StaysCool
<1>10. ASSUME NEW r \in Requests, EraseAccount(r) PROVE CoolInv'
  <2>1. /\ Done(r) /\ created' = created /\ rushed' = rushed
        /\ row' = [s \in Sessions |->
                     IF Exists(s) THEN [row[s] EXCEPT !.status = "GONE"] ELSE row[s]]
    BY <1>10 DEF EraseAccount, GhostsKept
  <2>2. ASSUME NEW u \in Sessions PROVE Ages(u)
    <3>1. CASE Exists(u)
      <4>1. row'[u].status = "GONE"
        BY <1>0, <2>1, <3>1 DEF Row
      <4> QED
        BY <3>1, <4>1, Settled
    <3>2. CASE ~Exists(u)
      <4>1. row'[u] = row[u]
        BY <2>1, <3>2
      <4> QED
        BY <4>1, Untouched
    <3> QED
      BY <3>1, <3>2
  <2> QED
    BY <1>9, <2>1, <2>2
<1>11. ASSUME NEW r \in Requests, Stop(r) PROVE CoolInv'
  <2>1. Done(r) /\ row' = row /\ created' = created /\ rushed' = rushed
    BY <1>11 DEF Stop, GhostsKept
  <2>2. \A u \in Sessions : Ages(u)
    BY <2>1, Untouched
  <2> QED
    BY <1>9, <2>1, <2>2
<1>12. ASSUME NEW t \in Sessions, LockEnds(t) \/ CodeExpires(t) \/ TokenExpires(t)
       PROVE  CoolInv'
  <2>1. /\ up' = up /\ created' = created /\ rushed' = rushed
        /\ \/ row' = [row EXCEPT ![t].locked = FALSE]
           \/ row' = [row EXCEPT ![t].codeExpired = TRUE]
           \/ row' = [row EXCEPT ![t].tokenExpired = TRUE]
    BY <1>12 DEF LockEnds, CodeExpires, TokenExpires, GhostsKept
  <2>2. ASSUME NEW u \in Sessions PROVE Ages(u)
    <3>1. CASE u # t
      <4>1. row'[u] = row[u]
        BY <1>0, <2>1, <3>1
      <4> QED
        BY <4>1, Untouched
    <3>2. CASE u = t
      <4>1. \/ row'[u] = [row[u] EXCEPT !.locked = FALSE]
            \/ row'[u] = [row[u] EXCEPT !.codeExpired = TRUE]
            \/ row'[u] = [row[u] EXCEPT !.tokenExpired = TRUE]
        BY <1>0, <2>1, <3>2
      <4>2. row[u] \in Row
        BY <1>0
      <4>3. row'[u].status = row[u].status
        BY <4>1, <4>2 DEF Row
      <4>4. row'[u].consumed = row[u].consumed
        BY <4>1, <4>2 DEF Row
      <4>5. row'[u].locked => row[u].locked
        BY <4>1, <4>2 DEF Row
      <4> QED
        BY <4>3, <4>4, <4>5, Kept
    <3> QED
      BY <3>1, <3>2
  <2> QED
    BY <2>1, <2>2, StaysCool
<1>13. CASE UNCHANGED vars
  <2>1. row' = row /\ up' = up /\ created' = created /\ rushed' = rushed
    BY <1>13 DEF vars
  <2>2. \A u \in Sessions : Ages(u)
    BY <2>1, Untouched
  <2> QED
    BY <2>1, <2>2, StaysCool
<1> QED
  BY <1>1, <1>2, <1>3, <1>4, <1>6, <1>7, <1>8, <1>10, <1>11, <1>12, <1>13 DEF Next

\* What a user whose requests come one after the other can rely on: exactly
\* the configured number of tries, one password change a code, and no second
\* code while a pending one may not be sent again.
THEOREM UndisturbedHolds == Spec => []RecoveryUndisturbed
<1>1. Init => AloneInv /\ CoolInv
  <2> SUFFICES ASSUME Init PROVE AloneInv /\ CoolInv
    OBVIOUS
  <2>1. /\ \A s \in Sessions : row[s] = NoRow /\ resets[s] = 0
        /\ \A r \in Requests : up[r] = Idle
        /\ created = <<>>
    BY DEF Init
  <2>2. NoRow.status = "NONE" /\ NoRow.attempts = 0 /\ Idle.pc = "idle" /\ Idle.session = NoSession
    BY DEF NoRow, Idle
  <2>3. AloneInv
    BY <2>1, <2>2, RecoveryAssumption DEF AloneInv, AloneOn, InFlight, Counting, Hashing
  <2>4. OneStart
    BY <2>1, <2>2 DEF OneStart, Starting
  <2>5. CoolInv
    BY <2>1, <2>2, <2>4 DEF CoolInv
  <2> QED
    BY <2>3, <2>5
<1>2. RecoveryTypeOK /\ AloneInv /\ CoolInv => RecoveryUndisturbed
  <2> SUFFICES ASSUME RecoveryTypeOK, AloneInv, CoolInv PROVE RecoveryUndisturbed
    OBVIOUS
  <2>1. TriesExactUnlessOverlapped /\ ResetOnceUnlessOverlapped
    BY DEF AloneInv, AloneOn, TriesExactUnlessOverlapped, ResetOnceUnlessOverlapped
  <2>2. ASSUME ~rushed, NEW s \in Sessions, NEW t \in Sessions, Waiting(s), Waiting(t)
        PROVE  s = t
    <3>1. OneStart
      BY <2>2 DEF CoolInv
    <3>2. PICK i \in DOMAIN created : created[i] = s
      BY <2>2 DEF CoolInv, Waiting
    <3>3. PICK j \in DOMAIN created : created[j] = t
      BY <2>2 DEF CoolInv, Waiting
    <3> QED
      BY <2>2, <3>1, <3>2, <3>3 DEF OneStart
  <2>3. CooldownUnlessRushed
    BY <2>2 DEF CooldownUnlessRushed, Waiting
  <2> QED
    BY <2>1, <2>3 DEF RecoveryUndisturbed
<1> QED
  BY <1>1, <1>2, AloneNext, CoolNext, RecoveryTypeCorrect, PTL DEF Spec

=============================================================================

------------------------ MODULE PhoneVerificationProofs ------------------------
(***************************************************************************)
(* Proofs about PhoneVerification, for any number of users, phones,        *)
(* sessions and concurrent requests.                                       *)
(***************************************************************************)
EXTENDS PhoneVerification, TLAPS

-----------------------------------------------------------------------------
(* Type correctness.                                                       *)

Accounts ==
  [state : {"absent", "active", "deleted"}, phone : Phones \union {NoPhone}, verified : BOOLEAN]

Rows ==
  [status : {"NONE", "PENDING", "FAILED", "EXPIRED", "VERIFIED", "GONE"},
   owner : Users \union {NoUser}, phone : Phones \union {NoPhone}, attempts : Nat,
   locked : BOOLEAN, codeExpired : BOOLEAN]

\* What a request has in hand, by what it is for.
Starting ==
  [pc : {"available", "cooldown", "send", "phone"}, user : Users, session : {NoSession},
   phone : Phones, seen : Phones \union {NoPhone}, right : {FALSE}]
Confirming ==
  [pc : {"expire", "fail", "recheck", "count", "verify"}, user : Users, session : Sessions,
   phone : Phones, seen : {NoPhone}, right : BOOLEAN]
Registering ==
  [pc : {"create"}, user : Users, session : {NoSession},
   phone : Phones \union {NoPhone}, seen : {NoPhone}, right : {FALSE}]
Erasing ==
  [pc : {"erase"}, user : Users, session : {NoSession},
   phone : {NoPhone}, seen : {NoPhone}, right : {FALSE}]
Served == Starting \union Confirming \union Registering \union Erasing

PhoneTypeOK ==
  /\ user \in [Users -> Accounts]
  /\ row \in [Sessions -> Rows]
  /\ up \in [Requests -> Served \union {Idle}]

\* A session that is being confirmed belongs to the user of the request and is for the
\* phone it has in hand, or is gone; an existing session has an owner and a phone, and
\* only an existing one is locked.
SessionsOK ==
  /\ \A s \in Sessions :
       /\ Exists(s) => row[s].owner \in Users /\ row[s].phone \in Phones
       /\ row[s].locked => Exists(s)
  /\ \A r \in Requests : up[r] \in Confirming =>
       LET s == up[r].session
       IN  /\ row[s].status # "NONE"
           /\ Exists(s) => row[s].owner = up[r].user /\ row[s].phone = up[r].phone

TypeInv == PhoneTypeOK /\ SessionsOK

\* A request is what its place in the handlers says.
LEMMA ServingIsTyped ==
  ASSUME PhoneTypeOK, NEW r \in Requests
  PROVE  /\ up[r].pc = "create" => up[r] \in Registering
         /\ up[r].pc \in {"available", "cooldown", "send", "phone"} => up[r] \in Starting
         /\ up[r].pc \in {"expire", "fail", "recheck", "count", "verify"} => up[r] \in Confirming
         /\ up[r].pc = "erase" => up[r] \in Erasing
         /\ Idle.pc = "idle" /\ Idle.phone = NoPhone
<1>1. up[r] \in Served \union {Idle}
  BY DEF PhoneTypeOK
<1>2. CASE up[r] = Idle
  BY <1>2 DEF Idle
<1>3. CASE up[r] \in Served
  BY <1>3 DEF Served, Idle, Starting, Confirming, Registering, Erasing
<1> QED
  BY <1>1, <1>2, <1>3

\* A request that ends, or that goes on without touching a session.
LEMMA QuietRequest ==
  ASSUME TypeInv, NEW r \in Requests, NEW q \in Served \union {Idle},
         user' \in [Users -> Accounts], row' = row, up' = [up EXCEPT ![r] = q],
         q \in Confirming => /\ row[q.session].status # "NONE"
                             /\ Exists(q.session) => row[q.session].owner = q.user
                                                  /\ row[q.session].phone = q.phone
  PROVE  TypeInv'
<1>1. PhoneTypeOK'
  BY DEF TypeInv, PhoneTypeOK
<1>2. \A s \in Sessions : Exists(s)' = Exists(s)
  BY DEF Exists
<1>3. ASSUME NEW p \in Requests, up'[p] \in Confirming
      PROVE  LET s == up'[p].session
             IN  /\ row[s].status # "NONE"
                 /\ Exists(s) => row[s].owner = up'[p].user /\ row[s].phone = up'[p].phone
  <2>1. CASE p = r
    BY <1>3, <2>1 DEF TypeInv, PhoneTypeOK
  <2>2. CASE p # r
    BY <1>3, <2>2 DEF TypeInv, PhoneTypeOK, SessionsOK
  <2> QED
    BY <2>1, <2>2
<1> QED
  BY <1>1, <1>2, <1>3 DEF TypeInv, SessionsOK, Exists

\* A request ends, or another begins that confirms nothing.
LEMMA PlainRequest ==
  ASSUME TypeInv, NEW r \in Requests,
         NEW q \in Starting \union Registering \union Erasing \union {Idle},
         user' \in [Users -> Accounts], row' = row, up' = [up EXCEPT ![r] = q]
  PROVE  TypeInv'
<1>1. q \in Served \union {Idle}
  BY DEF Served
<1>2. q.pc \notin {"expire", "fail", "recheck", "count", "verify"}
  <2>1. CASE q \in Starting
    BY <2>1 DEF Starting
  <2>2. CASE q \in Registering
    BY <2>2 DEF Registering
  <2>3. CASE q \in Erasing
    BY <2>3 DEF Erasing
  <2>4. CASE q = Idle
    BY <2>4 DEF Idle
  <2> QED
    BY <2>1, <2>2, <2>3, <2>4
<1>3. q \notin Confirming
  BY <1>2 DEF Confirming
<1> QED
  BY <1>1, <1>3, QuietRequest

\* One session changes: it is created, or keeps its owner and phone.
LEMMA SessionStep ==
  ASSUME TypeInv, NEW s \in Sessions, NEW new \in Rows,
         user' \in [Users -> Accounts], row' = [row EXCEPT ![s] = new],
         new.status \notin {"NONE", "GONE"}, new.owner \in Users, new.phone \in Phones,
         \/ row[s].status = "NONE"
         \/ Exists(s) /\ new.owner = row[s].owner /\ new.phone = row[s].phone,
         up' \in [Requests -> Served \union {Idle}],
         \A p \in Requests : up'[p] \in Confirming =>
           /\ up[p] \in Confirming
           /\ up'[p].session = up[p].session
           /\ up'[p].user = up[p].user /\ up'[p].phone = up[p].phone
  PROVE  TypeInv'
<1>1. PhoneTypeOK'
  BY DEF TypeInv, PhoneTypeOK
<1>2. /\ row'[s] = new /\ Exists(s)'
      /\ \A t \in Sessions : t # s => row'[t] = row[t] /\ Exists(t)' = Exists(t)
  BY DEF TypeInv, PhoneTypeOK, Exists
<1>3. \A t \in Sessions : /\ Exists(t)' => row'[t].owner \in Users /\ row'[t].phone \in Phones
                          /\ row'[t].locked => Exists(t)'
  BY <1>2 DEF TypeInv, SessionsOK
<1>4. ASSUME NEW p \in Requests, up'[p] \in Confirming, NEW t \in Sessions, t = up'[p].session
      PROVE  /\ row'[t].status # "NONE"
             /\ row'[t].status # "GONE" => /\ row'[t].owner = up'[p].user
                                           /\ row'[t].phone = up'[p].phone
  <2>1. t = up[p].session
    BY <1>4
  <2>2. /\ row[t].status # "NONE"
        /\ Exists(t) => row[t].owner = up[p].user /\ row[t].phone = up[p].phone
    BY <1>4, <2>1 DEF TypeInv, SessionsOK
  <2>4. CASE t = s
    <3>1. Exists(s) /\ new.owner = row[s].owner /\ new.phone = row[s].phone
      BY <2>2, <2>4
    <3> QED
      BY <1>2, <1>4, <2>2, <2>4, <3>1 DEF Exists
  <2>5. CASE t # s
    BY <1>2, <1>4, <2>1, <2>2, <2>5 DEF Exists
  <2> QED
    BY <2>4, <2>5
<1>5. \A p \in Requests : up'[p] \in Confirming => up'[p].session \in Sessions
  BY DEF Confirming
<1> QED
  BY <1>1, <1>3, <1>4, <1>5 DEF TypeInv, SessionsOK, Exists

\* The steps of registration, of a start before its session, and of a deletion's look.
LEMMA RegisterStartKeepType ==
  ASSUME TypeInv, NEW r \in Requests,
         \/ \E u \in Users : \/ EraseLookup(r, u)
                             \/ \E p \in Phones \union {NoPhone} : RegisterCheck(r, u, p)
                             \/ \E p \in Phones : StartLookup(r, u, p)
         \/ CreateUser(r) \/ StartAvailable(r) \/ StartCooldown(r) \/ SetPhone(r) \/ Stop(r)
  PROVE  TypeInv'
<1> USE DEF TypeInv, PhoneTypeOK
<1>1. ASSUME NEW u \in Users, EraseLookup(r, u) PROVE TypeInv'
  <2>1. [Idle EXCEPT !.pc = "erase", !.user = u] \in Erasing
    BY DEF Idle, Erasing
  <2> QED
    BY <1>1, <2>1, PlainRequest DEF EraseLookup, Enter
<1>2. ASSUME NEW u \in Users, NEW p \in Phones \union {NoPhone}, RegisterCheck(r, u, p) PROVE TypeInv'
  <2>1. [Idle EXCEPT !.pc = "create", !.user = u, !.phone = p] \in Registering
    BY DEF Idle, Registering
  <2> QED
    BY <1>2, <2>1, PlainRequest DEF RegisterCheck, Enter
<1>3. ASSUME NEW u \in Users, NEW p \in Phones, StartLookup(r, u, p) PROVE TypeInv'
  <2>1. [Idle EXCEPT !.pc = "available", !.user = u, !.phone = p, !.seen = user[u].phone] \in Starting
    BY DEF Idle, Starting, Accounts
  <2> QED
    BY <1>3, <2>1, PlainRequest DEF StartLookup, Enter
<1>4. CASE CreateUser(r)
  <2>1. up[r] \in Registering
    BY <1>4, ServingIsTyped DEF CreateUser
  <2>2. user' \in [Users -> Accounts]
    BY <1>4, <2>1 DEF CreateUser, Registering, Accounts
  <2> QED
    BY <1>4, <2>2, PlainRequest DEF CreateUser, Done
<1>5. CASE StartAvailable(r) \/ StartCooldown(r)
  <2>1. up[r] \in Starting
    BY <1>5, ServingIsTyped DEF StartAvailable, StartCooldown
  <2>2. [up[r] EXCEPT !.pc = "cooldown"] \in Starting /\ [up[r] EXCEPT !.pc = "send"] \in Starting
    BY <2>1 DEF Starting
  <2>3. \/ up' = [up EXCEPT ![r] = [up[r] EXCEPT !.pc = "cooldown"]]
        \/ up' = [up EXCEPT ![r] = [up[r] EXCEPT !.pc = "send"]]
        \/ up' = [up EXCEPT ![r] = Idle]
    BY <1>5 DEF StartAvailable, StartCooldown, Goto, Done
  <2>4. user' = user /\ row' = row
    BY <1>5 DEF StartAvailable, StartCooldown
  <2> QED
    BY <2>2, <2>3, <2>4, PlainRequest
<1>6. CASE SetPhone(r)
  <2>1. up[r] \in Starting
    BY <1>6, ServingIsTyped DEF SetPhone
  <2>2. user' \in [Users -> Accounts]
    BY <1>6, <2>1, ZenonT(60) DEF SetPhone, Starting, Accounts
  <2> QED
    BY <1>6, <2>2, PlainRequest DEF SetPhone, Done
<1>7. CASE Stop(r)
  BY <1>7, PlainRequest DEF Stop, Done
<1> QED
  BY <1>1, <1>2, <1>3, <1>4, <1>5, <1>6, <1>7

\* The looks of a confirmation.
LEMMA ConfirmLooksKeepType ==
  ASSUME TypeInv, NEW r \in Requests,
         \/ \E u \in Users, s \in Sessions, right \in BOOLEAN : ConfirmRead(r, u, s, right)
         \/ ConfirmRecheck(r)
  PROVE  TypeInv'
<1> USE DEF TypeInv, PhoneTypeOK
<1>1. ASSUME NEW u \in Users, NEW s \in Sessions, NEW right \in BOOLEAN, ConfirmRead(r, u, s, right)
      PROVE  TypeInv'
  <2>1. PICK pc \in {"expire", "fail", "recheck"} :
          up' = [up EXCEPT ![r] = [Idle EXCEPT !.pc = pc, !.user = u, !.session = s,
                                               !.phone = row[s].phone, !.right = right]]
    BY <1>1, ZenonT(60) DEF ConfirmRead, Enter
  <2>2. /\ row[s].owner = u /\ row[s].status = "PENDING" /\ row[s].phone \in Phones
        /\ user' = user /\ row' = row
    BY <1>1 DEF ConfirmRead, SessionsOK, Exists
  <2> DEFINE q == [Idle EXCEPT !.pc = pc, !.user = u, !.session = s,
                               !.phone = row[s].phone, !.right = right]
  <2>3. /\ q \in Served
        /\ q.session = s /\ q.user = u /\ q.phone = row[s].phone
    BY <2>2 DEF Idle, Confirming, Served
  <2> HIDE DEF q
  <2> QED
    BY <2>1, <2>2, <2>3, QuietRequest DEF q
<1>2. CASE ConfirmRecheck(r)
  <2> DEFINE q == [up[r] EXCEPT !.pc = "count"]
  <2>1. up[r] \in Confirming
    BY <1>2, ServingIsTyped DEF ConfirmRecheck
  <2>2. /\ q \in Served
        /\ q.session = up[r].session /\ q.user = up[r].user /\ q.phone = up[r].phone
    BY <2>1 DEF Confirming, Served
  <2>3. up' = [up EXCEPT ![r] = q] \/ up' = [up EXCEPT ![r] = Idle]
    BY <1>2 DEF ConfirmRecheck, Goto, Done
  <2>4. user' = user /\ row' = row
    BY <1>2 DEF ConfirmRecheck
  <2>5. CASE up' = [up EXCEPT ![r] = Idle]
    BY <2>4, <2>5, PlainRequest
  <2>6. CASE up' = [up EXCEPT ![r] = q]
    <3>1. /\ row[q.session].status # "NONE"
          /\ Exists(q.session) => row[q.session].owner = q.user /\ row[q.session].phone = q.phone
      BY <2>1, <2>2 DEF SessionsOK
    <3> HIDE DEF q
    <3> QED
      BY <2>2, <2>4, <2>6, <3>1, QuietRequest
  <2> QED
    BY <2>3, <2>5, <2>6
<1> QED
  BY <1>1, <1>2

\* The statements that write a session.
LEMMA SessionWritesKeepType ==
  ASSUME TypeInv, NEW r \in Requests,
         \/ \E s \in Sessions : CreateSession(r, s)
         \/ CountTry(r) \/ CloseSession(r) \/ VerifyPhone(r)
  PROVE  TypeInv'
<1> USE DEF TypeInv, PhoneTypeOK
<1>1. Idle \notin Confirming
  BY DEF Idle, Confirming
<1>2. ASSUME NEW s \in Sessions, CreateSession(r, s) PROVE TypeInv'
  <2> DEFINE new == [NoRow EXCEPT !.status = "PENDING", !.locked = TRUE,
                                  !.owner = up[r].user, !.phone = up[r].phone]
             q == [up[r] EXCEPT !.pc = "phone"]
  <2>1. up[r] \in Starting
    BY <1>2, ServingIsTyped DEF CreateSession
  <2>2. /\ new \in Rows /\ new.status = "PENDING" /\ new.owner \in Users /\ new.phone \in Phones
        /\ q \in Served /\ q \notin Confirming
    BY <2>1 DEF Starting, Confirming, Served, Rows, NoRow
  <2>3. /\ row' = [row EXCEPT ![s] = new] /\ row[s].status = "NONE" /\ user' = user
        /\ up' = [up EXCEPT ![r] = q] \/ up' = [up EXCEPT ![r] = Idle]
    BY <1>2 DEF CreateSession, Goto, Done
  <2> HIDE DEF new, q
  <2>4. /\ up' \in [Requests -> Served \union {Idle}]
        /\ \A p \in Requests : up'[p] \in Confirming => up'[p] = up[p]
    BY <1>1, <2>2, <2>3
  <2> QED
    BY <2>2, <2>3, <2>4, SessionStep
<1>3. CASE CountTry(r) \/ CloseSession(r) \/ VerifyPhone(r)
  <2> DEFINE s == up[r].session
  <2>1. /\ up[r] \in Confirming /\ s \in Sessions /\ Exists(s)
    BY <1>3, ServingIsTyped DEF CountTry, CloseSession, VerifyPhone, Confirming
  <2>2. row[s].owner \in Users /\ row[s].phone \in Phones /\ row[s] \in Rows /\ row[s].attempts \in Nat
    BY <2>1 DEF SessionsOK, Rows
  <2>3. CASE CountTry(r)
    <3> DEFINE new == [row[s] EXCEPT !.attempts = @ + 1]
               verify == [up[r] EXCEPT !.pc = "verify"]
               fail == [up[r] EXCEPT !.pc = "fail"]
    <3>1. /\ new \in Rows /\ new.status = row[s].status
          /\ new.owner = row[s].owner /\ new.phone = row[s].phone
      BY <2>2 DEF Rows
    <3>2. /\ row' = [row EXCEPT ![s] = new] /\ user' = user
          /\ \/ up' = [up EXCEPT ![r] = verify]
             \/ up' = [up EXCEPT ![r] = fail]
             \/ up' = [up EXCEPT ![r] = Idle]
      BY <2>3 DEF CountTry, Goto, Done
    <3>3. /\ verify \in Served /\ fail \in Served /\ fail.pc = "fail"
          /\ \A q \in {verify, fail} :
               q.session = s /\ q.user = up[r].user /\ q.phone = up[r].phone
      BY <2>1 DEF Confirming, Served
    <3> HIDE DEF new, verify, fail
    <3>4. /\ up' \in [Requests -> Served \union {Idle}]
          /\ \A p \in Requests : up'[p] \in Confirming =>
               /\ up[p] \in Confirming
               /\ up'[p].session = up[p].session
               /\ up'[p].user = up[p].user /\ up'[p].phone = up[p].phone
      BY <1>1, <2>1, <3>2, <3>3
    <3> QED
      BY <2>1, <2>2, <3>1, <3>2, <3>4, SessionStep, ZenonT(60) DEF Exists
  <2>4. CASE CloseSession(r) \/ VerifyPhone(r)
    <3>1. PICK new \in Rows :
            /\ row' = [row EXCEPT ![s] = new] /\ new.status \in {"FAILED", "EXPIRED", "VERIFIED"}
            /\ new.owner = row[s].owner /\ new.phone = row[s].phone
      <4> DEFINE failed == [row[s] EXCEPT !.status = "FAILED", !.locked = TRUE]
                 expired == [row[s] EXCEPT !.status = "EXPIRED"]
                 verified == [row[s] EXCEPT !.status = "VERIFIED"]
      <4>1. \A new \in {failed, expired, verified} :
              /\ new \in Rows /\ new.status \in {"FAILED", "EXPIRED", "VERIFIED"}
              /\ new.owner = row[s].owner /\ new.phone = row[s].phone
        BY <2>2 DEF Rows
      <4>2. \E new \in {failed, expired, verified} : row' = [row EXCEPT ![s] = new]
        BY <2>4 DEF CloseSession, VerifyPhone
      <4> QED
        BY <4>1, <4>2
    <3>2. user' \in [Users -> Accounts]
      <4>1. up[r].user \in Users /\ up[r].phone \in Phones
        BY <2>1 DEF Confirming
      <4>2. CASE CloseSession(r)
        BY <4>2 DEF CloseSession
      <4>3. CASE VerifyPhone(r)
        BY <4>1, <4>3 DEF VerifyPhone, Accounts
      <4> QED
        BY <2>4, <4>2, <4>3
    <3>3. up' = [up EXCEPT ![r] = Idle]
      BY <2>4 DEF CloseSession, VerifyPhone, Done
    <3>4. /\ up' \in [Requests -> Served \union {Idle}]
          /\ \A p \in Requests : up'[p] \in Confirming => up'[p] = up[p]
      BY <1>1, <3>3
    <3>5. new.owner \in Users /\ new.phone \in Phones
      BY <2>2, <3>1
    <3>6. Exists(s) /\ new.status \notin {"NONE", "GONE"}
      BY <2>1, <3>1
    <3> HIDE DEF s
    <3> QED
      BY <2>1, <3>1, <3>2, <3>4, <3>5, <3>6, SessionStep
  <2> QED
    BY <1>3, <2>3, <2>4
<1> QED
  BY <1>2, <1>3

\* The deletion, and deadlines that pass.
LEMMA RestKeepsType ==
  ASSUME TypeInv,
         \/ \E r \in Requests : EraseAccount(r)
         \/ \E s \in Sessions : LockEnds(s) \/ CodeExpires(s)
  PROVE  TypeInv'
<1> USE DEF TypeInv, PhoneTypeOK
<1>1. ASSUME NEW r \in Requests, EraseAccount(r) PROVE TypeInv'
  <2>1. up[r] \in Erasing
    BY <1>1, ServingIsTyped DEF EraseAccount
  <2>2. Gone \in Rows /\ Gone.status = "GONE" /\ Gone.locked = FALSE
    BY DEF Gone, NoRow, Rows
  <2>3. /\ user' \in [Users -> Accounts] /\ up' = [up EXCEPT ![r] = Idle]
        /\ \A s \in Sessions : row'[s] \in {row[s], Gone}
        /\ row' \in [Sessions -> Rows]
    BY <1>1, <2>1, <2>2 DEF EraseAccount, Done, Erasing, Accounts
  <2>4. \A p \in Requests : up'[p] \in Confirming => up'[p] = up[p] /\ up[p].session \in Sessions
    BY <2>3 DEF Idle, Confirming
  <2>5. PhoneTypeOK'
    BY <2>3
  <2> QED
    BY <2>2, <2>3, <2>4, <2>5 DEF SessionsOK, Exists
<1>2. ASSUME NEW s \in Sessions, LockEnds(s) \/ CodeExpires(s) PROVE TypeInv'
  <2>1. Exists(s)
    BY <1>2 DEF LockEnds, CodeExpires, SessionsOK, Exists
  <2>2. row[s] \in Rows /\ row[s].owner \in Users /\ row[s].phone \in Phones /\ row[s].attempts \in Nat
    BY <2>1 DEF SessionsOK, Rows
  <2>3. PICK new \in Rows :
          /\ row' = [row EXCEPT ![s] = new] /\ new.status = row[s].status
          /\ new.owner = row[s].owner /\ new.phone = row[s].phone
    <3> DEFINE free == [row[s] EXCEPT !.locked = FALSE]
               expired == [row[s] EXCEPT !.codeExpired = TRUE]
    <3>1. \A new \in {free, expired} :
            /\ new \in Rows /\ new.status = row[s].status
            /\ new.owner = row[s].owner /\ new.phone = row[s].phone
      BY <2>2 DEF Rows
    <3>2. \E new \in {free, expired} : row' = [row EXCEPT ![s] = new]
      BY <1>2 DEF LockEnds, CodeExpires
    <3> QED
      BY <3>1, <3>2
  <2>4. user' = user /\ up' = up
    BY <1>2 DEF LockEnds, CodeExpires
  <2>5. row[s].status \notin {"NONE", "GONE"}
    BY <2>1 DEF Exists
  <2>6. new.owner \in Users /\ new.phone \in Phones
    BY <2>2, <2>3
  <2>7. user' \in [Users -> Accounts] /\ up' \in [Requests -> Served \union {Idle}]
    BY <2>4
  <2> QED
    BY <2>1, <2>3, <2>4, <2>5, <2>6, <2>7, SessionStep
<1> QED
  BY <1>1, <1>2

\* Every reachable state is well typed, and a request that confirms a session keeps
\* to its user and phone.
THEOREM PhoneTypeCorrect == Spec => []TypeInv
<1>1. Init => TypeInv
  BY DEF Init, TypeInv, PhoneTypeOK, SessionsOK, Accounts, Rows, NoRow, Exists, Idle, Confirming
<1>2. TypeInv /\ [Next]_vars => TypeInv'
  <2>1. CASE UNCHANGED vars
    BY <2>1 DEF vars, TypeInv, PhoneTypeOK, SessionsOK, Exists
  <2>2. CASE Next
    BY <2>2, RegisterStartKeepType, ConfirmLooksKeepType, SessionWritesKeepType, RestKeepsType DEF Next
  <2> QED
    BY <2>1, <2>2
<1> QED
  BY <1>1, <1>2, PTL DEF Spec

-----------------------------------------------------------------------------
(* Verified phones.                                                        *)

\* The session whose code was entered right is still there.
Confirmed(u) ==
  \E s \in entered : Exists(s) /\ row[s].owner = u /\ row[s].phone = user[u].phone

\* A request is about to verify only what was entered right, and each verified user has
\* such a session for the phone it holds.
RightCodes ==
  /\ entered \subseteq Sessions
  /\ \A r \in Requests : up[r].pc = "verify" => up[r].session \in entered
UsersConfirmed == \A u \in Users : user[u].verified => Confirmed(u)

ConfirmedInv == RightCodes /\ UsersConfirmed

\* A session that is not taken away keeps what it confirmed.
LEMMA GrowthKeepsConfirmed ==
  ASSUME ConfirmedInv, NEW u \in Users, entered \subseteq entered',
         user'[u].verified => user[u].verified /\ user'[u].phone = user[u].phone,
         \A s \in Sessions : Exists(s) /\ row[s].owner = u =>
           Exists(s)' /\ row'[s].owner = u /\ row'[s].phone = row[s].phone
  PROVE  user'[u].verified => Confirmed(u)'
BY SMTT(30) DEF ConfirmedInv, RightCodes, UsersConfirmed, Confirmed

\* A request that ends, or goes on with its session to anything but the verification.
LEMMA PathKeepsEntered ==
  ASSUME TypeInv, RightCodes, NEW r \in Requests, NEW q, q.pc # "verify",
         up' = [up EXCEPT ![r] = q], entered \subseteq entered'
  PROVE  \A p \in Requests : up'[p].pc = "verify" => up'[p].session \in entered'
BY DEF TypeInv, PhoneTypeOK, RightCodes

\* Only a code that was entered right leads to the verification.
LEMMA OnlyRightVerifies ==
  ASSUME TypeInv, RightCodes, Next
  PROVE  entered \subseteq entered' /\ RightCodes'
<1> USE DEF TypeInv, PhoneTypeOK
<1> DEFINE Goal == /\ entered \subseteq entered' /\ entered' \subseteq Sessions
                   /\ \A p \in Requests : up'[p].pc = "verify" => up'[p].session \in entered'
<1>1. ASSUME NEW r \in Requests, CountTry(r) PROVE Goal
  <2>1. up[r] \in Confirming /\ up[r].session \in Sessions
    BY <1>1, ServingIsTyped DEF CountTry, Confirming
  <2>2. entered \subseteq entered' /\ entered' \subseteq Sessions
    BY <1>1, <2>1 DEF CountTry, RightCodes
  <2>3. CASE up[r].right
    <3>1. up' = [up EXCEPT ![r].pc = "verify"] /\ entered' = entered \union {up[r].session}
      BY <1>1, <2>3 DEF CountTry, Goto
    <3>2. up'[r].session = up[r].session /\ \A p \in Requests : p # r => up'[p] = up[p]
      BY <2>1, <3>1 DEF Confirming
    <3> QED
      BY <2>2, <3>1, <3>2 DEF RightCodes
  <2>4. CASE ~up[r].right
    <3>1. up' = [up EXCEPT ![r] = [up[r] EXCEPT !.pc = "fail"]] \/ up' = [up EXCEPT ![r] = Idle]
      BY <1>1, <2>4 DEF CountTry, Goto, Done
    <3>2. [up[r] EXCEPT !.pc = "fail"].pc = "fail" /\ Idle.pc = "idle"
      BY <2>1 DEF Confirming, Idle
    <3> QED
      BY <2>2, <3>1, <3>2, PathKeepsEntered
  <2> QED
    BY <2>3, <2>4
<1>2. ASSUME NEW r \in Requests, NEW q, q.pc # "verify", up' = [up EXCEPT ![r] = q],
             entered' = entered
      PROVE  Goal
  BY <1>2, PathKeepsEntered DEF RightCodes
<1>3. ASSUME NEW r \in Requests, Done(r), entered' = entered PROVE Goal
  BY <1>2, <1>3 DEF Done, Idle
<1>4. ASSUME NEW r \in Requests, NEW pc \in {"cooldown", "send", "phone", "count"}, Goto(r, pc),
             entered' = entered
      PROVE  Goal
  <2>1. up[r] \in Served \union {Idle}
    OBVIOUS
  <2>2. [up[r] EXCEPT !.pc = pc].pc = pc
    BY <2>1 DEF Served, Starting, Confirming, Registering, Erasing, Idle
  <2>3. up' = [up EXCEPT ![r] = [up[r] EXCEPT !.pc = pc]]
    BY <1>4 DEF Goto
  <2> QED
    BY <1>2, <1>4, <2>2, <2>3
<1>5. ASSUME NEW r \in Requests, NEW u \in Users,
             \/ EraseLookup(r, u)
             \/ \E p \in Phones \union {NoPhone} : RegisterCheck(r, u, p)
             \/ \E p \in Phones : StartLookup(r, u, p)
             \/ \E s \in Sessions, right \in BOOLEAN : ConfirmRead(r, u, s, right)
      PROVE  Goal
  <2>1. ASSUME NEW q, Enter(r, q), q.pc # "verify", entered' = entered PROVE Goal
    BY <1>2, <2>1 DEF Enter
  <2>2. CASE EraseLookup(r, u)
    BY <2>1, <2>2 DEF EraseLookup, Idle
  <2>3. ASSUME NEW p \in Phones \union {NoPhone}, RegisterCheck(r, u, p) PROVE Goal
    BY <2>1, <2>3 DEF RegisterCheck, Idle
  <2>4. ASSUME NEW p \in Phones, StartLookup(r, u, p) PROVE Goal
    BY <2>1, <2>4 DEF StartLookup, Idle
  <2>5. ASSUME NEW s \in Sessions, NEW right \in BOOLEAN, ConfirmRead(r, u, s, right) PROVE Goal
    <3>1. PICK pc \in {"expire", "fail", "recheck"} :
            Enter(r, [Idle EXCEPT !.pc = pc, !.user = u, !.session = s,
                                  !.phone = row[s].phone, !.right = right])
      BY <2>5 DEF ConfirmRead
    <3>2. [Idle EXCEPT !.pc = pc, !.user = u, !.session = s,
                       !.phone = row[s].phone, !.right = right].pc = pc
      BY DEF Idle
    <3>3. entered' = entered
      BY <2>5 DEF ConfirmRead
    <3> QED
      BY <2>1, <3>1, <3>2, <3>3
  <2> HIDE DEF Goal
  <2> QED
    BY <1>5, <2>2, <2>3, <2>4, <2>5
<1>6. ASSUME NEW r \in Requests, NEW s \in Sessions, CreateSession(r, s) PROVE Goal
  BY <1>3, <1>4, <1>6 DEF CreateSession
<1>7. ASSUME NEW s \in Sessions, LockEnds(s) \/ CodeExpires(s) PROVE Goal
  BY <1>7 DEF LockEnds, CodeExpires, RightCodes
<1>8. ASSUME NEW r \in Requests,
             \/ CreateUser(r) \/ StartAvailable(r) \/ StartCooldown(r) \/ SetPhone(r)
             \/ ConfirmRecheck(r) \/ CloseSession(r) \/ VerifyPhone(r) \/ EraseAccount(r) \/ Stop(r)
      PROVE  Goal
  BY <1>3, <1>4, <1>8 DEF CreateUser, StartAvailable, StartCooldown, SetPhone, ConfirmRecheck,
     CloseSession, VerifyPhone, EraseAccount, Stop
<1> HIDE DEF Goal
<1>9. Goal
  BY ZenonT(60), <1>1, <1>5, <1>6, <1>7, <1>8 DEF Next
<1> QED
  BY <1>9 DEF Goal, RightCodes

\* What a step does to users and sessions, as far as verification goes.
LEMMA ConfirmedStep ==
  ASSUME TypeInv, ConfirmedInv, Next
  PROVE  UsersConfirmed'
<1> USE DEF TypeInv, PhoneTypeOK
<1>0. entered \subseteq entered' /\ entered' \subseteq Sessions
  BY OnlyRightVerifies DEF ConfirmedInv, RightCodes
<1>1. ASSUME NEW r \in Requests, VerifyPhone(r) PROVE UsersConfirmed'
  <2>1. PICK s \in Sessions, u \in Users :
          /\ s = up[r].session /\ u = up[r].user
          /\ Exists(s) /\ row[s].owner = u /\ row[s].phone = up[r].phone /\ s \in entered
          /\ up[r].phone \in Phones
    BY <1>1, ServingIsTyped DEF VerifyPhone, SessionsOK, Confirming, ConfirmedInv, RightCodes
  <2>2. /\ row' = [row EXCEPT ![s].status = "VERIFIED"]
        /\ user' = [user EXCEPT ![u] = [@ EXCEPT !.phone = up[r].phone, !.verified = TRUE]]
    BY <1>1, <2>1 DEF VerifyPhone
  <2>3. /\ Exists(s)' /\ row'[s].owner = u /\ row'[s].phone = up[r].phone
        /\ user'[u].phone = up[r].phone
    BY <2>1, <2>2 DEF Exists, Rows, Accounts
  <2>4. Confirmed(u)'
    BY <1>0, <2>1, <2>3 DEF Confirmed
  <2>5. ASSUME NEW v \in Users, v # u PROVE user'[v].verified => Confirmed(v)'
    <3>1. user'[v] = user[v]
      BY <2>2, <2>5
    <3>2. \A t \in Sessions : Exists(t) /\ row[t].owner = v =>
            /\ Exists(t)' /\ row'[t].owner = v /\ row'[t].phone = row[t].phone
      BY <2>1, <2>2, <2>5 DEF Exists
    <3> QED
      BY <3>1, <3>2, <1>0, GrowthKeepsConfirmed
  <2> QED
    BY <2>4, <2>5 DEF UsersConfirmed
<1>2. ASSUME NEW r \in Requests, EraseAccount(r) PROVE UsersConfirmed'
  <2>1. PICK u \in Users : u = up[r].user
    BY <1>2, ServingIsTyped DEF EraseAccount, Erasing
  <2>2. /\ user' = [user EXCEPT ![u] = [state |-> "deleted", phone |-> NoPhone, verified |-> FALSE]]
        /\ \A s \in Sessions : row[s].owner # u => row'[s] = row[s]
    BY <1>2, <2>1 DEF EraseAccount
  <2>3. ASSUME NEW v \in Users, v # u PROVE user'[v].verified => Confirmed(v)'
    <3>1. user'[v] = user[v]
      BY <2>2, <2>3
    <3> QED
      BY <2>2, <2>3, <3>1, <1>0, GrowthKeepsConfirmed DEF Exists
  <2>4. ~user'[u].verified
    BY <2>2
  <2> QED
    BY <2>3, <2>4 DEF UsersConfirmed
<1>3. ASSUME row' = row,
             \A u \in Users : user'[u].verified => user[u].verified /\ user'[u].phone = user[u].phone
      PROVE  UsersConfirmed'
  BY <1>3, <1>0, GrowthKeepsConfirmed DEF UsersConfirmed, Exists
<1>4. ASSUME NEW r \in Requests, CreateUser(r) \/ SetPhone(r) PROVE UsersConfirmed'
  <2>1. up[r].user \in Users
    <3>1. up[r] \in Registering \/ up[r] \in Starting
      BY <1>4, ServingIsTyped DEF CreateUser, SetPhone
    <3> QED
      BY <3>1 DEF Starting, Registering
  <2>2. \A u \in Users : user'[u].verified => user[u].verified /\ user'[u].phone = user[u].phone
    <3>1. CASE CreateUser(r)
      BY <2>1, <3>1 DEF CreateUser
    <3>2. CASE SetPhone(r)
      BY <2>1, <3>2 DEF SetPhone, Accounts
    <3> QED
      BY <1>4, <3>1, <3>2
  <2> QED
    BY <1>3, <1>4, <2>2 DEF CreateUser, SetPhone
<1>5. ASSUME NEW s \in Sessions, user' = user, NEW new \in Rows, row' = [row EXCEPT ![s] = new],
             Exists(s) => /\ new.status \notin {"NONE", "GONE"} /\ new.owner = row[s].owner
                          /\ new.phone = row[s].phone
      PROVE  UsersConfirmed'
  BY <1>5, <1>0, GrowthKeepsConfirmed DEF UsersConfirmed, Exists
<1>6. ASSUME NEW r \in Requests, NEW s \in Sessions, CreateSession(r, s) PROVE UsersConfirmed'
  <2> DEFINE new == [NoRow EXCEPT !.status = "PENDING", !.locked = TRUE,
                                  !.owner = up[r].user, !.phone = up[r].phone]
  <2>1. up[r] \in Starting
    BY <1>6, ServingIsTyped DEF CreateSession
  <2>2. new \in Rows
    BY <2>1 DEF Starting, Rows, NoRow
  <2>3. row' = [row EXCEPT ![s] = new] /\ ~Exists(s) /\ user' = user
    BY <1>6 DEF CreateSession, Exists
  <2> HIDE DEF new
  <2> QED
    BY <1>5, <2>2, <2>3
<1>7. ASSUME NEW r \in Requests, CountTry(r) \/ CloseSession(r) PROVE UsersConfirmed'
  <2>1. PICK s \in Sessions : s = up[r].session
    BY <1>7, ServingIsTyped DEF CountTry, CloseSession, Confirming
  <2>2. row[s] \in Rows /\ row[s].attempts \in Nat /\ Exists(s)
    BY <1>7, <2>1 DEF Rows, CountTry, CloseSession
  <2> DEFINE counted == [row[s] EXCEPT !.attempts = @ + 1]
             failed == [row[s] EXCEPT !.status = "FAILED", !.locked = TRUE]
             expired == [row[s] EXCEPT !.status = "EXPIRED"]
  <2>3. /\ user' = user
        /\ \E new \in {counted, failed, expired} : row' = [row EXCEPT ![s] = new]
    BY <1>7, <2>1 DEF CountTry, CloseSession
  <2>4. \A new \in {counted, failed, expired} :
          /\ new \in Rows
          /\ new.status \notin {"NONE", "GONE"} /\ new.owner = row[s].owner
          /\ new.phone = row[s].phone
    <3>1. counted \in Rows /\ failed \in Rows /\ expired \in Rows
      <4>1. ASSUME NEW old \in Rows
            PROVE  /\ [old EXCEPT !.attempts = @ + 1] \in Rows
                   /\ [old EXCEPT !.status = "FAILED", !.locked = TRUE] \in Rows
                   /\ [old EXCEPT !.status = "EXPIRED"] \in Rows
        <5>1. old.attempts \in Nat /\ old.attempts + 1 \in Nat
          BY DEF Rows
        <5> QED
          BY <5>1 DEF Rows
      <4> QED
        BY <2>2, <4>1
    <3>2. /\ counted = [row[s] EXCEPT !.attempts = row[s].attempts + 1]
          /\ row[s].status \notin {"NONE", "GONE"}
      BY <2>2 DEF Exists
    <3> QED
      BY <2>2, <3>1, <3>2, ZenonT(60) DEF Rows
  <2> HIDE DEF counted, failed, expired
  <2> QED
    BY <1>5, <2>3, <2>4
<1>8. ASSUME NEW s \in Sessions, LockEnds(s) \/ CodeExpires(s) PROVE UsersConfirmed'
  <2>1. user' = user /\ \A t \in Sessions : /\ row'[t].status = row[t].status
                                           /\ row'[t].owner = row[t].owner
                                           /\ row'[t].phone = row[t].phone
    BY <1>8 DEF LockEnds, CodeExpires, Rows
  <2> QED
    BY <2>1, <1>0, GrowthKeepsConfirmed DEF UsersConfirmed, Exists
<1>9. CASE user' = user /\ row' = row
  BY <1>3, <1>9
<1> QED
  BY ZenonT(60), <1>1, <1>2, <1>4, <1>6, <1>7, <1>8, <1>9
  DEF Next, StartAvailable, StartCooldown, ConfirmRecheck, Stop, EraseLookup, RegisterCheck,
      StartLookup, ConfirmRead

\* A verified phone is one whose code its user has entered right: a confirmation verifies
\* the session it has read and whose code it was given, whose owner and phone never change,
\* and a start that changes the phone takes the mark away.
THEOREM VerifiedHolds == Spec => []VerifiedWasConfirmed
<1>1. Init => ConfirmedInv
  BY DEF Init, ConfirmedInv, RightCodes, UsersConfirmed, Idle
<1>2. TypeInv /\ ConfirmedInv /\ [Next]_vars => ConfirmedInv'
  <2>1. ASSUME TypeInv, ConfirmedInv, Next PROVE ConfirmedInv'
    BY <2>1, OnlyRightVerifies, ConfirmedStep DEF ConfirmedInv
  <2>2. ASSUME ConfirmedInv, UNCHANGED vars PROVE ConfirmedInv'
    BY <2>2 DEF vars, ConfirmedInv, RightCodes, UsersConfirmed, Confirmed, Exists
  <2> QED
    BY <2>1, <2>2
<1>3. ConfirmedInv => VerifiedWasConfirmed
  BY SMTT(30) DEF ConfirmedInv, UsersConfirmed, Confirmed, VerifiedWasConfirmed
<1> QED
  BY <1>1, <1>2, <1>3, PhoneTypeCorrect, PTL DEF Spec

-----------------------------------------------------------------------------
(* Deleted accounts.                                                       *)

\* An account that no start has outlived leaves neither phone nor session.
ErasedInv ==
  \A u \in Users \ late : user[u].state = "deleted" =>
    user[u].phone = NoPhone /\ \A s \in Sessions : Exists(s) => row[s].owner # u

\* Every step keeps it: what could bring a phone back finds its session gone.
LEMMA ErasedStep ==
  ASSUME TypeInv, ErasedInv, Next
  PROVE  ErasedInv'
<1> USE DEF TypeInv, PhoneTypeOK
<1>1. ASSUME NEW r \in Requests, NEW s \in Sessions, CreateSession(r, s) PROVE ErasedInv'
  <2>1. PICK u \in Users : u = up[r].user
    BY <1>1, ServingIsTyped DEF CreateSession, Starting
  <2>2. /\ row'[s].owner = u /\ \A t \in Sessions : t # s => row'[t] = row[t]
        /\ user' = user /\ late \subseteq late'
        /\ user[u].state = "deleted" => u \in late'
    BY <1>1, <2>1 DEF CreateSession, NoRow
  <2> QED
    BY <2>2 DEF ErasedInv, Exists
<1>2. ASSUME NEW r \in Requests, SetPhone(r) PROVE ErasedInv'
  <2>1. PICK u \in Users : u = up[r].user
    BY <1>2, ServingIsTyped DEF SetPhone, Starting
  <2>2. /\ row' = row /\ late \subseteq late'
        /\ user'[u].state = user[u].state
        /\ user[u].state = "deleted" => u \in late'
        /\ \A v \in Users : v # u => user'[v] = user[v]
    BY <1>2, <2>1 DEF SetPhone, Accounts
  <2> QED
    BY <2>2 DEF ErasedInv, Exists
<1>3. ASSUME NEW r \in Requests, VerifyPhone(r) PROVE ErasedInv'
  <2>1. PICK u \in Users, s \in Sessions :
          u = up[r].user /\ s = up[r].session /\ Exists(s) /\ row[s].owner = u
    BY <1>3, ServingIsTyped DEF VerifyPhone, SessionsOK, Confirming
  <2>2. /\ late' = late /\ user'[u].state = user[u].state
        /\ \A v \in Users : v # u => user'[v] = user[v]
        /\ \A t \in Sessions : row'[t].owner = row[t].owner /\ (Exists(t)' => Exists(t))
    <3>1. user' = [user EXCEPT ![u] = [@ EXCEPT !.phone = up[r].phone, !.verified = TRUE]]
      BY <1>3, <2>1 DEF VerifyPhone
    <3>2. row' = [row EXCEPT ![s].status = "VERIFIED"] /\ late' = late
      BY <1>3, <2>1 DEF VerifyPhone
    <3>3. \A t \in Sessions : row'[t].owner = row[t].owner /\ (Exists(t)' => Exists(t))
      BY <2>1, <3>2 DEF Rows, Exists
    <3> QED
      BY <3>1, <3>2, <3>3 DEF Accounts
  <2>3. u \in late \/ user[u].state # "deleted"
    BY <2>1 DEF ErasedInv
  <2> QED
    BY <2>2, <2>3 DEF ErasedInv
<1>4. ASSUME NEW r \in Requests, EraseAccount(r) PROVE ErasedInv'
  <2>1. PICK u \in Users : u = up[r].user
    BY <1>4, ServingIsTyped DEF EraseAccount, Erasing
  <2>2. /\ user' = [user EXCEPT ![u] = [state |-> "deleted", phone |-> NoPhone, verified |-> FALSE]]
        /\ \A s \in Sessions : row'[s] = IF row[s].owner = u THEN Gone ELSE row[s]
        /\ late' = late
    BY <1>4, <2>1 DEF EraseAccount
  <2>3. \A s \in Sessions : Exists(s)' => Exists(s) /\ row[s].owner # u /\ row'[s] = row[s]
    BY <2>2 DEF Exists, Gone, NoRow
  <2> QED
    BY <2>2, <2>3 DEF ErasedInv
<1>5. ASSUME NEW r \in Requests, CreateUser(r) PROVE ErasedInv'
  <2>1. PICK u \in Users : u = up[r].user
    BY <1>5, ServingIsTyped DEF CreateUser, Registering
  <2>2. /\ row' = row /\ late' = late /\ user'[u].state = "active"
        /\ \A v \in Users : v # u => user'[v] = user[v]
    BY <1>5, <2>1 DEF CreateUser
  <2> QED
    BY <2>2 DEF ErasedInv, Exists
<1>6. ASSUME user' = user, late' = late,
             \A s \in Sessions : row'[s].owner = row[s].owner /\ (Exists(s)' => Exists(s))
      PROVE  ErasedInv'
  BY <1>6 DEF ErasedInv
<1>7. ASSUME NEW r \in Requests, CountTry(r) \/ CloseSession(r) PROVE ErasedInv'
  <2>1. \A s \in Sessions : row'[s].owner = row[s].owner /\ (Exists(s)' => Exists(s))
    <3>1. CASE CountTry(r)
      BY <3>1 DEF CountTry, Rows, Exists
    <3>2. CASE CloseSession(r)
      BY <3>2 DEF CloseSession, Rows, Exists
    <3> QED
      BY <1>7, <3>1, <3>2
  <2> QED
    BY <1>6, <1>7, <2>1 DEF CountTry, CloseSession
<1>8. ASSUME NEW s \in Sessions, LockEnds(s) \/ CodeExpires(s) PROVE ErasedInv'
  <2>1. \A t \in Sessions : row'[t].owner = row[t].owner /\ row'[t].status = row[t].status
    BY <1>8 DEF LockEnds, CodeExpires, Rows
  <2> QED
    BY <1>6, <1>8, <2>1 DEF LockEnds, CodeExpires, Exists
<1>9. CASE user' = user /\ row' = row /\ late' = late
  BY <1>6, <1>9 DEF Exists
<1> QED
  BY ZenonT(60), <1>1, <1>2, <1>3, <1>4, <1>5, <1>7, <1>8, <1>9
  DEF Next, StartAvailable, StartCooldown, ConfirmRecheck, Stop, EraseLookup, RegisterCheck,
      StartLookup, ConfirmRead

\* A deleted account holds no phone unless a start outlived it: a confirmation under
\* way fails with its session.
THEOREM DeletedPhoneHolds == Spec => []DeletedHoldsNoPhone
<1>1. Init => ErasedInv
  BY DEF Init, ErasedInv
<1>2. TypeInv /\ ErasedInv /\ [Next]_vars => ErasedInv'
  BY ErasedStep DEF vars, ErasedInv, Exists
<1>3. ErasedInv => DeletedHoldsNoPhone
  BY DEF ErasedInv, DeletedHoldsNoPhone
<1> QED
  BY <1>1, <1>2, <1>3, PhoneTypeCorrect, PTL DEF Spec

-----------------------------------------------------------------------------
(* One user for a phone.                                                   *)

\* Of a phone that was never contended at most one request has hold, and what it found
\* when it looked for other users is still so.
Looked == {"create", "cooldown", "send", "phone", "count", "verify"}

HoldInv ==
  \A p \in Phones \ contended :
    /\ \A r, q \in Requests : up[r].phone = p /\ up[q].phone = p => r = q
    /\ \A r \in Requests : up[r].phone = p /\ up[r].pc \in Looked => Available(p, up[r].user)
    /\ \A u, v \in Users : user[u].state = "active" /\ user[v].state = "active"
                             /\ user[u].phone = p /\ user[v].phone = p => u = v

\* A request goes on or ends; when it takes its look, nobody else has the phone.
LEMMA HoldGoesOn ==
  ASSUME TypeInv, HoldInv, NEW r \in Requests, NEW job, up' = [up EXCEPT ![r] = job],
         job.phone = NoPhone \/ (job.phone = up[r].phone /\ job.user = up[r].user),
         job.phone \in Phones /\ job.pc \in Looked =>
           up[r].pc \in Looked \/ Available(job.phone, job.user),
         contended' = contended,
         \A u \in Users : user'[u] = user[u] \/ user'[u].phone = NoPhone
  PROVE  HoldInv'
<1>1. /\ up'[r] = job /\ \A q \in Requests : q # r => up'[q] = up[q]
      /\ NoPhone \notin Phones
  BY PhoneAssumption DEF TypeInv, PhoneTypeOK
<1>2. ASSUME NEW p \in Phones, NEW u, Available(p, u) PROVE Available(p, u)'
  BY <1>1, <1>2 DEF Available
<1>3. \A q \in Requests : up'[q].phone \in Phones => up'[q].phone = up[q].phone /\ up'[q].user = up[q].user
  BY <1>1
<1> QED
  BY <1>1, <1>2, <1>3 DEF HoldInv

\* A request comes for a phone, or for none.
LEMMA HoldEnters ==
  ASSUME TypeInv, HoldInv, NEW r \in Requests, NEW job, Enter(r, job), up[r] = Idle,
         user' = user,
         job.phone \in Phones /\ job.pc \in Looked => Available(job.phone, job.user)
  PROVE  HoldInv'
<1>1. /\ up'[r] = job /\ \A q \in Requests : q # r => up'[q] = up[q]
      /\ NoPhone \notin Phones
  BY PhoneAssumption DEF TypeInv, PhoneTypeOK, Enter
<1>2. /\ contended \subseteq contended'
      /\ job.phone \in Phones \ contended' => \A q \in Requests : up[q].phone # job.phone
  BY <1>1 DEF Enter, InHand
<1>3. \A p, u : Available(p, u)' = Available(p, u)
  BY DEF Available
<1>4. ASSUME NEW p \in Phones \ contended'
      PROVE  /\ \A q, s \in Requests : up'[q].phone = p /\ up'[s].phone = p => q = s
             /\ \A q \in Requests : up'[q].phone = p /\ up'[q].pc \in Looked => Available(p, up'[q].user)
  <2>1. p \in Phones \ contended
    BY <1>2
  <2> QED
    BY <1>1, <1>2, <2>1 DEF HoldInv
<1> QED
  BY <1>2, <1>3, <1>4 DEF HoldInv, Available

\* A request gives its phone to its user, for whom it has looked.
LEMMA HoldIsGiven ==
  ASSUME TypeInv, HoldInv, NEW r \in Requests, up[r].pc \in Looked, NEW u \in Users, u = up[r].user,
         up' = [up EXCEPT ![r] = Idle], contended' = contended,
         user'[u].phone = up[r].phone, \A v \in Users : v # u => user'[v] = user[v]
  PROVE  HoldInv'
<1>1. /\ up'[r] = Idle /\ Idle.phone = NoPhone /\ \A q \in Requests : q # r => up'[q] = up[q]
      /\ NoPhone \notin Phones
  BY PhoneAssumption DEF TypeInv, PhoneTypeOK, Idle
<1>2. ASSUME NEW p \in Phones \ contended
      PROVE  /\ \A q, s \in Requests : up'[q].phone = p /\ up'[s].phone = p => q = s
             /\ \A q \in Requests : up'[q].phone = p /\ up'[q].pc \in Looked =>
                  \A v \in Users \ {up'[q].user} : user'[v].state = "active" => user'[v].phone # p
             /\ \A v, w \in Users : user'[v].state = "active" /\ user'[w].state = "active"
                                      /\ user'[v].phone = p /\ user'[w].phone = p => v = w
  <2>1. \A q, s \in Requests : up'[q].phone = p /\ up'[s].phone = p => q = s
    BY <1>1 DEF HoldInv
  <2>2. ASSUME NEW q \in Requests, up'[q].phone = p, up'[q].pc \in Looked,
               NEW v \in Users \ {up'[q].user}, user'[v].state = "active"
        PROVE  user'[v].phone # p
    <3>1. q # r /\ up'[q] = up[q] /\ up[r].phone # p
      BY <1>1, <2>2 DEF HoldInv
    <3>2. Available(p, up[q].user)
      BY <2>2, <3>1 DEF HoldInv
    <3> QED
      BY <2>2, <3>1, <3>2 DEF Available
  <2>3. ASSUME NEW v \in Users, NEW w \in Users, user'[v].state = "active", user'[w].state = "active",
               user'[v].phone = p, user'[w].phone = p
        PROVE  v = w
    <3>1. CASE up[r].phone = p
      <4>1. Available(p, u)
        BY <3>1 DEF HoldInv
      <4> QED
        BY <2>3, <4>1 DEF Available
    <3>2. CASE up[r].phone # p
      BY <2>3, <3>2 DEF HoldInv
    <3> QED
      BY <3>1, <3>2
  <2> QED
    BY <2>1, <2>2, <2>3
<1> QED
  BY <1>2 DEF HoldInv, Available

\* Every step keeps the hold.
LEMMA HoldStep ==
  ASSUME TypeInv, HoldInv, Next
  PROVE  HoldInv'
<1> USE DEF TypeInv, PhoneTypeOK
<1>1. Idle.phone = NoPhone /\ Idle.pc = "idle" /\ NoPhone \notin Phones
  BY PhoneAssumption DEF Idle
<1>2. ASSUME NEW r \in Requests, NEW u \in Users, EraseLookup(r, u) PROVE HoldInv'
  BY <1>1, <1>2, HoldEnters DEF EraseLookup, Idle
<1>3. ASSUME NEW r \in Requests, NEW u \in Users, NEW p \in Phones \union {NoPhone}, RegisterCheck(r, u, p)
      PROVE  HoldInv'
  <2> DEFINE job == [Idle EXCEPT !.pc = "create", !.user = u, !.phone = p]
  <2>1. job.phone = p /\ job.user = u
    BY DEF Idle
  <2> HIDE DEF job
  <2>2. up[r] = Idle /\ user' = user /\ Enter(r, job) /\ (p = NoPhone \/ Available(p, u))
    BY <1>3 DEF RegisterCheck, job
  <2> QED
    BY <1>1, <2>1, <2>2, HoldEnters
<1>4. ASSUME NEW r \in Requests, NEW u \in Users, NEW p \in Phones, StartLookup(r, u, p) PROVE HoldInv'
  <2> DEFINE job == [Idle EXCEPT !.pc = "available", !.user = u, !.phone = p, !.seen = user[u].phone]
  <2>1. job.pc = "available"
    BY DEF Idle
  <2> HIDE DEF job
  <2>2. up[r] = Idle /\ user' = user /\ Enter(r, job)
    BY <1>4 DEF StartLookup, job
  <2> QED
    BY <2>1, <2>2, HoldEnters DEF Looked
<1>5. ASSUME NEW r \in Requests, NEW u \in Users, NEW s \in Sessions, NEW right \in BOOLEAN,
             ConfirmRead(r, u, s, right)
      PROVE  HoldInv'
  <2>1. PICK pc \in {"expire", "fail", "recheck"} :
          Enter(r, [Idle EXCEPT !.pc = pc, !.user = u, !.session = s,
                                !.phone = row[s].phone, !.right = right])
    BY <1>5 DEF ConfirmRead
  <2> DEFINE job == [Idle EXCEPT !.pc = pc, !.user = u, !.session = s,
                                 !.phone = row[s].phone, !.right = right]
  <2>2. job.pc \notin Looked
    BY DEF Idle, Looked
  <2>3. Enter(r, job)
    BY <2>1
  <2> HIDE DEF job
  <2> QED
    BY <1>5, <2>2, <2>3, HoldEnters DEF ConfirmRead
<1>6. ASSUME NEW r \in Requests, CreateUser(r) PROVE HoldInv'
  <2>1. up[r] \in Registering /\ up[r].pc \in Looked /\ up[r].user \in Users
    BY <1>6, ServingIsTyped DEF CreateUser, Looked, Registering
  <2> QED
    BY <1>6, <2>1, HoldIsGiven DEF CreateUser, Done
<1>7. ASSUME NEW r \in Requests, SetPhone(r) \/ VerifyPhone(r) PROVE HoldInv'
  <2>1. up[r].pc \in Looked /\ up[r].user \in Users
    <3>1. up[r] \in Starting \/ up[r] \in Confirming
      BY <1>7, ServingIsTyped DEF SetPhone, VerifyPhone
    <3> QED
      BY <1>7, <3>1 DEF Looked, SetPhone, VerifyPhone, Starting, Confirming
  <2>2. /\ user'[up[r].user].phone = up[r].phone
        /\ \A v \in Users : v # up[r].user => user'[v] = user[v]
    <3>1. CASE SetPhone(r)
      BY <2>1, <3>1 DEF SetPhone, Accounts
    <3>2. CASE VerifyPhone(r)
      BY <2>1, <3>2 DEF VerifyPhone, Accounts
    <3> QED
      BY <1>7, <3>1, <3>2
  <2> QED
    BY <1>7, <2>1, <2>2, HoldIsGiven DEF SetPhone, VerifyPhone, Done
<1>8. ASSUME NEW r \in Requests, NEW job, up' = [up EXCEPT ![r] = job], contended' = contended,
             user' = user,
             \/ job = Idle
             \/ /\ job.phone = up[r].phone /\ job.user = up[r].user
                /\ up[r].pc \in Looked \/ Available(up[r].phone, up[r].user) \/ job.pc \notin Looked
      PROVE  HoldInv'
  BY <1>1, <1>8, HoldGoesOn
<1>9. ASSUME NEW r \in Requests,
             \/ StartAvailable(r) \/ StartCooldown(r) \/ ConfirmRecheck(r) \/ CountTry(r)
             \/ CloseSession(r) \/ Stop(r) \/ \E s \in Sessions : CreateSession(r, s)
      PROVE  HoldInv'
  <2>1. /\ user' = user /\ contended' = contended
        /\ \/ up' = [up EXCEPT ![r] = Idle]
           \/ \E pc \in {"cooldown", "send", "phone", "count", "verify", "fail"} :
                /\ up' = [up EXCEPT ![r] = [up[r] EXCEPT !.pc = pc]]
                /\ up[r].pc \in Looked \/ Available(up[r].phone, up[r].user)
    BY <1>9 DEF StartAvailable, StartCooldown, ConfirmRecheck, CountTry, CloseSession, Stop,
                CreateSession, Goto, Done, Looked
  <2>2. CASE up' = [up EXCEPT ![r] = Idle]
    BY <1>8, <2>1, <2>2
  <2>3. ASSUME NEW pc \in {"cooldown", "send", "phone", "count", "verify", "fail"},
               up' = [up EXCEPT ![r] = [up[r] EXCEPT !.pc = pc]],
               up[r].pc \in Looked \/ Available(up[r].phone, up[r].user)
        PROVE  HoldInv'
    <3> DEFINE job == [up[r] EXCEPT !.pc = pc]
    <3>1. job.phone = up[r].phone /\ job.user = up[r].user
      OBVIOUS
    <3>2. up' = [up EXCEPT ![r] = job]
      BY <2>3
    <3> HIDE DEF job
    <3> QED
      BY <1>8, <2>1, <2>3, <3>1, <3>2
  <2> QED
    BY <2>1, <2>2, <2>3
<1>10. ASSUME NEW r \in Requests, EraseAccount(r) PROVE HoldInv'
  <2>1. up[r].user \in Users
    BY <1>10, ServingIsTyped DEF EraseAccount, Erasing
  <2>2. \A u \in Users : user'[u] = user[u] \/ user'[u].phone = NoPhone
    BY <1>10, <2>1 DEF EraseAccount
  <2> QED
    BY <1>1, <1>10, <2>2, HoldGoesOn DEF EraseAccount, Done
<1>11. ASSUME NEW s \in Sessions, LockEnds(s) \/ CodeExpires(s) PROVE HoldInv'
  BY <1>11 DEF LockEnds, CodeExpires, HoldInv, Available
<1> QED
  BY <1>2, <1>3, <1>4, <1>5, <1>6, <1>7, <1>9, <1>10, <1>11 DEF Next

\* Two active users never share a phone that no two requests had in hand at once: from
\* the look to the gift nobody else can have given it away.
THEOREM PhoneUniqueHolds == Spec => []PhoneUniqueUnlessContended
<1>1. Init => HoldInv
  <2>1. Idle.phone = NoPhone /\ NoPhone \notin Phones
    BY PhoneAssumption DEF Idle
  <2> QED
    BY <2>1 DEF Init, HoldInv
<1>2. TypeInv /\ HoldInv /\ [Next]_vars => HoldInv'
  BY HoldStep DEF vars, HoldInv, Available
<1>3. HoldInv => PhoneUniqueUnlessContended
  BY DEF HoldInv, PhoneUniqueUnlessContended
<1> QED
  BY <1>1, <1>2, <1>3, PhoneTypeCorrect, PTL DEF Spec

=============================================================================

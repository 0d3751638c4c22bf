--------------------------- MODULE PhoneVerification ---------------------------
(***************************************************************************)
(* Whose phone is it: registration with a phone, phone verification by a   *)
(* code (start, confirm) and account deletion, for several users.          *)
(*                                                                         *)
(* ensurePhoneAvailable looks for another active user with the phone, and  *)
(* the handler gives the phone to its user some statements later.  No      *)
(* constraint of the schema makes User.phone unique, so the look is all    *)
(* that keeps two users apart.  Each statement is a step of its own.       *)
(***************************************************************************)
EXTENDS Naturals, Sequences, FiniteSets

CONSTANTS
  Users,        \* accounts, registered or to be registered
  Phones,       \* normalized phone numbers
  Sessions,     \* ids of phone-verification sessions
  Requests,     \* slots for requests being served at the same time
  MaxAttempts,  \* MAX_VERIFICATION_ATTEMPTS
  NoPhone, NoUser, NoSession

ASSUME PhoneAssumption ==
  /\ NoPhone \notin Phones /\ NoUser \notin Users /\ NoSession \notin Sessions
  /\ MaxAttempts \in Nat \ {0}

VARIABLES
  user,       \* the User row of each account
  row,        \* the PhoneVerificationSession row of each id
  created,    \* session ids in the order of createdAt
  up,         \* the request in each slot
  entered,    \* ghost: sessions whose code was entered, and entered right
  contended,  \* ghost: phones that two requests ever had in hand at once
  late        \* ghost: users whose start outlived their account

vars == <<user, row, created, up, entered, contended, late>>

NoRow == [status |-> "NONE", owner |-> NoUser, phone |-> NoPhone, attempts |-> 0,
          locked |-> FALSE, codeExpired |-> FALSE]
Gone == [NoRow EXCEPT !.status = "GONE"]

Idle == [pc |-> "idle", user |-> NoUser, session |-> NoSession, phone |-> NoPhone,
         seen |-> NoPhone, right |-> FALSE]

Exists(s) == row[s].status \notin {"NONE", "GONE"}
InHand(p) == {r \in Requests : up[r].phone = p}

Init ==
  /\ user = [u \in Users |-> [state |-> "absent", phone |-> NoPhone, verified |-> FALSE]]
  /\ row = [s \in Sessions |-> NoRow]
  /\ created = <<>>
  /\ up = [r \in Requests |-> Idle]
  /\ entered = {}
  /\ contended = {}
  /\ late = {}

-----------------------------------------------------------------------------
(* Progress of a request, and the ghost.                                   *)

Goto(r, pc) == up' = [up EXCEPT ![r].pc = pc]
Done(r) == up' = [up EXCEPT ![r] = Idle]

Enter(r, request) ==
  /\ up' = [up EXCEPT ![r] = request]
  /\ contended' = IF request.phone = NoPhone \/ InHand(request.phone) = {}
                  THEN contended
                  ELSE contended \union {request.phone}

\* ensurePhoneAvailable: no other active user has the phone.
Available(p, u) ==
  \A v \in Users \ {u} : user[v].state = "active" => user[v].phone # p

-----------------------------------------------------------------------------
(* register, registerRestaurant                                            *)

RegisterCheck(r, u, p) ==
  /\ up[r] = Idle
  /\ user[u].state = "absent"
  /\ p = NoPhone \/ Available(p, u)
  /\ Enter(r, [Idle EXCEPT !.pc = "create", !.user = u, !.phone = p])
  /\ UNCHANGED <<user, row, created, entered, late>>

\* The e-mail is unique, so only one registration of an account succeeds.
CreateUser(r) ==
  LET u == up[r].user
  IN  /\ up[r].pc = "create"
      /\ user[u].state = "absent"
      /\ user' = [user EXCEPT ![u] = [state |-> "active", phone |-> up[r].phone,
                                      verified |-> FALSE]]
      /\ Done(r)
      /\ UNCHANGED <<row, created, entered, contended, late>>

-----------------------------------------------------------------------------
(* startPhoneVerification                                                  *)

\* The user is read, and asks for a phone of the request or keeps its own.
StartLookup(r, u, p) ==
  /\ up[r] = Idle
  /\ user[u].state = "active"
  /\ Enter(r, [Idle EXCEPT !.pc = "available", !.user = u, !.phone = p,
                           !.seen = user[u].phone])
  /\ UNCHANGED <<user, row, created, entered, late>>

StartAvailable(r) ==
  /\ up[r].pc = "available"
  /\ IF Available(up[r].phone, up[r].user) THEN Goto(r, "cooldown") ELSE Done(r)
  /\ UNCHANGED <<user, row, created, entered, contended, late>>

\* The user's newest session that is not verified asks to wait.
Cooling(u) ==
  LET Counts(s) == row[s].owner = u /\ row[s].status \in {"PENDING", "FAILED", "EXPIRED"}
  IN  \E i \in DOMAIN created :
        /\ Counts(created[i]) /\ row[created[i]].locked
        /\ \A j \in DOMAIN created : j > i => ~Counts(created[j])

StartCooldown(r) ==
  /\ up[r].pc = "cooldown"
  /\ IF Cooling(up[r].user) THEN Done(r) ELSE Goto(r, "send")
  /\ UNCHANGED <<user, row, created, entered, contended, late>>

\* The SMS was accepted and the session is stored.
CreateSession(r, s) ==
  /\ up[r].pc = "send"
  /\ row[s].status = "NONE"
  /\ row' = [row EXCEPT ![s] = [NoRow EXCEPT !.status = "PENDING", !.locked = TRUE,
                                  !.owner = up[r].user, !.phone = up[r].phone]]
  /\ created' = Append(created, s)
  /\ IF up[r].phone # up[r].seen THEN Goto(r, "phone") ELSE Done(r)
  /\ late' = IF user[up[r].user].state = "deleted" THEN late \union {up[r].user} ELSE late
  /\ UNCHANGED <<user, entered, contended>>

\* A slip: the new phone inherits the verification of the old one.
SetPhone_KeepsVerified(r) ==
  LET u == up[r].user
  IN  /\ up[r].pc = "phone"
      /\ user' = [user EXCEPT ![u].phone = up[r].phone]
      /\ late' = IF user[u].state = "deleted" THEN late \union {u} ELSE late
      /\ Done(r)
      /\ UNCHANGED <<row, created, entered, contended>>

\* The phone differs from the one that was read: the user gets it, unverified.
SetPhone(r) ==
  LET u == up[r].user
  IN  /\ up[r].pc = "phone"
      /\ user' = [user EXCEPT ![u] = [@ EXCEPT !.phone = up[r].phone, !.verified = FALSE]]
      /\ late' = IF user[u].state = "deleted" THEN late \union {u} ELSE late
      /\ Done(r)
      /\ UNCHANGED <<row, created, entered, contended>>

-----------------------------------------------------------------------------
(* confirmPhoneVerification                                                *)

\* A pending session of the user is read: its code has expired, its limit is
\* reached (while it is locked the request is refused), or its phone has to be
\* still available.
ConfirmRead(r, u, s, right) ==
  /\ up[r] = Idle
  /\ user[u].state = "active"
  /\ row[s].status = "PENDING" /\ row[s].owner = u
  /\ \E pc \in {"expire", "fail", "recheck"} :
       /\ Enter(r, [Idle EXCEPT !.pc = pc, !.user = u, !.session = s,
                                !.phone = row[s].phone, !.right = right])
       /\ pc = "expire" <=> row[s].codeExpired
       /\ right => pc = "recheck"
       /\ pc = "recheck" => row[s].attempts < MaxAttempts
       /\ pc = "fail" => row[s].attempts >= MaxAttempts /\ ~row[s].locked
  /\ UNCHANGED <<user, row, created, entered, late>>

\* A slip: start has checked the phone, so confirm need not.
ConfirmRecheck_Trusting(r) ==
  /\ up[r].pc = "recheck"
  /\ Goto(r, "count")
  /\ UNCHANGED <<user, row, created, entered, contended, late>>

ConfirmRecheck(r) ==
  /\ up[r].pc = "recheck"
  /\ IF Available(up[r].phone, up[r].user) THEN Goto(r, "count") ELSE Done(r)
  /\ UNCHANGED <<user, row, created, entered, contended, late>>

\* Codes are this service's own (provider INTERNAL, the only one there is), so every
\* try is counted before it is compared.
CountTry(r) ==
  LET s == up[r].session
  IN  /\ up[r].pc = "count"
      /\ Exists(s)
      /\ row' = [row EXCEPT ![s].attempts = @ + 1]
      /\ entered' = IF up[r].right THEN entered \union {s} ELSE entered
      /\ IF up[r].right THEN Goto(r, "verify")
         ELSE IF row[s].attempts + 1 >= MaxAttempts THEN Goto(r, "fail")
         ELSE Done(r)
      /\ UNCHANGED <<user, created, contended, late>>

\* The limit was reached, or the code had expired when the session was read.
CloseSession(r) ==
  LET s == up[r].session
  IN  /\ up[r].pc \in {"fail", "expire"}
      /\ Exists(s)
      /\ row' = IF up[r].pc = "fail"
                THEN [row EXCEPT ![s] = [@ EXCEPT !.status = "FAILED", !.locked = TRUE]]
                ELSE [row EXCEPT ![s].status = "EXPIRED"]
      /\ Done(r)
      /\ UNCHANGED <<user, created, entered, contended, late>>

\* A slip: the session may be missing.
VerifyPhone_RowOrNot(r) ==
  LET s == up[r].session
      u == up[r].user
  IN  /\ up[r].pc = "verify"
      /\ row' = IF Exists(s) THEN [row EXCEPT ![s].status = "VERIFIED"] ELSE row
      /\ user' = [user EXCEPT ![u] = [@ EXCEPT !.phone = up[r].phone, !.verified = TRUE]]
      /\ Done(r)
      /\ UNCHANGED <<created, entered, contended, late>>

\* One transaction: the session is verified and its phone is the user's.
VerifyPhone(r) ==
  LET s == up[r].session
      u == up[r].user
  IN  /\ up[r].pc = "verify"
      /\ Exists(s)
      /\ row' = [row EXCEPT ![s].status = "VERIFIED"]
      /\ user' = [user EXCEPT ![u] = [@ EXCEPT !.phone = up[r].phone, !.verified = TRUE]]
      /\ Done(r)
      /\ UNCHANGED <<created, entered, contended, late>>

-----------------------------------------------------------------------------
(* deleteMyAccount, time and failure                                       *)

EraseLookup(r, u) ==
  /\ up[r] = Idle
  /\ user[u].state = "active"
  /\ Enter(r, [Idle EXCEPT !.pc = "erase", !.user = u])
  /\ UNCHANGED <<user, row, created, entered, late>>

EraseAccount(r) ==
  LET u == up[r].user
  IN  /\ up[r].pc = "erase"
      /\ user' = [user EXCEPT ![u] = [state |-> "deleted", phone |-> NoPhone,
                                      verified |-> FALSE]]
      /\ row' = [s \in Sessions |-> IF row[s].owner = u THEN Gone ELSE row[s]]
      /\ Done(r)
      /\ UNCHANGED <<created, entered, contended, late>>

LockEnds(s) ==
  /\ row[s].locked
  /\ row' = [row EXCEPT ![s].locked = FALSE]
  /\ UNCHANGED <<user, created, up, entered, contended, late>>

\* Only a pending session's code deadline is ever looked at.
CodeExpires(s) ==
  /\ row[s].status = "PENDING" /\ ~row[s].codeExpired
  /\ row' = [row EXCEPT ![s].codeExpired = TRUE]
  /\ UNCHANGED <<user, created, up, entered, contended, late>>

\* The request fails before its next statement.
Stop(r) ==
  /\ up[r] # Idle
  /\ Done(r)
  /\ UNCHANGED <<user, row, created, entered, contended, late>>

Next ==
  \/ \E r \in Requests :
       \/ CreateUser(r) \/ StartAvailable(r) \/ StartCooldown(r) \/ SetPhone(r)
       \/ ConfirmRecheck(r) \/ CountTry(r) \/ CloseSession(r) \/ VerifyPhone(r)
       \/ EraseAccount(r) \/ Stop(r)
       \/ \E s \in Sessions : CreateSession(r, s)
       \/ \E u \in Users :
            \/ EraseLookup(r, u)
            \/ \E p \in Phones \union {NoPhone} : RegisterCheck(r, u, p)
            \/ \E p \in Phones : StartLookup(r, u, p)
            \/ \E s \in Sessions, right \in BOOLEAN : ConfirmRead(r, u, s, right)
  \/ \E s \in Sessions : LockEnds(s) \/ CodeExpires(s)

Spec == Init /\ [][Next]_vars

-----------------------------------------------------------------------------
(* Properties.                                                             *)

\* A verified phone is one whose code its user has entered right, however the user's
\* requests for several phones and their confirmations, right and wrong, interleave.
VerifiedWasConfirmed ==
  \A u \in Users : user[u].verified =>
    \E s \in entered : row[s].owner = u /\ row[s].phone = user[u].phone

\* Two active users never share a phone that no two requests had in hand at the
\* same time: the checks of start and confirm are enough for requests that come
\* one after the other, also when a code is confirmed long after it was sent.
PhoneUniqueUnlessContended ==
  \A u, v \in Users :
    /\ user[u].state = "active" /\ user[v].state = "active"
    /\ user[u].phone = user[v].phone
    /\ user[u].phone \in Phones \ contended
    => u = v

\* A deleted account holds no phone, whatever confirmations were under way when
\* it was deleted; only a start that outlives the account can leave one.
DeletedHoldsNoPhone ==
  \A u \in Users \ late : user[u].state = "deleted" => user[u].phone = NoPhone

=============================================================================

--------------------------- MODULE PasswordRecovery ---------------------------
(***************************************************************************)
(* Password recovery of one account: a code is sent (start), the code is   *)
(* confirmed for a reset token (confirm), the token sets a new password    *)
(* (reset); and the account may be deleted meanwhile.                      *)
(*                                                                         *)
(* Handlers read a PasswordResetSession row, decide by what they read and  *)
(* then write the row by id, in statements of their own with awaits in     *)
(* between (an SMS, a bcrypt hash).  Each statement is a step, so requests *)
(* of the same account interleave between any two of them.  Sessions of    *)
(* different accounts never meet, so one account is enough.  Clocks show   *)
(* only as deadlines that may pass at any time.                            *)
(***************************************************************************)
EXTENDS Naturals, Sequences, FiniteSets

CONSTANTS
  Sessions,     \* ids of password-reset sessions
  Requests,     \* slots for requests being served at the same time
  MaxAttempts,  \* MAX_VERIFICATION_ATTEMPTS
  NoSession     \* "no session id"

ASSUME RecoveryAssumption ==
  /\ NoSession \notin Sessions
  /\ IsFiniteSet(Requests) /\ Requests # {}
  /\ MaxAttempts \in Nat \ {0}

VARIABLES
  row,        \* the PasswordResetSession row of each id
  created,    \* ids in the order of createdAt
  account,    \* the account: active, and the session that set its password
  up,         \* the request in each slot
  resets,     \* ghost: how many password changes each session made
  overlapped, \* ghost: sessions that ever had two requests in flight at once
  rushed,     \* ghost: two starts were ever in flight at once
  late        \* ghost: a session was created for a deleted account

vars == <<row, created, account, up, resets, overlapped, rushed, late>>

\* "NONE" before a row exists, "GONE" after its deletion.
Status == {"NONE", "GONE", "PENDING", "VERIFIED", "USED", "EXPIRED", "FAILED"}
Row == [status : Status, attempts : Nat, locked : BOOLEAN, codeExpired : BOOLEAN,
        tokenExpired : BOOLEAN, consumed : BOOLEAN]
NoRow == [status |-> "NONE", attempts |-> 0, locked |-> FALSE, codeExpired |-> FALSE,
          tokenExpired |-> FALSE, consumed |-> FALSE]
Original == "ORIGINAL"
Erased == "ERASED"

Idle == [pc |-> "idle", session |-> NoSession, right |-> FALSE]
Starting == {"cooldown", "send"}
OnSession == {"expire", "fail", "count", "verify", "hash"}
SessionRequest == [pc : OnSession, session : Sessions, right : BOOLEAN]
AccountRequest == [pc : Starting \union {"erase"}, session : {NoSession}, right : {FALSE}]
Request == SessionRequest \union AccountRequest

Exists(s) == row[s].status \notin {"NONE", "GONE"}
InFlight(s) == {r \in Requests : up[r].session = s}
Counting(s) == {r \in Requests : up[r].pc = "count" /\ up[r].session = s}
Hashing(s) == {r \in Requests : up[r].pc = "hash" /\ up[r].session = s}

Init ==
  /\ row = [s \in Sessions |-> NoRow]
  /\ created = <<>>
  /\ account = [active |-> TRUE, password |-> Original]
  /\ up = [r \in Requests |-> Idle]
  /\ resets = [s \in Sessions |-> 0]
  /\ overlapped = {}
  /\ rushed = FALSE
  /\ late = FALSE

-----------------------------------------------------------------------------
(* Progress of a request, and of the ghosts.                               *)

Goto(r, pc) == up' = [up EXCEPT ![r].pc = pc]
Done(r) == up' = [up EXCEPT ![r] = Idle]

Enter(r, pc, s, right) ==
  /\ up' = [up EXCEPT ![r] = [pc |-> pc, session |-> s, right |-> right]]
  /\ overlapped' = IF InFlight(s) = {} THEN overlapped ELSE overlapped \union {s}

GhostsKept == UNCHANGED <<overlapped, rushed, late>>

-----------------------------------------------------------------------------
(* startPasswordRecovery                                                   *)

\* findUserByVerifiedPhone finds the account only while it is active.
StartLookup(r) ==
  /\ up[r] = Idle
  /\ account.active
  /\ up' = [up EXCEPT ![r].pc = "cooldown"]
  /\ rushed' = (rushed \/ \E q \in Requests : up[q].pc \in Starting)
  /\ UNCHANGED <<row, created, account, resets, overlapped, late>>

\* A slip: a session that is still pending does not hold off the next code.
Cooling_PendingIgnored ==
  LET Counts(s) == row[s].status \in {"FAILED", "EXPIRED"} /\ ~row[s].consumed
  IN  \E i \in DOMAIN created :
        /\ Counts(created[i]) /\ row[created[i]].locked
        /\ \A j \in DOMAIN created : j > i => ~Counts(created[j])

\* The newest session that is neither verified nor used asks to wait.
Cooling ==
  LET Counts(s) == row[s].status \in {"PENDING", "FAILED", "EXPIRED"} /\ ~row[s].consumed
  IN  \E i \in DOMAIN created :
        /\ Counts(created[i]) /\ row[created[i]].locked
        /\ \A j \in DOMAIN created : j > i => ~Counts(created[j])

StartCooldown(r) ==
  /\ up[r].pc = "cooldown"
  /\ IF Cooling THEN Done(r) ELSE Goto(r, "send")
  /\ UNCHANGED <<row, created, account, resets>>
  /\ GhostsKept

\* The SMS was accepted and the session is stored; nothing reads the account
\* or the other sessions again.
CreateSession(r, s) ==
  /\ up[r].pc = "send"
  /\ row[s].status = "NONE"
  /\ row' = [row EXCEPT ![s] = [NoRow EXCEPT !.status = "PENDING", !.locked = TRUE]]
  /\ created' = Append(created, s)
  /\ Done(r)
  /\ late' = (late \/ ~account.active)
  /\ UNCHANGED <<account, resets, overlapped, rushed>>

-----------------------------------------------------------------------------
(* confirmPasswordRecovery                                                 *)

\* Slips: the second look at the limit is missing, or lets one attempt too many through.
ConfirmRead_OnlyWhileLocked(r, s, right) ==
  /\ up[r] = Idle
  /\ row[s].status = "PENDING" /\ ~row[s].consumed
  /\ \/ /\ row[s].codeExpired /\ ~right
        /\ Enter(r, "expire", s, right)
     \/ /\ ~row[s].codeExpired
        /\ row[s].attempts < MaxAttempts \/ ~row[s].locked
        /\ Enter(r, "count", s, right)
  /\ UNCHANGED <<row, created, account, resets, rushed, late>>

ConfirmRead_OneMore(r, s, right) ==
  /\ up[r] = Idle
  /\ row[s].status = "PENDING" /\ ~row[s].consumed
  /\ \/ /\ row[s].codeExpired /\ ~right
        /\ Enter(r, "expire", s, right)
     \/ /\ ~row[s].codeExpired
        /\ row[s].attempts > MaxAttempts /\ ~row[s].locked /\ ~right
        /\ Enter(r, "fail", s, right)
     \/ /\ ~row[s].codeExpired
        /\ row[s].attempts <= MaxAttempts
        /\ Enter(r, "count", s, right)
  /\ UNCHANGED <<row, created, account, resets, rushed, late>>

\* The session is read, and what was read decides: an expired code, a limit
\* already reached (a request that comes while the session is locked is
\* refused and takes no step), or a try that counts.  Only then does it matter
\* whether the code sent is right.
ConfirmRead(r, s, right) ==
  /\ up[r] = Idle
  /\ row[s].status = "PENDING" /\ ~row[s].consumed
  /\ \/ /\ row[s].codeExpired /\ ~right
        /\ Enter(r, "expire", s, right)
     \/ /\ ~row[s].codeExpired
        /\ row[s].attempts >= MaxAttempts /\ ~row[s].locked /\ ~right
        /\ Enter(r, "fail", s, right)
     \/ /\ ~row[s].codeExpired
        /\ row[s].attempts < MaxAttempts
        /\ Enter(r, "count", s, right)
  /\ UNCHANGED <<row, created, account, resets, rushed, late>>

\* The counter is incremented in the database; the code is compared after.
CountTry(r) ==
  LET s == up[r].session
  IN  /\ up[r].pc = "count"
      /\ Exists(s)
      /\ row' = [row EXCEPT ![s].attempts = row[s].attempts + 1]
      /\ IF up[r].right THEN Goto(r, "verify")
         ELSE IF row[s].attempts + 1 >= MaxAttempts THEN Goto(r, "fail")
         ELSE Done(r)
      /\ UNCHANGED <<created, account, resets>>
      /\ GhostsKept

\* The limit is reached: the session is shut and locked for the block time.
ShutSession(r) ==
  LET s == up[r].session
  IN  /\ up[r].pc = "fail"
      /\ Exists(s)
      /\ row' = [row EXCEPT ![s] = [@ EXCEPT !.status = "FAILED", !.locked = TRUE]]
      /\ Done(r)
      /\ UNCHANGED <<created, account, resets>>
      /\ GhostsKept

\* The code was right: a reset token is stored in place of any other.
VerifySession(r) ==
  LET s == up[r].session
  IN  /\ up[r].pc = "verify"
      /\ Exists(s)
      /\ row' = [row EXCEPT ![s] = [@ EXCEPT !.status = "VERIFIED", !.tokenExpired = FALSE]]
      /\ Done(r)
      /\ UNCHANGED <<created, account, resets>>
      /\ GhostsKept

\* An expired code (confirm) or token (reset) was read: the session expires.
ExpireSession(r) ==
  LET s == up[r].session
  IN  /\ up[r].pc = "expire"
      /\ Exists(s)
      /\ row' = [row EXCEPT ![s].status = "EXPIRED"]
      /\ Done(r)
      /\ UNCHANGED <<created, account, resets>>
      /\ GhostsKept

-----------------------------------------------------------------------------
(* resetPassword                                                           *)

\* A slip: the session's consumption is not looked at.
ResetRead_Consumed(r, s) ==
  /\ up[r] = Idle
  /\ row[s].status = "VERIFIED"
  /\ Enter(r, IF row[s].tokenExpired THEN "expire" ELSE "hash", s, FALSE)
  /\ UNCHANGED <<row, created, account, resets, rushed, late>>

\* The holder of the stored token sends it; the new password is hashed next.
ResetRead(r, s) ==
  /\ up[r] = Idle
  /\ row[s].status = "VERIFIED" /\ ~row[s].consumed
  /\ Enter(r, IF row[s].tokenExpired THEN "expire" ELSE "hash", s, FALSE)
  /\ UNCHANGED <<row, created, account, resets, rushed, late>>

\* Slips: the session stays as it is; the row may be missing (updateMany).
CommitReset_Reusable(r) ==
  LET s == up[r].session
  IN  /\ up[r].pc = "hash"
      /\ Exists(s)
      /\ account' = [account EXCEPT !.password = s]
      /\ resets' = [resets EXCEPT ![s] = @ + 1]
      /\ Done(r)
      /\ UNCHANGED <<row, created>>
      /\ GhostsKept

CommitReset_RowOrNot(r) ==
  LET s == up[r].session
  IN  /\ up[r].pc = "hash"
      /\ account' = [account EXCEPT !.password = s]
      /\ row' = IF Exists(s)
                THEN [row EXCEPT ![s] = [@ EXCEPT !.status = "USED", !.consumed = TRUE]]
                ELSE row
      /\ resets' = [resets EXCEPT ![s] = @ + 1]
      /\ Done(r)
      /\ UNCHANGED created
      /\ GhostsKept

\* One transaction: the password is set and the session consumed, whatever
\* its status is by now.  Without the row the transaction rolls back.
CommitReset(r) ==
  LET s == up[r].session
  IN  /\ up[r].pc = "hash"
      /\ Exists(s)
      /\ account' = [account EXCEPT !.password = s]
      /\ row' = [row EXCEPT ![s] = [@ EXCEPT !.status = "USED", !.consumed = TRUE]]
      /\ resets' = [resets EXCEPT ![s] = @ + 1]
      /\ Done(r)
      /\ UNCHANGED created
      /\ GhostsKept

-----------------------------------------------------------------------------
(* deleteMyAccount                                                         *)

EraseLookup(r) ==
  /\ up[r] = Idle
  /\ account.active
  /\ up' = [up EXCEPT ![r].pc = "erase"]
  /\ UNCHANGED <<row, created, account, resets>>
  /\ GhostsKept

\* One transaction: the account is emptied and its sessions are deleted.
EraseAccount(r) ==
  /\ up[r].pc = "erase"
  /\ account' = [active |-> FALSE, password |-> Erased]
  /\ row' = [s \in Sessions |->
               IF Exists(s) THEN [row[s] EXCEPT !.status = "GONE"] ELSE row[s]]
  /\ Done(r)
  /\ UNCHANGED <<created, resets>>
  /\ GhostsKept

-----------------------------------------------------------------------------
(* Time and failure.                                                       *)

LockEnds(s) ==
  /\ Exists(s) /\ row[s].locked
  /\ row' = [row EXCEPT ![s].locked = FALSE]
  /\ UNCHANGED <<created, account, up, resets>> /\ GhostsKept

\* Only a pending session's code deadline is ever looked at.
CodeExpires(s) ==
  /\ row[s].status = "PENDING" /\ ~row[s].codeExpired
  /\ row' = [row EXCEPT ![s].codeExpired = TRUE]
  /\ UNCHANGED <<created, account, up, resets>> /\ GhostsKept

TokenExpires(s) ==
  /\ row[s].status = "VERIFIED" /\ ~row[s].tokenExpired
  /\ row' = [row EXCEPT ![s].tokenExpired = TRUE]
  /\ UNCHANGED <<created, account, up, resets>> /\ GhostsKept

\* The request fails before its next statement: the SMS is refused, the row is
\* missing, the database or the process dies.
Stop(r) ==
  /\ up[r] # Idle
  /\ Done(r)
  /\ UNCHANGED <<row, created, account, resets>> /\ GhostsKept

Next ==
  \/ \E r \in Requests :
       \/ StartLookup(r) \/ StartCooldown(r)
       \/ CountTry(r) \/ ShutSession(r) \/ VerifySession(r) \/ ExpireSession(r)
       \/ CommitReset(r) \/ EraseLookup(r) \/ EraseAccount(r) \/ Stop(r)
       \/ \E s \in Sessions :
            \/ CreateSession(r, s) \/ ResetRead(r, s)
            \/ \E right \in BOOLEAN : ConfirmRead(r, s, right)
  \/ \E s \in Sessions : LockEnds(s) \/ CodeExpires(s) \/ TokenExpires(s)

Spec == Init /\ [][Next]_vars

-----------------------------------------------------------------------------
(* Properties.                                                             *)

RecoveryTypeOK ==
  /\ row \in [Sessions -> Row]
  /\ created \in Seq(Sessions)
  /\ account \in [active : BOOLEAN, password : Sessions \union {Original, Erased}]
  /\ up \in [Requests -> Request \union {Idle}]
  /\ resets \in [Sessions -> Nat]
  /\ overlapped \subseteq Sessions
  /\ rushed \in BOOLEAN /\ late \in BOOLEAN

\* The limit on tries is checked before they are counted, so requests that
\* checked it together may exceed it; but never by more than the requests that
\* can be in flight, less one: a later request sees the counter.
TriesBounded ==
  \A s \in Sessions :
    row[s].attempts + Cardinality(Counting(s))
      <= MaxAttempts - 1 + Cardinality(Requests)

\* A session whose requests never overlapped counts at most MaxAttempts tries.
TriesExactUnlessOverlapped ==
  \A s \in Sessions \ overlapped : row[s].attempts <= MaxAttempts

\* A consumed session changes no password but through requests that had read
\* it before it was consumed: even a confirmation that marks it VERIFIED again
\* does not bring it back.
ConsumedStaysConsumed ==
  \A s \in Sessions :
    /\ resets[s] > 0 => row[s].consumed
    /\ resets[s] + Cardinality(Hashing(s)) <= Cardinality(Requests)

\* One code, one new password, as long as the session's requests come one
\* after the other.
ResetOnceUnlessOverlapped ==
  \A s \in Sessions \ overlapped : resets[s] <= 1

\* The cooldown: as long as no two starts overlap, there is never a second
\* pending code whose resend lock is still running.
CooldownUnlessRushed ==
  ~rushed =>
    \A s, t \in {u \in Sessions : row[u].status = "PENDING" /\ row[u].locked} : s = t

\* What a user whose requests come one after the other can rely on.
RecoveryUndisturbed ==
  TriesExactUnlessOverlapped /\ ResetOnceUnlessOverlapped /\ CooldownUnlessRushed

\* Deleting the account takes its password for good, whatever resets were under
\* way: without its session a reset rolls back.  Only a start that had looked
\* the account up before may still open a session for it.
DeletedStaysErased ==
  ~account.active /\ ~late => account.password = Erased

=============================================================================

------------------------------- MODULE Database -------------------------------
(***************************************************************************)
(* The tables of PostgreSQL as the services of the API share them, and the *)
(* requests that are being served.  A service reads what it checks first   *)
(* and writes in a transaction afterwards; isolation is read committed, so *)
(* other requests commit in between.                                       *)
(*                                                                         *)
(* Two requests overlap when one commits while the other is being served   *)
(* and both work on the same thing: a list of rows, a counter, a status.   *)
(***************************************************************************)
EXTENDS Naturals, FiniteSets

CONSTANTS
  Requests,  \* slots for requests being served at the same time
  Null

VARIABLES
  db,          \* one field per table, ghosts of a table among them
  up,          \* the request in each slot
  overlapped,  \* ghost: requests that another one has overlapped
  blurred      \* ghost: things last written by a request that was overlapped

dbVars == <<db, up, overlapped, blurred>>

Idle == [op |-> "idle", on |-> Null]

\* The tables of one service and those of another.
Joined(these, those) ==
  [t \in DOMAIN these \union DOMAIN those |-> IF t \in DOMAIN these THEN these[t] ELSE those[t]]

DatabaseInit(tables) ==
  /\ db = tables
  /\ up = [r \in Requests |-> Idle]
  /\ overlapped = {}
  /\ blurred = {}

\* The keys of new rows are new; db.used has those that were ever taken.
Fresh(id) == id \notin db.used

\* A request has passed its first checks.
Arrive(r, job) ==
  /\ up[r] = Idle
  /\ up' = [up EXCEPT ![r] = job]
  /\ UNCHANGED <<db, overlapped, blurred>>

\* It goes on to its next statement, knowing more.
Proceed(r, job) ==
  /\ up' = [up EXCEPT ![r] = job]
  /\ UNCHANGED <<db, overlapped, blurred>>

\* The requests that work on the same thing, if it matters what they work on.
Contenders(r) == {s \in Requests : up[r].on # Null /\ up[s].on = up[r].on}

\* Its transaction commits, and it goes on with job.  One that writes all of the
\* thing and was not overlapped leaves it as it should be.
CommitStep(r, tables, job, whole) ==
  /\ db' = tables
  /\ up' = [up EXCEPT ![r] = job]
  /\ overlapped' = (overlapped \union Contenders(r)) \ {r}
  /\ blurred' = IF up[r].on = Null THEN blurred
                ELSE IF r \in overlapped THEN blurred \union {up[r].on}
                ELSE IF whole THEN blurred \ {up[r].on} ELSE blurred

CommitAnd(r, tables, job) == CommitStep(r, tables, job, TRUE)
CommitPart(r, tables) == CommitStep(r, tables, Idle, FALSE)
Commit(r, tables) == CommitAnd(r, tables, Idle)

\* It is refused, or a statement fails and its transaction is rolled back.
Fail(r) ==
  /\ up[r] # Idle
  /\ up' = [up EXCEPT ![r] = Idle]
  /\ overlapped' = overlapped \ {r}
  /\ UNCHANGED <<db, blurred>>

=============================================================================

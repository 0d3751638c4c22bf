-------------------------- MODULE OrderUpdatesProofs --------------------------
(***************************************************************************)
(* Proofs about OrderUpdates, for any number of orders, of concurrent      *)
(* requests and of actors.                                                 *)
(***************************************************************************)
EXTENDS OrderUpdates, TLAPS

-----------------------------------------------------------------------------
(* Lemmas about the status graph.                                          *)

\* A status that ensureValidStatusTransition lets through is an order status
\* other than PENDING, whatever status the order had.
LEMMA FlowTargets ==
  \A p \in OrderStatus : ORDER_STATUS_FLOW[p] \subseteq OrderStatus \ {"PENDING"}
BY DEF ORDER_STATUS_FLOW, OrderStatus

\* The graph has one way into each of the three stages after acceptance.
LEMMA FlowPredecessors ==
  \A p \in OrderStatus :
    /\ "DELIVERED" \in ORDER_STATUS_FLOW[p] => p = "DELIVERY"
    /\ "DELIVERY" \in ORDER_STATUS_FLOW[p] => p = "PREPARING"
    /\ "PREPARING" \in ORDER_STATUS_FLOW[p] => p = "ACCEPTED"
BY DEF ORDER_STATUS_FLOW, OrderStatus

\* "ABSENT" is not an order status.
LEMMA AbsentIsNoStatus == Absent \notin OrderStatus
BY DEF Absent, OrderStatus

-----------------------------------------------------------------------------
(* Type correctness.                                                       *)

\* Every reachable state is well typed: in particular no request leaves a
\* status outside the enum or a history entry without a target.
THEOREM UpdatesTypeCorrect == UpdatesSpec => []UpdatesTypeOK
<1>1. UpdatesInit => UpdatesTypeOK
  BY DEF UpdatesInit, UpdatesTypeOK, Idle
<1>2. UpdatesTypeOK /\ [UpdatesNext]_updateVars => UpdatesTypeOK'
  <2> SUFFICES ASSUME UpdatesTypeOK, [UpdatesNext]_updateVars PROVE UpdatesTypeOK'
    OBVIOUS
  <2> USE DEF UpdatesTypeOK
  <2>1. ASSUME NEW o \in Orders, CreateOrder(o) PROVE UpdatesTypeOK'
    <3>1. [from |-> Absent, to |-> "PENDING"] \in Entry
      BY DEF Entry, OrderStatus
    <3>2. <<[from |-> Absent, to |-> "PENDING"]>> \in Seq(Entry)
      BY <3>1
    <3>3. history' \in [Orders -> Seq(Entry)]
      BY <2>1, <3>2 DEF CreateOrder
    <3> QED
      BY <2>1, <3>3 DEF CreateOrder, OrderStatus
  <2>2. ASSUME NEW r \in Updates, Start(r) PROVE UpdatesTypeOK'
    <3>1. PICK a \in Actors, o \in Orders, s \in Targets : ReadForUpdate(r, a, o, s)
      BY <2>2 DEF Start
    <3>2. [pc |-> "read", order |-> o, from |-> status[o], to |-> s] \in Serving
      BY <3>1, ConstantsAssumption DEF Serving, ReadForUpdate, Placed
    <3> QED
      BY <3>1, <3>2 DEF ReadForUpdate
  <2>3. ASSUME NEW r \in Updates, CommitUpdate(r) PROVE UpdatesTypeOK'
    <3>1. up[r] \in Serving
      BY <2>3 DEF CommitUpdate, Idle
    <3>2. [from |-> up[r].from, to |-> up[r].to] \in Entry
      BY <3>1 DEF Serving, Entry
    <3>3. history' \in [Orders -> Seq(Entry)]
      BY <2>3, <3>1, <3>2 DEF CommitUpdate, Serving
    <3>4. [up[r] EXCEPT !.pc = "hook"] \in Serving
      BY <3>1 DEF Serving
    <3>5. up' \in [Updates -> Serving \union {Idle}]
      BY <2>3, <3>4 DEF CommitUpdate
    <3> QED
      BY <2>3, <3>1, <3>3, <3>5 DEF CommitUpdate, Serving
  <2>4. ASSUME NEW r \in Updates, AbortUpdate(r) \/ EndUpdate(r) PROVE UpdatesTypeOK'
    BY <2>4 DEF AbortUpdate, EndUpdate
  <2>5. CASE UNCHANGED updateVars
    BY <2>5 DEF updateVars
  <2> QED
    BY <2>1, <2>2, <2>3, <2>4, <2>5 DEF UpdatesNext
<1> QED
  BY <1>1, <1>2, PTL DEF UpdatesSpec

-----------------------------------------------------------------------------
(* Why no stage is ever skipped.                                           *)

\* A request that is past its transition check works on an existing order.
LEMMA ServingIsTyped ==
  ASSUME UpdatesTypeOK, NEW r \in Updates, up[r].pc # "idle"
  PROVE  up[r] \in Serving
BY DEF UpdatesTypeOK, Idle

\* Grounded is inductive: a request that commits late brings the order back
\* only to a stage that follows one the order had already held.
THEOREM GroundedHolds == UpdatesSpec => []Grounded
<1>1. UpdatesInit => Grounded
  BY DEF UpdatesInit, Grounded, Idle, Placed
<1>2. UpdatesTypeOK /\ Grounded /\ [UpdatesNext]_updateVars => Grounded'
  <2> SUFFICES ASSUME UpdatesTypeOK, Grounded, [UpdatesNext]_updateVars PROVE Grounded'
    OBVIOUS
  <2>1. ASSUME NEW o \in Orders, CreateOrder(o) PROVE Grounded'
    <3>1. \A r \in Updates : up[r].pc = "read" => up[r].order # o
      BY <2>1 DEF CreateOrder, Grounded
    <3>2. \A p \in Orders : p # o => status'[p] = status[p] /\ stamped'[p] = stamped[p]
      BY <2>1 DEF CreateOrder, UpdatesTypeOK
    <3>3. status'[o] = "PENDING" /\ stamped'[o] = {"PENDING"}
      BY <2>1 DEF CreateOrder, UpdatesTypeOK
    <3>4. \A r \in Updates : up[r].pc = "read" => up[r].order \in Orders
      BY ServingIsTyped DEF Serving
    <3> QED
      BY <2>1, <3>1, <3>2, <3>3, <3>4 DEF CreateOrder, Grounded, Placed, Absent
  <2>2. ASSUME NEW r \in Updates, Start(r) PROVE Grounded'
    <3>1. PICK a \in Actors, o \in Orders, s \in Targets : ReadForUpdate(r, a, o, s)
      BY <2>2 DEF Start
    <3>2. up'[r] = [pc |-> "read", order |-> o, from |-> status[o], to |-> s]
      BY <3>1 DEF ReadForUpdate, UpdatesTypeOK
    <3>3. \A q \in Updates : q # r => up'[q] = up[q]
      BY <3>1 DEF ReadForUpdate, UpdatesTypeOK
    <3>4. status[o] \in stamped[o] /\ s \in ORDER_STATUS_FLOW[status[o]]
      BY <3>1 DEF ReadForUpdate, Grounded, ensureValidStatusTransition
    <3> QED
      BY <3>1, <3>2, <3>3, <3>4 DEF ReadForUpdate, Grounded, Placed
  <2>3. ASSUME NEW r \in Updates, CommitUpdate(r) PROVE Grounded'
    <3> DEFINE o == up[r].order
               s == up[r].to
    <3>1. up[r] \in Serving
      BY <2>3, ServingIsTyped DEF CommitUpdate
    <3>2. o \in Orders /\ s \in OrderStatus
      BY <3>1 DEF Serving
    <3>3. up[r].from \in stamped[o] /\ s \in ORDER_STATUS_FLOW[up[r].from]
      BY <2>3 DEF CommitUpdate, Grounded
    <3>4. status'[o] = s /\ stamped'[o] = stamped[o] \union {s}
      BY <2>3, <3>2 DEF CommitUpdate, UpdatesTypeOK
    <3>5. \A p \in Orders : p # o => status'[p] = status[p] /\ stamped'[p] = stamped[p]
      BY <2>3, <3>2 DEF CommitUpdate, UpdatesTypeOK
    <3>6. \A q \in Updates : up'[q].pc = "read" => up'[q] = up[q]
      BY <2>3, <3>1 DEF CommitUpdate, UpdatesTypeOK, Serving
    <3>7. \A q \in Updates : up[q].pc = "read" => up[q].order \in Orders
      BY ServingIsTyped DEF Serving
    <3> HIDE DEF o, s
    <3>8. \A p \in Orders :
            /\ Placed(p)' => status'[p] \in stamped'[p]
            /\ ~Placed(p)' => stamped'[p] = {}
            /\ \A u \in stamped'[p] \ {"PENDING"} :
                 \E v \in stamped'[p] : u \in ORDER_STATUS_FLOW[v]
      BY <3>2, <3>3, <3>4, <3>5, AbsentIsNoStatus DEF Grounded, Placed
    <3>9. \A q \in Updates : up'[q].pc = "read" =>
            /\ up'[q].from \in stamped'[up'[q].order]
            /\ up'[q].to \in ORDER_STATUS_FLOW[up'[q].from]
      BY <3>2, <3>4, <3>5, <3>6, <3>7 DEF Grounded
    <3> QED
      BY <3>8, <3>9 DEF Grounded
  <2>4. ASSUME NEW r \in Updates, AbortUpdate(r) \/ EndUpdate(r) PROVE Grounded'
    <3>1. \A q \in Updates : up'[q].pc = "read" => up'[q] = up[q]
      BY <2>4 DEF AbortUpdate, EndUpdate, UpdatesTypeOK, Idle
    <3> QED
      BY <2>4, <3>1 DEF AbortUpdate, EndUpdate, Grounded, Placed
  <2>5. CASE UNCHANGED updateVars
    BY <2>5 DEF updateVars, Grounded, Placed
  <2> QED
    BY <2>1, <2>2, <2>3, <2>4, <2>5 DEF UpdatesNext
<1> QED
  BY <1>1, <1>2, UpdatesTypeCorrect, PTL DEF UpdatesSpec

\* However the requests interleave, an order that is delivered has been sent
\* out, prepared and accepted first.
THEOREM StagesNeverSkipped == UpdatesSpec => []NoSkippedStage
<1>1. UpdatesTypeOK /\ Grounded => NoSkippedStage
  <2> SUFFICES ASSUME UpdatesTypeOK, Grounded, NEW o \in Orders,
                      NEW s \in stamped[o], s # "PENDING"
               PROVE  /\ s = "DELIVERED" => "DELIVERY" \in stamped[o]
                      /\ s = "DELIVERY" => "PREPARING" \in stamped[o]
                      /\ s = "PREPARING" => "ACCEPTED" \in stamped[o]
    BY DEF NoSkippedStage
  <2>1. PICK p \in stamped[o] : s \in ORDER_STATUS_FLOW[p]
    BY DEF Grounded
  <2>2. p \in OrderStatus
    BY DEF UpdatesTypeOK
  <2> QED
    BY <2>1, <2>2, FlowPredecessors
<1> QED
  BY <1>1, UpdatesTypeCorrect, GroundedHolds, PTL

\* A request that has committed has set the timestamp of its status, which no
\* later request clears.
CommittedStays ==
  \A r \in Updates : up[r].pc = "hook" => up[r].to \in stamped[up[r].order]

\* CommittedStays is inductive.
LEMMA CommittedStaysHolds == UpdatesSpec => []CommittedStays
<1>1. UpdatesInit => CommittedStays
  BY DEF UpdatesInit, CommittedStays, Idle
<1>2. UpdatesTypeOK /\ Grounded /\ CommittedStays /\ [UpdatesNext]_updateVars
        => CommittedStays'
  <2> SUFFICES ASSUME UpdatesTypeOK, Grounded, CommittedStays, [UpdatesNext]_updateVars
               PROVE  CommittedStays'
    OBVIOUS
  <2>1. ASSUME NEW o \in Orders, CreateOrder(o) PROVE CommittedStays'
    <3>1. stamped[o] = {}
      BY <2>1 DEF CreateOrder, Grounded
    <3> QED
      BY <2>1, <3>1 DEF CreateOrder, CommittedStays, UpdatesTypeOK
  <2>2. ASSUME NEW r \in Updates, CommitUpdate(r) PROVE CommittedStays'
    <3>1. up[r] \in Serving
      BY <2>2, ServingIsTyped DEF CommitUpdate
    <3>2. /\ up'[r].to = up[r].to
          /\ up'[r].order = up[r].order
          /\ \A q \in Updates : q # r => up'[q] = up[q]
      BY <2>2, <3>1 DEF CommitUpdate, UpdatesTypeOK, Serving
    <3>3. /\ up[r].to \in stamped'[up[r].order]
          /\ \A o \in Orders : stamped[o] \subseteq stamped'[o]
      BY <2>2, <3>1 DEF CommitUpdate, UpdatesTypeOK, Serving
    <3>4. \A q \in Updates : up[q].pc = "hook" => up[q].order \in Orders
      BY ServingIsTyped DEF Serving
    <3>5. \A q \in Updates : q # r /\ up'[q].pc = "hook" => up[q].to \in stamped'[up[q].order]
      BY <3>2, <3>3, <3>4 DEF CommittedStays
    <3> QED
      BY <3>2, <3>3, <3>5 DEF CommittedStays
  <2>3. ASSUME NEW r \in Updates, Start(r) \/ AbortUpdate(r) \/ EndUpdate(r)
        PROVE  CommittedStays'
    <3>1. \A q \in Updates : up'[q].pc = "hook" => up'[q] = up[q]
      BY <2>3 DEF Start, ReadForUpdate, AbortUpdate, EndUpdate, UpdatesTypeOK, Idle
    <3> QED
      BY <2>3, <3>1 DEF Start, ReadForUpdate, AbortUpdate, EndUpdate, CommittedStays
  <2>4. CASE UNCHANGED updateVars
    BY <2>4 DEF updateVars, CommittedStays
  <2> QED
    BY <2>1, <2>2, <2>3, <2>4 DEF UpdatesNext
<1> QED
  BY <1>1, <1>2, UpdatesTypeCorrect, GroundedHolds, PTL DEF UpdatesSpec

-----------------------------------------------------------------------------
(* OrderUpdates implements OrderLifecycle.                                 *)

\* Every step of every request is, on the status and the timestamps, a step of
\* the abstract life cycle or none at all.
THEOREM ImplementsLifecycle == UpdatesSpec => LifecycleRefined
<1>1. UpdatesInit => Lifecycle!LifecycleInit
  BY DEF UpdatesInit, Lifecycle!LifecycleInit, Absent
<1>2. UpdatesTypeOK /\ Grounded /\ [UpdatesNext]_updateVars
        => [Lifecycle!LifecycleNext]_(Lifecycle!lifecycleVars)
  <2> SUFFICES ASSUME UpdatesTypeOK, Grounded, [UpdatesNext]_updateVars
               PROVE  Lifecycle!LifecycleNext \/ UNCHANGED <<status, stamped>>
    BY DEF Lifecycle!lifecycleVars
  <2>1. ASSUME NEW o \in Orders, CreateOrder(o) PROVE Lifecycle!LifecycleNext
    BY <2>1 DEF CreateOrder, Placed, Absent, Lifecycle!LifecycleNext, Lifecycle!Place
  <2>2. ASSUME NEW r \in Updates, CommitUpdate(r) PROVE Lifecycle!LifecycleNext
    <3>1. up[r] \in Serving
      BY <2>2, ServingIsTyped DEF CommitUpdate
    <3>2. up[r].order \in Orders /\ up[r].to \in OrderStatus
      BY <3>1 DEF Serving
    <3>3. \E p \in stamped[up[r].order] : up[r].to \in ORDER_STATUS_FLOW[p]
      BY <2>2 DEF CommitUpdate, Grounded
    <3>4. Lifecycle!Move(up[r].order, up[r].to)
      BY <2>2, <3>3
         DEF CommitUpdate, Lifecycle!Move, ORDER_STATUS_FLOW, Lifecycle!ORDER_STATUS_FLOW
    <3> QED
      BY <3>2, <3>4 DEF Lifecycle!LifecycleNext, OrderStatus, Lifecycle!OrderStatus
  <2>3. ASSUME NEW r \in Updates, Start(r) \/ AbortUpdate(r) \/ EndUpdate(r)
        PROVE  UNCHANGED <<status, stamped>>
    BY <2>3 DEF Start, ReadForUpdate, AbortUpdate, EndUpdate
  <2>4. CASE UNCHANGED updateVars
    BY <2>4 DEF updateVars
  <2> QED
    BY <2>1, <2>2, <2>3, <2>4 DEF UpdatesNext
<1> QED
  BY <1>1, <1>2, UpdatesTypeCorrect, GroundedHolds, PTL
     DEF UpdatesSpec, LifecycleRefined, Lifecycle!LifecycleSpec

-----------------------------------------------------------------------------
(* The audit trail.                                                        *)

\* Inductive form of AuditTrail: it also says that a row that does not exist
\* has no history.
TrailInv == AuditTrail /\ \A o \in Orders : ~Placed(o) => history[o] = <<>>

\* The last history entry always carries the order's status, and the timestamps
\* set are those of the statuses in the history.
THEOREM AuditTrailHolds == UpdatesSpec => []AuditTrail
<1>1. UpdatesInit => TrailInv
  BY DEF UpdatesInit, TrailInv, AuditTrail, Placed
<1>2. UpdatesTypeOK /\ Grounded /\ TrailInv /\ [UpdatesNext]_updateVars => TrailInv'
  <2> SUFFICES ASSUME UpdatesTypeOK, Grounded, TrailInv, [UpdatesNext]_updateVars
               PROVE  TrailInv'
    OBVIOUS
  <2>1. ASSUME NEW o \in Orders, CreateOrder(o) PROVE TrailInv'
    <3>1. \A p \in Orders : p # o => /\ status'[p] = status[p]
                                    /\ stamped'[p] = stamped[p]
                                    /\ history'[p] = history[p]
      BY <2>1 DEF CreateOrder, UpdatesTypeOK
    <3>2. /\ status'[o] = "PENDING"
          /\ stamped'[o] = {"PENDING"}
          /\ history'[o] = <<[from |-> Absent, to |-> "PENDING"]>>
      BY <2>1 DEF CreateOrder, UpdatesTypeOK
    <3> QED
      BY <3>1, <3>2 DEF TrailInv, AuditTrail, Placed, Absent
  <2>2. ASSUME NEW r \in Updates, CommitUpdate(r) PROVE TrailInv'
    <3> DEFINE o == up[r].order
               e == [from |-> up[r].from, to |-> up[r].to]
    <3>1. up[r] \in Serving
      BY <2>2, ServingIsTyped DEF CommitUpdate
    <3>2. o \in Orders /\ e \in Entry /\ e.to = up[r].to /\ e.to # Absent
      BY <3>1, AbsentIsNoStatus DEF Serving, Entry
    <3>3. Placed(o)
      BY <2>2, <3>2 DEF CommitUpdate, Grounded
    <3>4. /\ history[o] \in Seq(Entry)
          /\ history[o] # <<>>
          /\ stamped[o] = {history[o][i].to : i \in DOMAIN history[o]}
      BY <3>2, <3>3 DEF TrailInv, AuditTrail, UpdatesTypeOK
    <3>5. /\ status'[o] = e.to
          /\ stamped'[o] = stamped[o] \union {e.to}
          /\ history'[o] = Append(history[o], e)
      BY <2>2, <3>2 DEF CommitUpdate, UpdatesTypeOK
    <3>6. \A p \in Orders : p # o => /\ status'[p] = status[p]
                                    /\ stamped'[p] = stamped[p]
                                    /\ history'[p] = history[p]
      BY <2>2, <3>2 DEF CommitUpdate, UpdatesTypeOK
    <3> HIDE DEF o, e
    <3>7. /\ Len(history'[o]) = Len(history[o]) + 1
          /\ history'[o][Len(history'[o])] = e
          /\ \A i \in DOMAIN history[o] : history'[o][i] = history[o][i]
          /\ DOMAIN history'[o] = DOMAIN history[o] \union {Len(history'[o])}
      BY <3>2, <3>4, <3>5
    <3>8. stamped'[o] = {history'[o][i].to : i \in DOMAIN history'[o]}
      BY <3>4, <3>5, <3>7
    <3>9. history'[o] # <<>>
      BY <3>4, <3>7
    <3>10. history'[o][Len(history'[o])].to = status'[o] /\ status'[o] # Absent
      BY <3>2, <3>5, <3>7
    <3>11. ASSUME NEW p \in Orders, p # o
           PROVE  /\ status'[p] # Absent =>
                      /\ history'[p] # <<>>
                      /\ history'[p][Len(history'[p])].to = status'[p]
                      /\ stamped'[p] = {history'[p][i].to : i \in DOMAIN history'[p]}
                  /\ status'[p] = Absent => history'[p] = <<>>
      BY <3>6, <3>11 DEF TrailInv, AuditTrail, Placed
    <3> QED
      BY <3>8, <3>9, <3>10, <3>11 DEF TrailInv, AuditTrail, Placed
  <2>3. ASSUME NEW r \in Updates, Start(r) \/ AbortUpdate(r) \/ EndUpdate(r)
        PROVE  TrailInv'
    BY <2>3 DEF Start, ReadForUpdate, AbortUpdate, EndUpdate, TrailInv, AuditTrail, Placed
  <2>4. CASE UNCHANGED updateVars
    BY <2>4 DEF updateVars, TrailInv, AuditTrail, Placed
  <2> QED
    BY <2>1, <2>2, <2>3, <2>4 DEF UpdatesNext
<1>3. TrailInv => AuditTrail
  BY DEF TrailInv
<1> QED
  BY <1>1, <1>2, <1>3, UpdatesTypeCorrect, GroundedHolds, PTL DEF UpdatesSpec

-----------------------------------------------------------------------------
(* Requests that never overlap follow the graph.                           *)

\* While an order's requests have not overlapped, at most one is in flight, and
\* the status it read is still the order's.
Undisturbed ==
  \A r \in Updates : up[r].pc # "idle" /\ up[r].order \notin overlapped =>
    /\ \A q \in Updates : up[q].pc # "idle" /\ up[q].order = up[r].order => q = r
    /\ up[r].pc = "read" => up[r].from = status[up[r].order]

\* Undisturbed is inductive.
LEMMA UndisturbedHolds == UpdatesSpec => []Undisturbed
<1>1. UpdatesInit => Undisturbed
  BY DEF UpdatesInit, Undisturbed, Idle
<1>2. UpdatesTypeOK /\ Grounded /\ Undisturbed /\ [UpdatesNext]_updateVars => Undisturbed'
  <2> SUFFICES ASSUME UpdatesTypeOK, Grounded, Undisturbed, [UpdatesNext]_updateVars
               PROVE  Undisturbed'
    OBVIOUS
  <2>1. ASSUME NEW o \in Orders, CreateOrder(o) PROVE Undisturbed'
    <3>1. \A r \in Updates : up[r].pc = "read" => up[r].order # o /\ up[r].order \in Orders
      BY <2>1, ServingIsTyped DEF CreateOrder, Grounded, Serving
    <3> QED
      BY <2>1, <3>1 DEF CreateOrder, Undisturbed, UpdatesTypeOK
  <2>2. ASSUME NEW r \in Updates, Start(r) PROVE Undisturbed'
    <3>1. PICK a \in Actors, o \in Orders, s \in Targets : ReadForUpdate(r, a, o, s)
      BY <2>2 DEF Start
    <3>2. up'[r] = [pc |-> "read", order |-> o, from |-> status[o], to |-> s]
      BY <3>1 DEF ReadForUpdate, UpdatesTypeOK
    <3>3. \A q \in Updates : q # r => up'[q] = up[q]
      BY <3>1 DEF ReadForUpdate, UpdatesTypeOK
    <3>4. overlapped \subseteq overlapped' /\ status' = status
      BY <3>1 DEF ReadForUpdate
    <3>5. o \notin overlapped' => \A q \in Updates : up[q].pc # "idle" => up[q].order # o
      BY <3>1 DEF ReadForUpdate, Quiet, InFlight
    <3> QED
      BY <3>2, <3>3, <3>4, <3>5 DEF Undisturbed
  <2>3. ASSUME NEW r \in Updates, CommitUpdate(r) PROVE Undisturbed'
    <3>1. up[r] \in Serving /\ up[r].pc = "read"
      BY <2>3, ServingIsTyped DEF CommitUpdate
    <3>2. up'[r].pc = "hook" /\ up'[r].order = up[r].order
      BY <2>3, <3>1 DEF CommitUpdate, UpdatesTypeOK, Serving
    <3>3. \A q \in Updates : q # r => up'[q] = up[q]
      BY <2>3 DEF CommitUpdate, UpdatesTypeOK
    <3>4. \A p \in Orders : p # up[r].order => status'[p] = status[p]
      BY <2>3 DEF CommitUpdate, UpdatesTypeOK
    <3>5. \A q \in Updates : up[q].pc # "idle" => up[q].order \in Orders
      BY ServingIsTyped DEF Serving
    <3> QED
      BY <2>3, <3>1, <3>2, <3>3, <3>4, <3>5 DEF CommitUpdate, Undisturbed
  <2>4. ASSUME NEW r \in Updates, AbortUpdate(r) \/ EndUpdate(r) PROVE Undisturbed'
    <3>1. \A q \in Updates : up'[q].pc # "idle" => up'[q] = up[q]
      BY <2>4 DEF AbortUpdate, EndUpdate, UpdatesTypeOK, Idle
    <3> QED
      BY <2>4, <3>1 DEF AbortUpdate, EndUpdate, Undisturbed
  <2>5. CASE UNCHANGED updateVars
    BY <2>5 DEF updateVars, Undisturbed
  <2> QED
    BY <2>1, <2>2, <2>3, <2>4, <2>5 DEF UpdatesNext
<1> QED
  BY <1>1, <1>2, UpdatesTypeCorrect, GroundedHolds, PTL DEF UpdatesSpec

\* Leaving overlapping requests aside, every status change follows an edge of
\* ORDER_STATUS_FLOW.
THEOREM FlowHolds == UpdatesSpec => FlowUnlessOverlapped
<1> DEFINE Edge == \A o \in Orders \ overlapped' :
                     Placed(o) /\ status'[o] # status[o]
                       => status'[o] \in ORDER_STATUS_FLOW[status[o]]
<1>1. UpdatesTypeOK /\ Grounded /\ Undisturbed /\ [UpdatesNext]_updateVars
        => [Edge]_updateVars
  <2> SUFFICES ASSUME UpdatesTypeOK, Grounded, Undisturbed, UpdatesNext PROVE Edge
    OBVIOUS
  <2>1. ASSUME NEW o \in Orders, CreateOrder(o) PROVE Edge
    BY <2>1 DEF CreateOrder, Placed, UpdatesTypeOK
  <2>2. ASSUME NEW r \in Updates, CommitUpdate(r) PROVE Edge
    <3>1. up[r] \in Serving /\ up[r].pc = "read"
      BY <2>2, ServingIsTyped DEF CommitUpdate
    <3>2. \A p \in Orders : p # up[r].order => status'[p] = status[p]
      BY <2>2 DEF CommitUpdate, UpdatesTypeOK
    <3>3. status'[up[r].order] = up[r].to /\ overlapped' = overlapped
      BY <2>2, <3>1 DEF CommitUpdate, UpdatesTypeOK, Serving
    <3>4. up[r].to \in ORDER_STATUS_FLOW[up[r].from]
      BY <3>1 DEF Grounded
    <3> QED
      BY <3>1, <3>2, <3>3, <3>4 DEF Undisturbed
  <2>3. ASSUME NEW r \in Updates, Start(r) \/ AbortUpdate(r) \/ EndUpdate(r) PROVE Edge
    BY <2>3 DEF Start, ReadForUpdate, AbortUpdate, EndUpdate
  <2> QED
    BY <2>1, <2>2, <2>3 DEF UpdatesNext
<1> QED
  BY <1>1, UpdatesTypeCorrect, GroundedHolds, UndisturbedHolds, PTL
     DEF UpdatesSpec, FlowUnlessOverlapped

\* Where requests have not overlapped, every entry of the history starts where the one
\* before it ended: the request that appends it has read the status the last one set.
THEOREM HistoryHolds == UpdatesSpec => []HistorySound
<1>1. UpdatesInit => ChainUnlessOverlapped
  BY DEF UpdatesInit, ChainUnlessOverlapped
<1>2. UpdatesTypeOK /\ Grounded /\ AuditTrail /\ Undisturbed /\ ChainUnlessOverlapped
        /\ [UpdatesNext]_updateVars => ChainUnlessOverlapped'
  <2> SUFFICES ASSUME UpdatesTypeOK, Grounded, AuditTrail, Undisturbed, ChainUnlessOverlapped,
                      [UpdatesNext]_updateVars
               PROVE  ChainUnlessOverlapped'
    OBVIOUS
  <2>1. ASSUME NEW o \in Orders, CreateOrder(o) PROVE ChainUnlessOverlapped'
    <3>1. \A p \in Orders : p # o => history'[p] = history[p]
      BY <2>1 DEF CreateOrder, UpdatesTypeOK
    <3>2. Len(history'[o]) = 1 /\ overlapped' = overlapped
      BY <2>1 DEF CreateOrder, UpdatesTypeOK
    <3> QED
      BY <3>1, <3>2 DEF ChainUnlessOverlapped
  <2>2. ASSUME NEW r \in Updates, CommitUpdate(r) PROVE ChainUnlessOverlapped'
    <3> DEFINE o == up[r].order
               e == [from |-> up[r].from, to |-> up[r].to]
    <3>1. up[r] \in Serving /\ up[r].pc = "read"
      BY <2>2, ServingIsTyped DEF CommitUpdate
    <3>2. o \in Orders /\ e \in Entry
      BY <3>1 DEF Serving, Entry
    <3>3. overlapped' = overlapped /\ history'[o] = Append(history[o], e)
      BY <2>2, <3>2 DEF CommitUpdate, UpdatesTypeOK
    <3>4. \A p \in Orders : p # o => history'[p] = history[p]
      BY <2>2, <3>2 DEF CommitUpdate, UpdatesTypeOK
    <3>5. history[o] \in Seq(Entry)
      BY <3>2 DEF UpdatesTypeOK
    <3>6. Placed(o)
      BY <3>1, <3>2 DEF Grounded
    <3>7. o \notin overlapped => e.from = status[o]
      BY <3>1 DEF Undisturbed
    <3>8. history[o] # <<>> /\ history[o][Len(history[o])].to = status[o]
      BY <3>2, <3>6 DEF AuditTrail
    <3> HIDE DEF o, e
    <3>9. /\ Len(history'[o]) = Len(history[o]) + 1 /\ Len(history[o]) \in Nat \ {0}
          /\ history'[o][Len(history'[o])] = e
          /\ \A i \in 1..Len(history[o]) : history'[o][i] = history[o][i]
      BY <3>2, <3>3, <3>5, <3>8
    <3>10. Len(history'[o]) \in Nat
      BY <3>9
    <3>11. ASSUME o \notin overlapped, NEW i \in 2..Len(history'[o])
           PROVE  history'[o][i].from = history'[o][i - 1].to
      <4>1. CASE i = Len(history'[o])
        <5>1. i - 1 = Len(history[o]) /\ i - 1 \in 1..Len(history[o])
          BY <3>9, <3>10, <4>1
        <5> QED
          BY <3>7, <3>8, <3>9, <3>11, <4>1, <5>1
      <4>2. CASE i # Len(history'[o])
        <5>1. i \in 2..Len(history[o]) /\ i \in 1..Len(history[o]) /\ i - 1 \in 1..Len(history[o])
          BY <3>9, <3>10, <4>2
        <5>2. history[o][i].from = history[o][i - 1].to
          BY <3>2, <3>11, <5>1 DEF ChainUnlessOverlapped
        <5> QED
          BY <3>9, <5>1, <5>2
      <4> QED
        BY <4>1, <4>2
    <3>12. ASSUME NEW p \in Orders \ overlapped', NEW i \in 2..Len(history'[p])
           PROVE  history'[p][i].from = history'[p][i - 1].to
      <4>1. CASE p = o
        BY <3>3, <3>11, <3>12, <4>1
      <4>2. CASE p # o
        BY <3>3, <3>4, <3>12, <4>2 DEF ChainUnlessOverlapped
      <4> QED
        BY <4>1, <4>2
    <3> QED
      BY <3>12 DEF ChainUnlessOverlapped
  <2>3. ASSUME NEW r \in Updates, Start(r) PROVE ChainUnlessOverlapped'
    <3>1. history' = history /\ overlapped \subseteq overlapped'
      BY <2>3 DEF Start, ReadForUpdate
    <3> QED
      BY <3>1 DEF ChainUnlessOverlapped
  <2>4. ASSUME NEW r \in Updates, AbortUpdate(r) \/ EndUpdate(r) PROVE ChainUnlessOverlapped'
    BY <2>4 DEF AbortUpdate, EndUpdate, ChainUnlessOverlapped
  <2>5. CASE UNCHANGED updateVars
    BY <2>5 DEF updateVars, ChainUnlessOverlapped
  <2> QED
    BY <2>1, <2>2, <2>3, <2>4, <2>5 DEF UpdatesNext
<1>3. AuditTrail /\ ChainUnlessOverlapped => HistorySound
  BY DEF HistorySound
<1> QED
  BY <1>1, <1>2, <1>3, UpdatesTypeCorrect, GroundedHolds, AuditTrailHolds, UndisturbedHolds, PTL
     DEF UpdatesSpec

=============================================================================

-------------------------- MODULE OrderNotifications --------------------------
(***************************************************************************)
(* What the customer and the restaurant panel are told of an order.        *)
(*                                                                         *)
(* After its transaction commits, updateStatus reads the order again,      *)
(* pushes the status it finds to the customer's phone (Expo) and publishes *)
(* the status that was REQUESTED to the restaurant's channel (Ably).       *)
(* create announces a new order on the same channel after its own commit.  *)
(* Both services swallow failures; a failed database read or the death of  *)
(* the process drops what was still to be sent.  Nothing is retried.       *)
(*                                                                         *)
(* The "hook" stage of OrderUpdates is refined into those steps, so the    *)
(* steps of concurrent requests interleave.  The owner's own push of a new *)
(* order carries no status and is left out; the coupon step that comes     *)
(* first touches nothing named here (see OrderCoupons).                    *)
(***************************************************************************)
EXTENDS OrderUpdates

VARIABLES
  job,       \* per slot: what is to be sent next, and the status read for the push
  announced, \* per order: "no", "due" from create's commit on, "yes"
  phone,     \* the status the customer was last told
  panel,     \* the status the restaurant panel was last told
  \* Ghosts.
  news,      \* the statuses pushed since the order's last status commit
  lost,      \* orders of which some message was not delivered
  muddled    \* orders two of whose create and status requests were in flight at once

notifyVars == <<job, announced, phone, panel, news, lost, muddled>>
toldVars == <<updateVars, notifyVars>>

NoJob == [stage |-> "none", seen |-> Absent]
Changed(o) == Len(history[o]) > 1

NotifyTypeOK ==
  /\ UpdatesTypeOK
  /\ job \in [Updates -> [stage : {"none", "fetch", "push", "publish"},
                          seen  : OrderStatus \union {Absent}]]
  /\ announced \in [Orders -> {"no", "due", "yes"}]
  /\ phone \in [Orders -> OrderStatus \union {Absent}]
  /\ panel \in [Orders -> OrderStatus \union {Absent}]
  /\ news \in [Orders -> SUBSET OrderStatus]
  /\ lost \subseteq Orders
  /\ muddled \subseteq Orders

NotifyInit ==
  /\ UpdatesInit
  /\ job = [r \in Updates |-> NoJob]
  /\ announced = [o \in Orders |-> "no"]
  /\ phone = [o \in Orders |-> Absent]
  /\ panel = [o \in Orders |-> Absent]
  /\ news = [o \in Orders |-> {}]
  /\ lost = {}
  /\ muddled = {}

-----------------------------------------------------------------------------
(* Steps of the code.                                                      *)

\* create commits: the announcement is still to come.
Create(o) ==
  /\ CreateOrder(o)
  /\ announced' = [announced EXCEPT ![o] = "due"]
  /\ UNCHANGED <<job, phone, panel, news, lost, muddled>>

\* notifyRestaurantNewOrder publishes new-order.
Announce(o) ==
  /\ announced[o] = "due"
  /\ announced' = [announced EXCEPT ![o] = "yes"]
  /\ panel' = [panel EXCEPT ![o] = "PENDING"]
  /\ UNCHANGED <<updateVars, job, phone, news, lost, muddled>>

\* Its read of the order fails (create then answers with an error although the
\* order exists), the publication fails, or the process dies.
AnnounceFails(o) ==
  /\ announced[o] = "due"
  /\ announced' = [announced EXCEPT ![o] = "yes"]
  /\ lost' = lost \union {o}
  /\ UNCHANGED <<updateVars, job, phone, panel, news, muddled>>

\* updateStatus, up to its commit.
NotifyRead(r) ==
  /\ Start(r)
  /\ muddled' = LET o == up'[r].order
                IN  IF Quiet(o) /\ announced[o] # "due" THEN muddled ELSE muddled \union {o}
  /\ UNCHANGED <<job, announced, phone, panel, news, lost>>

NotifyCommit(r) ==
  /\ CommitUpdate(r)
  /\ job' = [job EXCEPT ![r] = [stage |-> "fetch", seen |-> Absent]]
  /\ news' = [news EXCEPT ![up[r].order] = {}]
  /\ UNCHANGED <<announced, phone, panel, lost, muddled>>

NotifyAbort(r) == AbortUpdate(r) /\ UNCHANGED notifyVars

\* A slip: the push is built from the order as the request first read it.
FetchForPush_Stale(r) ==
  /\ job[r].stage = "fetch"
  /\ job' = [job EXCEPT ![r] = [stage |-> "push", seen |-> up[r].from]]
  /\ UNCHANGED <<updateVars, announced, phone, panel, news, lost, muddled>>

\* notifyOrderStatusChange reads the order again.
FetchForPush(r) ==
  /\ job[r].stage = "fetch"
  /\ job' = [job EXCEPT ![r] = [stage |-> "push", seen |-> status[up[r].order]]]
  /\ UNCHANGED <<updateVars, announced, phone, panel, news, lost, muddled>>

\* A slip: the push goes out only while the order is still being worked on.
SendPush_NotWhenClosed(r) ==
  LET o == up[r].order
      told == job[r].seen # "CANCELED"
  IN  /\ job[r].stage = "push"
      /\ phone' = IF told THEN [phone EXCEPT ![o] = job[r].seen] ELSE phone
      /\ news' = IF told THEN [news EXCEPT ![o] = @ \union {job[r].seen}] ELSE news
      /\ job' = [job EXCEPT ![r].stage = "publish"]
      /\ UNCHANGED <<updateVars, announced, panel, lost, muddled>>

\* sendToExpoPushToken delivers.
SendPush(r) ==
  LET o == up[r].order
  IN  /\ job[r].stage = "push"
      /\ phone' = [phone EXCEPT ![o] = job[r].seen]
      /\ news' = [news EXCEPT ![o] = @ \union {job[r].seen}]
      /\ job' = [job EXCEPT ![r].stage = "publish"]
      /\ UNCHANGED <<updateVars, announced, panel, lost, muddled>>

\* The customer has no push token, push is disabled, or Expo fails: only logged.
SkipPush(r) ==
  /\ job[r].stage = "push"
  /\ job' = [job EXCEPT ![r].stage = "publish"]
  /\ lost' = lost \union {up[r].order}
  /\ UNCHANGED <<updateVars, announced, phone, panel, news, muddled>>

\* A slip: previousStatus and newStatus swapped in the event.
Publish_Swapped(r) ==
  /\ job[r].stage = "publish"
  /\ EndUpdate(r)
  /\ panel' = [panel EXCEPT ![up[r].order] = up[r].from]
  /\ job' = [job EXCEPT ![r] = NoJob]
  /\ UNCHANGED <<announced, phone, news, lost, muddled>>

\* publishOrderStatusChanged, and the answer to the request.
Publish(r) ==
  /\ job[r].stage = "publish"
  /\ EndUpdate(r)
  /\ panel' = [panel EXCEPT ![up[r].order] = up[r].to]
  /\ job' = [job EXCEPT ![r] = NoJob]
  /\ UNCHANGED <<announced, phone, news, lost, muddled>>

\* The read of notifyOrderStatusChange fails, the publication fails, or the
\* process dies: what was still to be sent is never sent.
NotifyFails(r) ==
  /\ EndUpdate(r)
  /\ job' = [job EXCEPT ![r] = NoJob]
  /\ lost' = lost \union {up[r].order}
  /\ UNCHANGED <<announced, phone, panel, news, muddled>>

NotifyNext ==
  \/ \E o \in Orders : Create(o) \/ Announce(o) \/ AnnounceFails(o)
  \/ \E r \in Updates :
       \/ NotifyRead(r) \/ NotifyCommit(r) \/ NotifyAbort(r)
       \/ FetchForPush(r) \/ SendPush(r) \/ SkipPush(r) \/ Publish(r) \/ NotifyFails(r)

NotifySpec == NotifyInit /\ [][NotifyNext]_toldVars

-----------------------------------------------------------------------------
(* Properties.                                                             *)

\* Unless a message was lost, once an order's requests have ended the customer
\* has been told its status since it last changed, even when requests raced:
\* the push reads the order after its own commit, so the last one to commit
\* cannot miss the outcome.
CustomerIsTold ==
  \A o \in Orders :
    Changed(o) /\ Quiet(o) /\ o \notin lost => status[o] \in news[o]

\* If in addition its status requests never overlapped, that is also the LAST
\* thing the customer was told.
LastPushIsCurrent ==
  \A o \in Orders \ overlapped :
    Changed(o) /\ Quiet(o) /\ o \notin lost => phone[o] = status[o]

\* The panel shows the order's status once its requests have ended, unless an
\* event was lost or requests (create's announcement included) overlapped.
PanelIsCurrent ==
  \A o \in Orders \ (muddled \union lost) :
    Placed(o) /\ Quiet(o) /\ announced[o] = "yes" => panel[o] = status[o]

\* What phone and panel showed last is the status, under those conditions.
LastShownIsCurrent == LastPushIsCurrent /\ PanelIsCurrent

=============================================================================

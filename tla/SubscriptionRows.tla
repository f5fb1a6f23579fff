--------------------------- MODULE SubscriptionRows ---------------------------
(***************************************************************************)
(* What the tasks of subscription-service may rely on in the rows of table *)
(* subscription, whatever the requests do: Notifications is built on these *)
(* steps, and Subscription implements them.                                *)
(***************************************************************************)
EXTENDS Naturals

CONSTANTS
  Subs,    \* ids of subscription rows
  Period,  \* length of the paid period
  MaxTime  \* bound of the model on the clock

VARIABLES
  sub,  \* sub[x]: committed row of subscription
  now   \* the clock

Granting == {"ACTIVE", "CANCELED"}

Rows == [status : {"PENDING_PAYMENT", "EXPIRED"} \cup Granting, start : Nat, end : Nat]

(* A row that is not inserted yet cannot be told from one that waits for   *)
(* its payment.  Some may be under way, and canceled.                      *)
StartWith(settled) ==
  sub = [x \in Subs |->
          IF x \in settled THEN [status |-> "CANCELED", start |-> 0, end |-> Period]
                           ELSE [status |-> "PENDING_PAYMENT", start |-> 0, end |-> 0]]

(* confirm_payment reads its clock before it waits for the row: the period *)
(* starts at that instant.                                                 *)
Activate(x) ==
  /\ sub[x].status = "PENDING_PAYMENT"
  /\ \E start \in 0 .. now :
       sub' = [sub EXCEPT ![x] = [status |-> "ACTIVE", start |-> start, end |-> start + Period]]
  /\ UNCHANGED now

(* cancel reads its clock before it waits for the row, too: the period may *)
(* be over by then.                                                        *)
Cancel(x) ==
  /\ sub[x].status = "ACTIVE"
  /\ sub' = [sub EXCEPT ![x].status = "CANCELED"]
  /\ UNCHANGED now

(* The task expires all the rows that are over, a checkout those of its    *)
(* user.                                                                   *)
Expire(X) ==
  /\ X # {}
  /\ \A x \in X : sub[x].status \in Granting /\ sub[x].end <= now
  /\ sub' = [x \in Subs |-> IF x \in X THEN [sub[x] EXCEPT !.status = "EXPIRED"] ELSE sub[x]]
  /\ UNCHANGED now

ClockTicks ==
  /\ now < MaxTime
  /\ now' = now + 1
  /\ UNCHANGED sub

NextRows ==
  \/ \E x \in Subs : Activate(x) \/ Cancel(x)
  \/ \E X \in SUBSET Subs : Expire(X)
  \/ ClockTicks

SpecRows == StartWith({}) /\ now = 0 /\ [][NextRows]_<<sub, now>>
=============================================================================

------------------------------ MODULE Subscription ------------------------------
(***************************************************************************)
(* subscription-service: SubscriptionService.checkout, confirm_payment,    *)
(* cancel and expire_all over PostgreSQL at READ COMMITTED, the domain     *)
(* entities Subscription and Payment, and the payment gateway behind its   *)
(* port.  A checkout is two database transactions with the call to the     *)
(* gateway between them; the process may die at any point of it.           *)
(***************************************************************************)
EXTENDS Naturals, Sequences, FiniteSets

CONSTANTS
  Users,
  Subs,         \* ids of subscription rows
  Sessions,     \* requests served at the same time
  Outcomes,     \* what the gateway may answer
  Period,       \* length of the paid period, in ticks of the clock
  MaxTime,      \* bound of the model on the clock
  MaxPayments,  \* bound of the model on the payments
  NoSub,        \* the user has no current subscription
  NoRequest,    \* the session serves no request
  Free          \* nobody has the row locked

Granting == {"ACTIVE", "CANCELED"}
Current == {"PENDING_PAYMENT"} \cup Granting
Final == {"APPROVED", "DECLINED", "ERROR"}

(* "NONE" is the place of a row that has not been inserted yet. *)
SubscriptionRecord ==
  [user : Users, status : {"NONE", "EXPIRED"} \cup Current, start : Nat, end : Nat]

PaymentRecord == [sub : Subs, status : {"PENDING"} \cup Final]

(* asOf is the instant confirm_payment or cancel took from its clock. *)
Request ==
  [pc : {"opened", "submitting", "confirming", "canceling"}, user : Users,
   sub : Subs \cup {NoSub}, expiring : SUBSET Subs, pay : Nat,
   outcome : {"PENDING"} \cup Final, asOf : Nat]

ASSUME UsersAssumption == Users # {}
ASSUME PeriodAssumption == Period \in Nat \ {0}
ASSUME BoundsAssumption == MaxTime \in Nat /\ MaxPayments \in Nat
ASSUME OutcomesAssumption == Outcomes \subseteq {"PENDING"} \cup Final
ASSUME MarkersAssumption ==
  NoSub \notin Subs /\ NoRequest \notin Request /\ Free \notin Sessions

VARIABLES
  sub,       \* sub[x]: committed row of subscription
  payments,  \* committed rows of payment, in order of created_at
  lock,      \* lock[x]: the session that has the row of x locked
  req,       \* req[s]: the request session s is serving
  now,       \* the clock
  charged    \* external: payments the gateway has collected

vars == <<sub, payments, lock, req, now, charged>>

Init ==
  /\ sub = [x \in Subs |->
       [user |-> CHOOSE u \in Users : TRUE, status |-> "NONE", start |-> 0, end |-> 0]]
  /\ payments = <<>>
  /\ lock = [x \in Subs |-> Free]
  /\ req = [s \in Sessions |-> NoRequest]
  /\ now = 0
  /\ charged = {}

-----------------------------------------------------------------------------
CurrentOf(u) == {x \in Subs : sub[x].user = u /\ sub[x].status \in Current}

IsFinishedEarly(x) == sub[x].status \in Granting /\ sub[x].end <= now + 1

(* What the UPDATE of _expire_finished and of expire_all matches. *)
IsFinished(x) == sub[x].status \in Granting /\ sub[x].end <= now

Expired(X) == [x \in Subs |-> IF x \in X THEN [sub[x] EXCEPT !.status = "EXPIRED"] ELSE sub[x]]

(* Subscription.grants_premium. *)
Grants(x, t) == sub[x].status \in Granting /\ t < sub[x].end

PaymentsOf(x) == {i \in 1 .. Len(payments) : payments[i].sub = x}

LastIsPending(x) ==
  \E i \in PaymentsOf(x) :
    /\ payments[i].status = "PENDING"
    /\ \A k \in PaymentsOf(x) : k <= i

At(s, pc) == req[s] # NoRequest /\ req[s].pc = pc

Unlocked(s) == [x \in Subs |-> IF lock[x] = s THEN Free ELSE lock[x]]

EndsStillLocking(s) ==
  /\ req' = [req EXCEPT ![s] = NoRequest]
  /\ UNCHANGED lock

Ends(s) ==
  /\ req' = [req EXCEPT ![s] = NoRequest]
  /\ lock' = Unlocked(s)

-----------------------------------------------------------------------------
(* checkout, first transaction.                                            *)

(* The bounds of the model: a checkout only starts if it can be recorded. *)
RoomForCheckout ==
  LET open == {s \in Sessions : At(s, "opened")}
      unused == {x \in Subs : sub[x].status = "NONE"}
  IN  /\ Len(payments) + Cardinality(open) < MaxPayments
      /\ Cardinality(unused) > Cardinality({s \in open : req[s].sub = NoSub})

Opened(u, live) ==
  [pc |-> "opened", user |-> u, sub |-> IF live = {} THEN NoSub ELSE CHOOSE x \in live : TRUE,
   expiring |-> CurrentOf(u) \ live, pay |-> 0, outcome |-> "PENDING", asOf |-> 0]

Live(u) == {x \in CurrentOf(u) : ~IsFinished(x)}

CheckoutIgnoringPending(s, u) ==
  /\ req[s] = NoRequest
  /\ RoomForCheckout
  /\ \A x \in CurrentOf(u) : lock[x] = Free
  /\ \A x \in Live(u) : sub[x].status = "PENDING_PAYMENT"
  /\ req' = [req EXCEPT ![s] = Opened(u, Live(u))]
  /\ lock' = [x \in Subs |-> IF x \in CurrentOf(u) THEN s ELSE lock[x]]
  /\ UNCHANGED <<sub, payments, now, charged>>

CheckoutWithoutLock(s, u) ==
  /\ req[s] = NoRequest
  /\ RoomForCheckout
  /\ \A x \in Live(u) : sub[x].status = "PENDING_PAYMENT" /\ ~LastIsPending(x)
  /\ req' = [req EXCEPT ![s] = Opened(u, Live(u))]
  /\ UNCHANGED <<sub, payments, lock, now, charged>>

(* _expire_finished, then the read FOR UPDATE: both wait for the rows of   *)
(* the user.  A current subscription that is paid, or whose last payment   *)
(* is pending, rejects the checkout and nothing changes.                   *)
CheckoutOpen(s, u) ==
  /\ req[s] = NoRequest
  /\ RoomForCheckout
  /\ \A x \in CurrentOf(u) : lock[x] = Free
  /\ \A x \in Live(u) : sub[x].status = "PENDING_PAYMENT" /\ ~LastIsPending(x)
  /\ req' = [req EXCEPT ![s] = Opened(u, Live(u))]
  /\ lock' = [x \in Subs |-> IF x \in CurrentOf(u) THEN s ELSE lock[x]]
  /\ UNCHANGED <<sub, payments, now, charged>>

NoUniqueIndex(r) == FALSE

(* uq_subscription_one_current_per_user: another checkout has taken the    *)
(* user's place since.                                                     *)
PlaceTaken(r) == r.sub = NoSub /\ CurrentOf(r.user) \ r.expiring # {}

CheckoutConflicts(s) ==
  /\ At(s, "opened")
  /\ PlaceTaken(req[s])
  /\ Ends(s)
  /\ UNCHANGED <<sub, payments, now, charged>>

(* The subscription and the PENDING payment are committed before the call  *)
(* to the gateway.                                                         *)
CheckoutCommit(s) ==
  LET r == req[s] IN
  /\ At(s, "opened")
  /\ ~PlaceTaken(r)
  /\ \E x \in Subs :
       /\ IF r.sub = NoSub THEN sub[x].status = "NONE" ELSE x = r.sub
       /\ sub' = [Expired(r.expiring) EXCEPT
                   ![x].status = "PENDING_PAYMENT", ![x].user = r.user]
       /\ payments' = Append(payments, [sub |-> x, status |-> "PENDING"])
  /\ req' = [req EXCEPT ![s].pc = "submitting", ![s].pay = Len(payments) + 1]
  /\ lock' = Unlocked(s)
  /\ UNCHANGED <<now, charged>>

(* The gateway answers, or the call fails, which _submit turns into ERROR. *)
(* What the gateway approves it has collected and what it declines not; an *)
(* exception, a timeout for one, leaves that open, and so does PENDING.    *)
Submit(s) ==
  /\ At(s, "submitting")
  /\ \E o \in Outcomes, collected \in BOOLEAN :
       /\ o = "APPROVED" => collected
       /\ o = "DECLINED" => ~collected
       /\ req' = [req EXCEPT ![s].pc = "confirming", ![s].outcome = o, ![s].asOf = now]
       /\ charged' = IF collected THEN charged \cup {req[s].pay} ELSE charged
  /\ UNCHANGED <<sub, payments, lock, now>>

(* Payment.resolve: only a pending payment takes an outcome, and only a    *)
(* final one.                                                              *)
Resolves(i, outcome) == outcome \in Final /\ payments[i].status \notin Final

ConfirmAnyOutcome(s) ==
  LET r == req[s]
      x == payments[r.pay].sub
  IN  /\ At(s, "confirming")
      /\ payments' = [payments EXCEPT ![r.pay].status = r.outcome]
      /\ sub' = [sub EXCEPT
           ![x].status = "ACTIVE", ![x].start = r.asOf, ![x].end = r.asOf + Period]
      /\ Ends(s)
      /\ UNCHANGED <<now, charged>>

(* confirm_payment: an approved payment activates a subscription that is   *)
(* waiting for it; the period starts at the instant of the call.           *)
Confirm(s) ==
  LET r == req[s]
      x == payments[r.pay].sub
      activates == r.outcome = "APPROVED" /\ sub[x].status = "PENDING_PAYMENT"
  IN  /\ At(s, "confirming")
      /\ IF Resolves(r.pay, r.outcome)
         THEN /\ r.outcome = "APPROVED" => lock[x] = Free
              /\ payments' = [payments EXCEPT ![r.pay].status = r.outcome]
              /\ sub' = IF activates
                        THEN [sub EXCEPT ![x].status = "ACTIVE", ![x].start = r.asOf,
                                         ![x].end = r.asOf + Period]
                        ELSE sub
         ELSE UNCHANGED <<sub, payments>>
      /\ Ends(s)
      /\ UNCHANGED <<now, charged>>

-----------------------------------------------------------------------------
(* cancel reads its clock before it waits for the row. *)
CancelOpen(s, u) ==
  /\ req[s] = NoRequest
  /\ req' = [req EXCEPT ![s] =
       [pc |-> "canceling", user |-> u, sub |-> NoSub, expiring |-> {}, pay |-> 0,
        outcome |-> "PENDING", asOf |-> now]]
  /\ UNCHANGED <<sub, payments, lock, now, charged>>

CancelAny(s) ==
  LET mine == CurrentOf(req[s].user) IN
  /\ At(s, "canceling")
  /\ \A x \in mine : lock[x] = Free
  /\ sub' = [x \in Subs |-> IF x \in mine THEN [sub[x] EXCEPT !.status = "CANCELED"] ELSE sub[x]]
  /\ Ends(s)
  /\ UNCHANGED <<payments, now, charged>>

(* NoActiveSubscriptionError and the second cancellation change nothing. *)
CancelCommit(s) ==
  LET mine == CurrentOf(req[s].user)
      canceled == {x \in mine : Grants(x, req[s].asOf)}
  IN  /\ At(s, "canceling")
      /\ \A x \in mine : lock[x] = Free
      /\ sub' = [x \in Subs |->
                  IF x \in canceled THEN [sub[x] EXCEPT !.status = "CANCELED"] ELSE sub[x]]
      /\ Ends(s)
      /\ UNCHANGED <<payments, now, charged>>

ExpireActiveOnly ==
  LET finished == {x \in Subs : IsFinished(x) /\ sub[x].status = "ACTIVE"} IN
  /\ finished # {}
  /\ \A x \in finished : lock[x] = Free
  /\ sub' = Expired(finished)
  /\ UNCHANGED <<payments, lock, req, now, charged>>

(* The periodic task expire_subscriptions.  A row that finishes while the  *)
(* UPDATE waits for another is left to its next run.                       *)
ExpireAll ==
  LET finished == {x \in Subs : IsFinished(x)} IN
  /\ finished # {}
  /\ \A x \in finished : lock[x] = Free
  /\ sub' = Expired(finished)
  /\ UNCHANGED <<payments, lock, req, now, charged>>

-----------------------------------------------------------------------------
(* The worker dies or loses its connection: the open transaction is        *)
(* reverted, and nobody resumes the request.                               *)
Crash(s) ==
  /\ req[s] # NoRequest
  /\ Ends(s)
  /\ UNCHANGED <<sub, payments, now, charged>>

Tick ==
  /\ now < MaxTime
  /\ now' = now + 1
  /\ UNCHANGED <<sub, payments, lock, req, charged>>

Continue(s) ==
  CheckoutConflicts(s) \/ CheckoutCommit(s) \/ Submit(s) \/ Confirm(s) \/ CancelCommit(s)

Next ==
  \/ \E s \in Sessions :
       \/ \E u \in Users : CheckoutOpen(s, u) \/ CancelOpen(s, u)
       \/ Continue(s)
       \/ Crash(s)
  \/ ExpireAll
  \/ Tick

(* A request that is not killed goes on, and beat schedules the expiry     *)
(* every 15 minutes; nobody has to check out or cancel.  The UPDATE of the *)
(* expiry queues for a locked row and gets it when it is released, however *)
(* often other checkouts lock it: strong fairness.                         *)
Fairness == SF_vars(ExpireAll) /\ \A s \in Sessions : WF_vars(Continue(s))

Spec == Init /\ [][Next]_vars

FairSpec == Spec /\ Fairness

-----------------------------------------------------------------------------
(* The types of the variables; a row is locked only by the first           *)
(* transaction of a checkout that has not ended.                           *)
TypeOK ==
  /\ sub \in [Subs -> SubscriptionRecord]
  /\ payments \in Seq(PaymentRecord)
  /\ lock \in [Subs -> Sessions \cup {Free}]
  /\ req \in [Sessions -> Request \cup {NoRequest}]
  /\ now \in 0 .. MaxTime
  /\ charged \subseteq 1 .. Len(payments)
  /\ \A x \in Subs : lock[x] # Free => At(lock[x], "opened")

(* The implicit invariant of DDD Stage 1: a user has one current           *)
(* subscription, however many checkouts, expiries and confirmations run.   *)
OneCurrentPerUser ==
  \A x, y \in Subs :
    (sub[x].status \in Current /\ sub[y].status \in Current /\ sub[x].user = sub[y].user) => x = y

(* A payment is in progress for at most one request: a subscription has at  *)
(* most one pending payment, it is its last, and it is not activated yet.  *)
OnePaymentInProgress ==
  \A i \in 1 .. Len(payments) :
    payments[i].status = "PENDING" =>
      /\ sub[payments[i].sub].status = "PENDING_PAYMENT"
      /\ \A k \in PaymentsOf(payments[i].sub) : k <= i

(* Nobody is charged again for one period, unless his earlier payment was   *)
(* collected by a call that then failed and was recorded as ERROR: not     *)
(* after an approval, nor when the process died before it recorded the     *)
(* answer, nor by two checkouts at once.                                   *)
ChargedAgainOnlyAfterError ==
  \A i, k \in charged :
    (payments[i].sub = payments[k].sub /\ i < k) => payments[i].status = "ERROR"

(* INV-05: exactly the subscriptions that were activated have an approved  *)
(* payment, and the gateway did collect it.                                *)
AccessIsPaid ==
  \A x \in Subs :
    LET approved == {i \in PaymentsOf(x) : payments[i].status = "APPROVED"} IN
    /\ approved \subseteq charged
    /\ (sub[x].status \in Granting \cup {"EXPIRED"}) <=> (approved # {})

(* ARCHITECTURE.md 6.7: a status only moves forward along its diagram, a    *)
(* second confirmation extends no period, and a resolved payment stays.    *)
Follows(old, new) ==
  \/ old = new
  \/ <<old, new>> \in {<<"NONE", "PENDING_PAYMENT">>, <<"PENDING_PAYMENT", "ACTIVE">>,
                       <<"ACTIVE", "CANCELED">>, <<"ACTIVE", "EXPIRED">>,
                       <<"CANCELED", "EXPIRED">>}

OnlyForward ==
  [][/\ \A x \in Subs :
          /\ Follows(sub[x].status, sub'[x].status)
          /\ sub[x].status \in Granting \cup {"EXPIRED"} =>
               sub'[x].start = sub[x].start /\ sub'[x].end = sub[x].end
     /\ \A i \in 1 .. Len(payments) :
          payments[i].status \in Final => payments'[i] = payments[i]]_vars

(* What the other services and the tasks rely on.  A user's paid periods   *)
(* never overlap, though a confirmation that waits starts its period at an *)
(* instant before its commit; and a row is activated, canceled and expired *)
(* as Notifications expects, never expired before its end.                 *)
PaidBy(u) ==
  {[start |-> sub[x].start, end |-> sub[x].end] :
     x \in {y \in Subs : sub[y].user = u /\ sub[y].status \in Granting \cup {"EXPIRED"}}}

SeenRow(x) ==
  [status |-> IF sub[x].status = "NONE" THEN "PENDING_PAYMENT" ELSE sub[x].status,
   start |-> sub[x].start, end |-> sub[x].end]

Periods == INSTANCE PaidPeriods
             WITH Payers <- Users, PaidFor <- Period, LastInstant <- MaxTime,
                  instant <- now, paid <- [u \in Users |-> PaidBy(u)]

Rows == INSTANCE SubscriptionRows WITH sub <- [x \in Subs |-> SeenRow(x)]

KeepsItsPromises == Periods!SpecPaid /\ Rows!SpecRows

(* expire_subscriptions: whoever has no access any more is EXPIRED in the  *)
(* end, and the user's place is free for a renewal.                        *)
FinishedSubscriptionsExpire ==
  \A x \in Subs : IsFinished(x) ~> sub[x].status = "EXPIRED"

-----------------------------------------------------------------------------
(* services.py:177: the PENDING row of a checkout whose process died is    *)
(* there to be reconciled.                                                 *)
PendingPaymentsAreResolved ==
  \A i \in 1 .. MaxPayments :
    (i <= Len(payments) /\ payments[i].status = "PENDING")
      ~> (i <= Len(payments) /\ payments[i].status \in Final)
=============================================================================

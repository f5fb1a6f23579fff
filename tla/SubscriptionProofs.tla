--------------------------- MODULE SubscriptionProofs ---------------------------
(***************************************************************************)
(* Proofs about Subscription for any users, subscriptions, sessions and    *)
(* outcomes, any period and any number of payments.                        *)
(***************************************************************************)
EXTENDS Subscription, TLAPS

-----------------------------------------------------------------------------
(* The inductive invariant.                                                *)

Types ==
  /\ sub \in [Subs -> SubscriptionRecord]
  /\ payments \in Seq(PaymentRecord)
  /\ lock \in [Subs -> Sessions \cup {Free}]
  /\ req \in [Sessions -> Request \cup {NoRequest}]
  /\ now \in 0 .. MaxTime
  /\ charged \subseteq 1 .. Len(payments)

Activated == Granting \cup {"EXPIRED"}

(* An activated subscription has one whole period, and is expired only     *)
(* after it.                                                               *)
PeriodsAreWhole ==
  \A x \in Subs :
    /\ sub[x].status \in Activated => sub[x].end = sub[x].start + Period
    /\ sub[x].status = "EXPIRED" => sub[x].end <= now

LocksServed == \A x \in Subs : lock[x] # Free => At(lock[x], "opened")

(* What the first transaction of a checkout read stays true until it       *)
(* commits: the rows are locked, so nobody expires, cancels or activates   *)
(* them, and nobody adds a payment to the one that is to be paid again.    *)
NonePending(x) == \A i \in PaymentsOf(x) : payments[i].status # "PENDING"

OpenedIsTrue(r, s) ==
  /\ \A x \in r.expiring : lock[x] = s /\ IsFinished(x)
  /\ r.sub # NoSub =>
       /\ lock[r.sub] = s
       /\ sub[r.sub].status = "PENDING_PAYMENT" /\ sub[r.sub].user = r.user
       /\ NonePending(r.sub)

CheckoutsAreTrue == \A s \in Sessions : At(s, "opened") => OpenedIsTrue(req[s], s)

(* A request that has its payment is the only one that has it, and nobody  *)
(* has resolved it.  The gateway has not collected it before it was asked, *)
(* and afterwards did what it answered, if it answered.                    *)
Paying(s) == At(s, "submitting") \/ At(s, "confirming")

RequestsHavePayments ==
  /\ \A s \in Sessions :
       Paying(s) =>
         /\ req[s].pay \in 1 .. Len(payments)
         /\ payments[req[s].pay].status = "PENDING"
         /\ At(s, "submitting") => req[s].pay \notin charged
         /\ At(s, "confirming") /\ req[s].outcome = "APPROVED" => req[s].pay \in charged
         /\ At(s, "confirming") /\ req[s].outcome = "DECLINED" => req[s].pay \notin charged
  /\ \A s, o \in Sessions : Paying(s) /\ Paying(o) /\ req[s].pay = req[o].pay => s = o

PaymentsHaveRows == \A i \in 1 .. Len(payments) : sub[payments[i].sub].status # "NONE"

(* What the gateway collected was not declined, and is the last payment of *)
(* its subscription, unless its call failed.                               *)
ChargedStands ==
  \A i \in charged :
    /\ payments[i].status # "DECLINED"
    /\ payments[i].status # "ERROR" => \A k \in PaymentsOf(payments[i].sub) : k <= i

PaymentsInv == PaymentsHaveRows /\ OnePaymentInProgress /\ ChargedStands /\ AccessIsPaid

IInv ==
  /\ Types
  /\ PeriodsAreWhole
  /\ LocksServed
  /\ CheckoutsAreTrue
  /\ RequestsHavePayments
  /\ PaymentsInv
  /\ OneCurrentPerUser

Kept ==
  /\ PeriodsAreWhole
  /\ LocksServed
  /\ CheckoutsAreTrue
  /\ RequestsHavePayments
  /\ PaymentsInv
  /\ OneCurrentPerUser

-----------------------------------------------------------------------------
(* What steps do to the requests, the locks and the payments.              *)

(* Ends releases the locks of the session. *)
LEMMA EndsFacts ==
  ASSUME Types, NEW s \in Sessions, Ends(s)
  PROVE  /\ req' \in [Sessions -> Request \cup {NoRequest}]
         /\ req'[s] = NoRequest /\ \A o \in Sessions \ {s} : req'[o] = req[o]
         /\ lock' \in [Subs -> Sessions \cup {Free}]
         /\ \A x \in Subs : lock'[x] = IF lock[x] = s THEN Free ELSE lock[x]
  BY DEF Ends, Unlocked, Types

(* What a checkout knows stays true while the rows it locked stay. *)
LEMMA OpenedStays ==
  ASSUME Types, NEW o \in Sessions, NEW r \in Request, OpenedIsTrue(r, o),
         now' \in Nat, now <= now',
         \A x \in Subs : lock[x] = o /\ sub[x].status \in Current =>
           lock'[x] = o /\ sub'[x] = sub[x] /\ (NonePending(x) => NonePending(x)')
  PROVE  OpenedIsTrue(r, o)'
<1>1. r.expiring \subseteq Subs /\ r.sub \in Subs \cup {NoSub}
  BY DEF Request
<1>2. ASSUME NEW x \in r.expiring PROVE lock'[x] = o /\ IsFinished(x)'
  <2>1. sub[x].end \in Nat /\ now \in Nat /\ x \in Subs
    BY <1>1, BoundsAssumption DEF Types, SubscriptionRecord
  <2>2. QED
    BY <1>1, <2>1 DEF OpenedIsTrue, IsFinished, Current
<1>3. QED
  BY <1>1, <1>2 DEF OpenedIsTrue, Current

(* A row added to payment is the last. *)
LEMMA PaymentAdded ==
  ASSUME payments \in Seq(PaymentRecord), NEW p \in PaymentRecord, payments' = Append(payments, p)
  PROVE  /\ payments' \in Seq(PaymentRecord)
         /\ Len(payments) \in Nat /\ Len(payments') = Len(payments) + 1
         /\ \A i \in 1 .. Len(payments) : payments'[i] = payments[i]
         /\ payments'[Len(payments) + 1] = p
  OBVIOUS

(* Payments are for subscriptions. *)
LEMMA PaymentTypes ==
  ASSUME payments \in Seq(PaymentRecord), NEW i \in 1 .. Len(payments)
  PROVE  payments[i] \in PaymentRecord /\ payments[i].sub \in Subs
<1>1. payments[i] \in PaymentRecord
  OBVIOUS
<1>2. QED
  BY <1>1 DEF PaymentRecord

(* Resolving a payment changes its status only. *)
LEMMA PaymentResolved ==
  ASSUME payments \in Seq(PaymentRecord), NEW i \in 1 .. Len(payments),
         NEW o \in {"PENDING"} \cup Final, payments' = [payments EXCEPT ![i].status = o]
  PROVE  /\ payments' \in Seq(PaymentRecord) /\ Len(payments') = Len(payments)
         /\ payments'[i].status = o /\ payments'[i].sub = payments[i].sub
         /\ \A k \in 1 .. Len(payments) \ {i} : payments'[k] = payments[k]
<1>1. payments[i] \in PaymentRecord
  OBVIOUS
<1> DEFINE p == [payments[i] EXCEPT !.status = o]
<1>2. p \in PaymentRecord /\ p.status = o /\ p.sub = payments[i].sub
  BY <1>1 DEF PaymentRecord
<1>3. payments' = [payments EXCEPT ![i] = p]
  OBVIOUS
<1> HIDE DEF p
<1>4. QED
  BY <1>2, <1>3

-----------------------------------------------------------------------------
(* Each action keeps the invariant.                                        *)

(* CheckoutOpen locks every current row of the user. *)
LEMMA CheckoutOpenKeeps ==
  ASSUME IInv, NEW s \in Sessions, NEW u \in Users, CheckoutOpen(s, u)
  PROVE  Types' /\ Kept'
<1> DEFINE C == CurrentOf(u)
           L == Live(u)
<1>1. /\ Types /\ LocksServed /\ CheckoutsAreTrue /\ PaymentsInv /\ NoRequest \notin Request
      /\ PeriodsAreWhole /\ RequestsHavePayments /\ OneCurrentPerUser /\ Free \notin Sessions
  BY MarkersAssumption DEF IInv
<1>2. PICK r \in Request :
        /\ req' = [req EXCEPT ![s] = r] /\ r.pc = "opened" /\ r.user = u
        /\ r.expiring = C \ L /\ (r.sub # NoSub => r.sub \in L)
  <2>1. /\ req' = [req EXCEPT ![s] = Opened(u, L)] /\ L \subseteq Subs /\ C \subseteq Subs /\ now \in Nat
    BY <1>1, BoundsAssumption DEF CheckoutOpen, Live, CurrentOf, Types
  <2> DEFINE c == IF L = {} THEN NoSub ELSE CHOOSE x \in L : TRUE
             r == [pc |-> "opened", user |-> u, sub |-> c, expiring |-> C \ L, pay |-> 0,
                   outcome |-> "PENDING", asOf |-> 0]
  <2>2. c # NoSub => c \in L
    OBVIOUS
  <2>3. c \in Subs \cup {NoSub}
    BY <2>1
  <2>4. req' = [req EXCEPT ![s] = r]
    BY <2>1 DEF Opened
  <2> HIDE DEF c, C, L
  <2>5. r \in Request
    BY <2>1, <2>3 DEF Request
  <2>6. r.pc = "opened" /\ r.user = u /\ r.expiring = C \ L /\ (r.sub # NoSub => r.sub \in L)
    BY <2>2
  <2> HIDE DEF r
  <2>7. QED
    BY <2>4, <2>5, <2>6
<1>3. /\ req[s] = NoRequest /\ \A x \in C : lock[x] = Free
      /\ \A x \in L : sub[x].status = "PENDING_PAYMENT" /\ ~LastIsPending(x)
      /\ lock' = [x \in Subs |-> IF x \in C THEN s ELSE lock[x]]
      /\ UNCHANGED <<sub, payments, now, charged>>
  BY DEF CheckoutOpen
<1>4. req'[s] = r /\ r # NoRequest /\ \A o \in Sessions \ {s} : req'[o] = req[o]
  BY <1>1, <1>2 DEF Types
<1>5. Types'
  BY <1>1, <1>2, <1>3 DEF Types
<1>6. LocksServed'
  BY <1>1, <1>2, <1>3, <1>4 DEF LocksServed, At, Types
<1>7. CheckoutsAreTrue'
  <2>1. ASSUME NEW o \in Sessions \ {s}, At(o, "opened")'
        PROVE  OpenedIsTrue(req[o], o)'
    <3>1. At(o, "opened") /\ req'[o] = req[o] /\ req[o] \in Request /\ now \in Nat
      BY <1>1, <1>4, <2>1, BoundsAssumption DEF At, Types
    <3>2. PICK q \in Request : q = req[o] /\ q = req'[o]
      BY <3>1
    <3>3. OpenedIsTrue(q, o)
      BY <1>1, <3>1, <3>2 DEF CheckoutsAreTrue
    <3>4. \A x \in Subs : lock[x] = o => lock'[x] = o
      BY <1>1, <1>3
    <3>5. OpenedIsTrue(q, o)'
      BY <1>1, <1>3, <3>1, <3>3, <3>4, OpenedStays DEF NonePending, PaymentsOf
    <3>6. QED
      BY <3>2, <3>5
  <2>2. \A x \in C : x \in Subs /\ lock'[x] = s /\ sub'[x].user = u
    BY <1>3 DEF CurrentOf
  <2>3. L \subseteq C /\ \A x \in C \ L : IsFinished(x)'
    BY <1>3 DEF Live, IsFinished
  <2>4. \A x \in L : NonePending(x)'
    BY <1>1, <1>3 DEF PaymentsInv, OnePaymentInProgress, LastIsPending, PaymentsOf, NonePending
  <2> HIDE DEF C, L
  <2>5. OpenedIsTrue(r, s)'
    BY <1>2, <1>3, <2>2, <2>3, <2>4 DEF OpenedIsTrue
  <2>6. QED
    BY <1>4, <2>1, <2>5 DEF CheckoutsAreTrue
<1>8. RequestsHavePayments'
  BY <1>1, <1>2, <1>3, <1>4 DEF RequestsHavePayments, Paying, At
<1>9. PeriodsAreWhole' /\ PaymentsInv' /\ OneCurrentPerUser'
  BY <1>1, <1>3 DEF PeriodsAreWhole, PaymentsInv, PaymentsHaveRows, OnePaymentInProgress,
     ChargedStands, AccessIsPaid, PaymentsOf, OneCurrentPerUser
<1>10. QED
  BY <1>5, <1>6, <1>7, <1>8, <1>9 DEF Kept

(* Requests that end, rows that are not locked move on. *)
RowsMove(X) ==
  /\ \A x \in Subs \ X : sub'[x] = sub[x]
  /\ \A x \in X :
       /\ sub[x].status \in Granting
       /\ lock[x] = Free
       /\ sub'[x].user = sub[x].user /\ sub'[x].start = sub[x].start /\ sub'[x].end = sub[x].end
       /\ sub'[x].status = "CANCELED" \/ (sub'[x].status = "EXPIRED" /\ IsFinished(x))

(* Cancellation, expiry and the end of a request. *)
LEMMA RowsMoveKeeps ==
  ASSUME IInv, Types', NEW X \in SUBSET Subs, RowsMove(X), UNCHANGED <<payments, now, charged>>,
         UNCHANGED <<req, lock>> \/ \E s \in Sessions : Ends(s)
  PROVE  Kept'
<1>1. /\ Types /\ LocksServed /\ CheckoutsAreTrue /\ PaymentsInv /\ NoRequest \notin Request
      /\ PeriodsAreWhole /\ RequestsHavePayments /\ OneCurrentPerUser /\ Free \notin Sessions
  BY MarkersAssumption DEF IInv
<1>2. /\ \A o \in Sessions : req'[o] # NoRequest =>
           req'[o] = req[o] /\ \A x \in Subs : lock[x] = o => lock'[x] = o
      /\ \A x \in Subs : lock'[x] # Free => lock'[x] = lock[x] /\ req'[lock[x]] = req[lock[x]]
  BY <1>1, EndsFacts DEF Types
<1>3. PeriodsAreWhole'
  BY <1>1 DEF PeriodsAreWhole, RowsMove, IsFinished, Activated, Granting
<1>4. LocksServed'
  BY <1>1, <1>2 DEF LocksServed, At
<1>5. CheckoutsAreTrue'
  <2>1. ASSUME NEW o \in Sessions, At(o, "opened")'
        PROVE  OpenedIsTrue(req[o], o)'
    <3>1. At(o, "opened") /\ req'[o] = req[o] /\ req[o] \in Request /\ now \in Nat
      BY <1>1, <1>2, <2>1, BoundsAssumption DEF At, Types
    <3>2. PICK q \in Request : q = req[o] /\ q = req'[o]
      BY <3>1
    <3>3. OpenedIsTrue(q, o)
      BY <1>1, <3>1, <3>2 DEF CheckoutsAreTrue
    <3>4. \A x \in Subs : lock[x] = o => lock'[x] = o /\ sub'[x] = sub[x]
      BY <1>1, <1>2, <2>1 DEF RowsMove, At
    <3>5. OpenedIsTrue(q, o)'
      BY <1>1, <3>1, <3>3, <3>4, OpenedStays DEF NonePending, PaymentsOf
    <3>6. QED
      BY <3>2, <3>5
  <2>2. QED
    BY <2>1 DEF CheckoutsAreTrue
<1>6. RequestsHavePayments'
  BY <1>1, <1>2 DEF RequestsHavePayments, Paying, At
<1>7. /\ \A x \in Subs : sub'[x].user = sub[x].user
      /\ \A x \in Subs : sub'[x].status \in Current => sub[x].status \in Current
      /\ \A x \in Subs : sub'[x].status \in Activated <=> sub[x].status \in Activated
      /\ \A x \in Subs : sub'[x].status = "PENDING_PAYMENT" <=> sub[x].status = "PENDING_PAYMENT"
      /\ \A x \in Subs : sub'[x].status = "NONE" <=> sub[x].status = "NONE"
  BY DEF RowsMove, Current, Granting, Activated
<1>8. PaymentsInv'
  <2>1. \A i \in 1 .. Len(payments) : payments[i].sub \in Subs
    BY <1>1, PaymentTypes DEF Types
  <2>2. PaymentsHaveRows' /\ OnePaymentInProgress' /\ ChargedStands'
    BY <1>1, <1>7, <2>1 DEF PaymentsInv, PaymentsHaveRows, OnePaymentInProgress, ChargedStands, PaymentsOf
  <2>3. AccessIsPaid'
    BY <1>1, <1>7 DEF PaymentsInv, AccessIsPaid, PaymentsOf, Activated
  <2>4. QED
    BY <2>2, <2>3 DEF PaymentsInv
<1>9. OneCurrentPerUser'
  BY <1>1, <1>7 DEF OneCurrentPerUser
<1>10. QED
  BY <1>3, <1>4, <1>5, <1>6, <1>8, <1>9 DEF Kept

(* A request that ends without a trace. *)
LEMMA EndKeeps ==
  ASSUME IInv, NEW s \in Sessions, Ends(s), UNCHANGED <<sub, payments, now, charged>>
  PROVE  Types' /\ Kept'
<1>1. Types'
  BY EndsFacts DEF IInv, Types
<1>2. RowsMove({})
  BY DEF RowsMove
<1>3. QED
  BY <1>1, <1>2, RowsMoveKeeps

(* The cancellation changes rows that still grant access. *)
LEMMA CancelCommitMoves ==
  ASSUME IInv, NEW s \in Sessions, CancelCommit(s)
  PROVE  \E X \in SUBSET Subs : RowsMove(X) /\ sub' \in [Subs -> SubscriptionRecord]
<1> DEFINE canceled == {x \in CurrentOf(req[s].user) : Grants(x, req[s].asOf)}
<1>1. /\ Types 
      /\ \A x \in canceled : lock[x] = Free /\ sub[x].status \in Granting
      /\ sub' = [x \in Subs |-> IF x \in canceled THEN [sub[x] EXCEPT !.status = "CANCELED"] ELSE sub[x]]
  BY DEF IInv, CancelCommit, Grants
<1>2. PICK X \in SUBSET Subs : X = canceled
  BY DEF CurrentOf
<1> HIDE DEF canceled
<1>3. RowsMove(X)
  BY <1>1, <1>2 DEF RowsMove, Types, SubscriptionRecord
<1>4. sub' \in [Subs -> SubscriptionRecord]
  BY <1>1, <1>2 DEF Types, SubscriptionRecord, Current, Granting
<1>5. QED
  BY <1>3, <1>4

(* And ends the request. *)
LEMMA CancelCommitKeeps ==
  ASSUME IInv, NEW s \in Sessions, CancelCommit(s)
  PROVE  Types' /\ Kept'
<1>1. Types /\ Ends(s) /\ UNCHANGED <<payments, now, charged>>
  BY DEF IInv, CancelCommit
<1>2. PICK X \in SUBSET Subs : RowsMove(X) /\ sub' \in [Subs -> SubscriptionRecord]
  BY CancelCommitMoves
<1>3. Types'
  BY <1>1, <1>2, EndsFacts DEF Types
<1>4. QED
  BY <1>1, <1>2, <1>3, RowsMoveKeeps

(* The task expires rows whose period is over. *)
LEMMA ExpireAllMoves ==
  ASSUME IInv, ExpireAll
  PROVE  \E X \in SUBSET Subs : RowsMove(X) /\ sub' \in [Subs -> SubscriptionRecord]
<1> DEFINE finished == {x \in Subs : IsFinished(x)}
<1>1. /\ Types 
      /\ \A x \in finished : lock[x] = Free /\ IsFinished(x) /\ sub[x].status \in Granting
      /\ sub' = [x \in Subs |-> IF x \in finished THEN [sub[x] EXCEPT !.status = "EXPIRED"] ELSE sub[x]]
  BY DEF IInv, ExpireAll, IsFinished, Expired
<1>2. PICK X \in SUBSET Subs : X = finished
  OBVIOUS
<1> HIDE DEF finished
<1>3. RowsMove(X)
  BY <1>1, <1>2 DEF RowsMove, Types, SubscriptionRecord
<1>4. sub' \in [Subs -> SubscriptionRecord]
  <2>1. \A x \in Subs : [sub[x] EXCEPT !.status = "EXPIRED"] \in SubscriptionRecord
    BY <1>1 DEF Types, SubscriptionRecord
  <2>2. QED
    BY <1>1, <2>1 DEF Types
<1>5. QED
  BY <1>3, <1>4

(* And touches nothing else. *)
LEMMA ExpireAllKeeps ==
  ASSUME IInv, ExpireAll
  PROVE  Types' /\ Kept'
<1>1. Types /\ UNCHANGED <<payments, lock, req, now, charged>>
  BY DEF IInv, ExpireAll
<1>2. PICK X \in SUBSET Subs : RowsMove(X) /\ sub' \in [Subs -> SubscriptionRecord]
  BY ExpireAllMoves
<1>3. Types'
  BY <1>1, <1>2 DEF Types
<1>4. QED
  BY <1>1, <1>2, <1>3, RowsMoveKeeps

(* The first transaction expires the finished rows of the user and gives   *)
(* him a subscription that waits for the payment it adds.                  *)
CheckoutCommitted(s, r, x) ==
  /\ r = req[s] /\ r.pc = "opened" /\ r # NoRequest /\ OpenedIsTrue(r, s)
  /\ IF r.sub = NoSub THEN sub[x].status = "NONE" ELSE x = r.sub
  /\ ~PlaceTaken(r) /\ lock' = Unlocked(s) /\ UNCHANGED <<now, charged>>
  /\ req' = [req EXCEPT ![s].pc = "submitting", ![s].pay = Len(payments) + 1]
  /\ r.expiring \subseteq Subs /\ r.user \in Users
  /\ \A y \in r.expiring : IsFinished(y) /\ sub[y].status \in Granting /\ y # x
  /\ sub'[x].status = "PENDING_PAYMENT" /\ sub'[x].user = r.user
  /\ sub'[x].start = sub[x].start /\ sub'[x].end = sub[x].end
  /\ \A y \in r.expiring :
       /\ sub'[y].status = "EXPIRED" /\ sub'[y].user = sub[y].user
       /\ sub'[y].start = sub[y].start /\ sub'[y].end = sub[y].end
  /\ \A y \in Subs \ (r.expiring \cup {x}) : sub'[y] = sub[y]
  /\ sub' \in [Subs -> SubscriptionRecord]
  /\ payments' \in Seq(PaymentRecord) /\ Len(payments) \in Nat /\ Len(payments') = Len(payments) + 1
  /\ \A k \in 1 .. Len(payments) : payments'[k] = payments[k]
  /\ payments'[Len(payments) + 1] = [sub |-> x, status |-> "PENDING"]

(* A commit of a checkout does this. *)
LEMMA CheckoutCommitStep ==
  ASSUME IInv, NEW s \in Sessions, CheckoutCommit(s)
  PROVE  \E r \in Request, x \in Subs : CheckoutCommitted(s, r, x)
<1>1. /\ Types /\ LocksServed /\ CheckoutsAreTrue /\ PaymentsInv /\ NoRequest \notin Request
      /\ PeriodsAreWhole /\ RequestsHavePayments /\ OneCurrentPerUser /\ Free \notin Sessions
  BY MarkersAssumption DEF IInv
<1>2. PICK r \in Request : r = req[s] /\ r.pc = "opened" /\ r # NoRequest
  BY <1>1 DEF CheckoutCommit, At, Types
<1> DEFINE X == r.expiring
           n == Len(payments) + 1
<1>3. PICK x \in Subs :
        /\ IF r.sub = NoSub THEN sub[x].status = "NONE" ELSE x = r.sub
        /\ sub' = [Expired(X) EXCEPT ![x].status = "PENDING_PAYMENT", ![x].user = r.user]
        /\ payments' = Append(payments, [sub |-> x, status |-> "PENDING"])
  BY <1>2 DEF CheckoutCommit
<1>4. /\ ~PlaceTaken(r) /\ lock' = Unlocked(s) /\ UNCHANGED <<now, charged>>
      /\ req' = [req EXCEPT ![s].pc = "submitting", ![s].pay = Len(payments) + 1]
  BY <1>2 DEF CheckoutCommit
<1>5. /\ OpenedIsTrue(r, s) /\ X \subseteq Subs /\ r.user \in Users
  BY <1>1, <1>2 DEF CheckoutsAreTrue, At, Request
<1>6. \A y \in X : IsFinished(y) /\ sub[y].status \in Granting /\ y # x
  BY <1>3, <1>5 DEF OpenedIsTrue, IsFinished, Granting
<1>7. /\ sub'[x].status = "PENDING_PAYMENT" /\ sub'[x].user = r.user
      /\ sub'[x].start = sub[x].start /\ sub'[x].end = sub[x].end
      /\ \A y \in X : /\ sub'[y].status = "EXPIRED" /\ sub'[y].user = sub[y].user
                      /\ sub'[y].start = sub[y].start /\ sub'[y].end = sub[y].end
      /\ \A y \in Subs \ (X \cup {x}) : sub'[y] = sub[y]
      /\ sub' \in [Subs -> SubscriptionRecord]
  <2>1. \A y \in Subs : sub[y] \in SubscriptionRecord
    BY <1>1 DEF Types
  <2>2. [sub[x] EXCEPT !.status = "PENDING_PAYMENT", !.user = r.user] \in SubscriptionRecord
    BY <1>5, <2>1 DEF SubscriptionRecord, Current
  <2>3. \A y \in Subs : [sub[y] EXCEPT !.status = "EXPIRED"] \in SubscriptionRecord
    BY <2>1 DEF SubscriptionRecord
  <2>4. sub' = [y \in Subs |->
          IF y = x THEN [sub[x] EXCEPT !.status = "PENDING_PAYMENT", !.user = r.user]
          ELSE IF y \in X THEN [sub[y] EXCEPT !.status = "EXPIRED"] ELSE sub[y]]
    BY <1>3, <1>6 DEF Expired
  <2> HIDE DEF X
  <2>5. \A y \in X : y \in Subs /\ y # x
    BY <1>5, <1>6
  <2>6. sub' \in [Subs -> SubscriptionRecord]
    BY <2>1, <2>2, <2>3, <2>4
  <2>7. QED
    BY <2>1, <2>4, <2>5, <2>6 DEF SubscriptionRecord
<1>8. /\ payments' \in Seq(PaymentRecord) /\ Len(payments) \in Nat /\ Len(payments') = n
      /\ \A i \in 1 .. Len(payments) : payments'[i] = payments[i]
      /\ payments'[n] = [sub |-> x, status |-> "PENDING"]
  BY <1>1, <1>3, PaymentAdded DEF Types, PaymentRecord
<1>9. CheckoutCommitted(s, r, x)
  BY <1>2, <1>3, <1>4, <1>5, <1>6, <1>7, <1>8 DEF CheckoutCommitted
<1>10. QED
  BY <1>9

(* That subscription has no payment in progress and none approved.        *)
LEMMA CheckoutCommitKeeps ==
  ASSUME IInv, NEW s \in Sessions, CheckoutCommit(s)
  PROVE  Types' /\ Kept'
<1>1. /\ Types /\ LocksServed /\ CheckoutsAreTrue /\ PaymentsInv /\ NoRequest \notin Request
      /\ PeriodsAreWhole /\ RequestsHavePayments /\ OneCurrentPerUser /\ Free \notin Sessions
  BY MarkersAssumption DEF IInv
<1>2. PICK r \in Request, x \in Subs : CheckoutCommitted(s, r, x)
  BY CheckoutCommitStep
<1> DEFINE X == r.expiring
           n == Len(payments) + 1
<1>3. IF r.sub = NoSub THEN sub[x].status = "NONE" ELSE x = r.sub
  BY <1>2 DEF CheckoutCommitted
<1>4. /\ ~PlaceTaken(r) /\ lock' = Unlocked(s) /\ UNCHANGED <<now, charged>>
      /\ req' = [req EXCEPT ![s].pc = "submitting", ![s].pay = Len(payments) + 1]
  BY <1>2 DEF CheckoutCommitted
<1>5. OpenedIsTrue(r, s) /\ X \subseteq Subs /\ r.user \in Users
  BY <1>2 DEF CheckoutCommitted
<1>6. \A y \in X : IsFinished(y) /\ sub[y].status \in Granting /\ y # x
  BY <1>2 DEF CheckoutCommitted
<1>7. /\ sub'[x].status = "PENDING_PAYMENT" /\ sub'[x].user = r.user
      /\ \A y \in X : /\ sub'[y].status = "EXPIRED" /\ sub'[y].user = sub[y].user
                      /\ sub'[y].start = sub[y].start /\ sub'[y].end = sub[y].end
      /\ \A y \in Subs \ (X \cup {x}) : sub'[y] = sub[y]
      /\ sub' \in [Subs -> SubscriptionRecord]
  BY <1>2 DEF CheckoutCommitted
<1>8. /\ payments' \in Seq(PaymentRecord) /\ Len(payments) \in Nat /\ Len(payments') = n
      /\ \A i \in 1 .. Len(payments) : payments'[i] = payments[i]
      /\ payments'[n] = [sub |-> x, status |-> "PENDING"]
  BY <1>2 DEF CheckoutCommitted
<1>9. PICK q \in Request : /\ req' = [req EXCEPT ![s] = q]
                           /\ q.pc = "submitting" /\ q.pay = Len(payments) + 1 /\ q # NoRequest
  <2> DEFINE q == [r EXCEPT !.pc = "submitting", !.pay = Len(payments) + 1]
  <2> DEFINE m == Len(payments) + 1
  <2>0. m \in Nat
    BY <1>8
  <2> HIDE DEF m
  <2>1. q \in Request /\ q.pc = "submitting" /\ q.pay = m
    BY <2>0 DEF Request, m
  <2>2. req' = [req EXCEPT ![s] = q]
    BY <1>2, <1>4 DEF CheckoutCommitted
  <2> HIDE DEF q
  <2>3. QED
    BY <1>1, <2>1, <2>2 DEF m
<1>10. /\ req'[s] = q /\ \A o \in Sessions \ {s} : req'[o] = req[o]
       /\ \A y \in Subs : lock'[y] = IF lock[y] = s THEN Free ELSE lock[y]
  BY <1>1, <1>4, <1>9 DEF Types, Unlocked
<1>11. \A i \in PaymentsOf(x) :
         /\ payments[i].status \in {"DECLINED", "ERROR"}
         /\ i \in charged => payments[i].status = "ERROR"
  <2>1. CASE r.sub = NoSub
    BY <1>1, <1>3, <2>1 DEF PaymentsInv, PaymentsHaveRows, PaymentsOf
  <2>2. CASE r.sub # NoSub
    <3>1. \A i \in PaymentsOf(x) : payments[i].status \notin {"PENDING", "APPROVED"}
      BY <1>1, <1>3, <1>5, <2>2
         DEF PaymentsInv, OpenedIsTrue, NonePending, AccessIsPaid, PaymentsOf, Granting
    <3>2. \A i \in PaymentsOf(x) : payments[i].status \in {"PENDING"} \cup Final
      BY <1>1, PaymentTypes DEF Types, PaymentsOf, PaymentRecord
    <3>3. QED
      BY <1>1, <3>1, <3>2 DEF PaymentsInv, ChargedStands, Final
  <2>3. QED
    BY <2>1, <2>2
<1>12. Types'
  <2>1. lock' \in [Subs -> Sessions \cup {Free}]
    BY <1>1, <1>4 DEF Types, Unlocked
  <2>2. charged' \subseteq 1 .. Len(payments')
    BY <1>1, <1>4, <1>8 DEF Types
  <2>3. QED
    BY <1>1, <1>4, <1>7, <1>8, <1>9, <2>1, <2>2 DEF Types
<1>13. LocksServed'
  BY <1>1, <1>10 DEF LocksServed, At, Types
<1>14. CheckoutsAreTrue'
  <2>1. ASSUME NEW o \in Sessions, At(o, "opened")'
        PROVE  OpenedIsTrue(req[o], o)'
    <3>1. /\ At(o, "opened") /\ o # s /\ req'[o] = req[o] /\ req[o] \in Request /\ now \in Nat
          /\ now' = now
      BY <1>1, <1>4, <1>9, <1>10, <2>1, BoundsAssumption DEF At, Types
    <3>2. PICK p \in Request : p = req[o] /\ p = req'[o]
      BY <3>1
    <3>3. OpenedIsTrue(p, o)
      BY <1>1, <3>1, <3>2 DEF CheckoutsAreTrue
    <3>4. ASSUME NEW y \in Subs, lock[y] = o, sub[y].status \in Current
          PROVE  lock'[y] = o /\ sub'[y] = sub[y] /\ (NonePending(y) => NonePending(y)')
      <4>1. y # x /\ y \notin X
        BY <1>3, <1>5, <3>1, <3>4 DEF OpenedIsTrue, Current, Granting
      <4>2. NonePending(y) => NonePending(y)'
        BY <1>8, <4>1 DEF NonePending, PaymentsOf
      <4>3. QED
        BY <1>7, <1>10, <3>1, <3>4, <4>1, <4>2
    <3>5. OpenedIsTrue(p, o)'
      BY <1>1, <3>1, <3>3, <3>4, OpenedStays
    <3>6. QED
      BY <3>2, <3>5
  <2>2. QED
    BY <2>1 DEF CheckoutsAreTrue
<1>15. RequestsHavePayments'
  <2>1. n \notin charged /\ \A o \in Sessions : Paying(o) => req[o].pay # n
    BY <1>1, <1>8 DEF Types, RequestsHavePayments
  <2>2. \A o \in Sessions \ {s} : /\ Paying(o)' <=> Paying(o)
                                  /\ At(o, "confirming")' <=> At(o, "confirming")
                                  /\ At(o, "submitting")' <=> At(o, "submitting")
    BY <1>10 DEF Paying, At
  <2>3. /\ req'[s].pay = n /\ n \in 1 .. Len(payments') /\ payments'[n].status = "PENDING"
        /\ Paying(s)' /\ At(s, "submitting")' /\ ~At(s, "confirming")'
    BY <1>8, <1>9, <1>10 DEF Paying, At
  <2>4. ASSUME NEW o \in Sessions, Paying(o)'
        PROVE  /\ req'[o].pay \in 1 .. Len(payments')
               /\ payments'[req'[o].pay].status = "PENDING"
               /\ At(o, "submitting")' => req'[o].pay \notin charged
               /\ At(o, "confirming")' /\ req'[o].outcome = "APPROVED" => req'[o].pay \in charged
               /\ At(o, "confirming")' /\ req'[o].outcome = "DECLINED" => req'[o].pay \notin charged
    <3>1. CASE o = s
      BY <2>1, <2>3, <3>1
    <3>2. CASE o # s
      BY <1>1, <1>8, <1>10, <2>2, <2>4, <3>2 DEF RequestsHavePayments
    <3>3. QED
      BY <3>1, <3>2
  <2>5. ASSUME NEW o \in Sessions, NEW p \in Sessions, Paying(o)', Paying(p)', req'[o].pay = req'[p].pay
        PROVE  o = p
    BY <1>1, <1>10, <2>1, <2>2, <2>3, <2>5 DEF RequestsHavePayments
  <2>6. QED
    BY <1>4, <2>4, <2>5 DEF RequestsHavePayments
<1>16. \A i \in 1 .. Len(payments) : payments[i].sub \in Subs
  BY <1>1, PaymentTypes DEF Types
<1>17. PaymentsInv'
  <2>1. PaymentsHaveRows'
    BY <1>1, <1>7, <1>8, <1>16 DEF PaymentsInv, PaymentsHaveRows
  <2>2. OnePaymentInProgress'
    <3>1. ASSUME NEW i \in 1 .. Len(payments'), payments'[i].status = "PENDING",
                 NEW y, y = payments'[i].sub
          PROVE  sub'[y].status = "PENDING_PAYMENT" /\ \A k \in PaymentsOf(y)' : k <= i
      <4>1. CASE i = n
        BY <1>7, <1>8, <3>1, <4>1 DEF PaymentsOf
      <4>2. CASE i # n
        <5>1. i \in 1 .. Len(payments) /\ payments[i].status = "PENDING" /\ y = payments[i].sub
          BY <1>8, <3>1, <4>2
        <5>2. sub[y].status = "PENDING_PAYMENT" /\ y # x /\ \A k \in PaymentsOf(y) : k <= i
          BY <1>1, <1>11, <5>1 DEF PaymentsInv, OnePaymentInProgress, PaymentsOf
        <5>3. y \notin X /\ y \in Subs
          BY <1>6, <1>16, <5>1, <5>2 DEF Granting
        <5>4. \A k \in PaymentsOf(y)' : k \in PaymentsOf(y)
          BY <1>8, <5>2 DEF PaymentsOf
        <5>5. QED
          BY <1>7, <5>2, <5>3, <5>4
      <4>3. QED
        BY <4>1, <4>2
    <3>2. QED
      BY <3>1 DEF OnePaymentInProgress
  <2>3. ChargedStands'
    <3>1. ASSUME NEW i \in charged, NEW y, y = payments'[i].sub
          PROVE  /\ payments'[i].status # "DECLINED"
                 /\ payments'[i].status # "ERROR" => \A k \in PaymentsOf(y)' : k <= i
      <4>1. i \in 1 .. Len(payments) /\ payments'[i] = payments[i]
        BY <1>1, <1>8, <3>1 DEF Types
      <4>2. ASSUME payments[i].status # "ERROR" PROVE \A k \in PaymentsOf(y)' : k \in PaymentsOf(y)
        <5>1. y # x
          BY <1>11, <3>1, <4>1, <4>2 DEF PaymentsOf
        <5>2. QED
          BY <1>8, <5>1 DEF PaymentsOf
      <4>3. QED
        BY <1>1, <3>1, <4>1, <4>2 DEF PaymentsInv, ChargedStands
    <3>2. QED
      BY <1>4, <3>1 DEF ChargedStands
  <2>4. AccessIsPaid'
    <3>1. ASSUME NEW y \in Subs
          PROVE  {i \in PaymentsOf(y)' : payments'[i].status = "APPROVED"}
                   = {i \in PaymentsOf(y) : payments[i].status = "APPROVED"}
      BY <1>8 DEF PaymentsOf
    <3>2. ASSUME NEW y \in Subs
          PROVE  sub'[y].status \in Activated <=> sub[y].status \in Activated
      <4>1. sub[x].status \notin Activated
        BY <1>3, <1>5 DEF OpenedIsTrue, Activated, Granting
      <4>2. QED
        BY <1>6, <1>7, <4>1 DEF Activated, Granting
    <3>3. QED
      BY <1>1, <1>4, <3>1, <3>2 DEF PaymentsInv, AccessIsPaid, Activated
  <2>5. QED
    BY <2>1, <2>2, <2>3, <2>4 DEF PaymentsInv
<1>18. OneCurrentPerUser'
  <2>1. ASSUME NEW y \in Subs \ {x}, sub'[y].status \in Current
        PROVE  y \notin X /\ sub'[y] = sub[y] /\ sub'[y].user # r.user
    <3>1. y \notin X /\ sub'[y] = sub[y]
      BY <1>7, <2>1 DEF Current, Granting
    <3>2. CASE r.sub = NoSub
      BY <1>4, <2>1, <3>1, <3>2 DEF PlaceTaken, CurrentOf
    <3>3. CASE r.sub # NoSub
      BY <1>1, <1>3, <1>5, <2>1, <3>1, <3>3 DEF OpenedIsTrue, OneCurrentPerUser, Current
    <3>4. QED
      BY <3>1, <3>2, <3>3
  <2>2. QED
    BY <1>1, <1>7, <2>1 DEF OneCurrentPerUser
<1>19. PeriodsAreWhole'
  BY <1>1, <1>4, <1>6, <1>7 DEF PeriodsAreWhole, Activated, Granting, IsFinished
<1>20. QED
  BY <1>12, <1>13, <1>14, <1>15, <1>17, <1>18, <1>19 DEF Kept

(* What the gateway collects is the last payment of its subscription.      *)
LEMMA SubmitKeeps ==
  ASSUME IInv, NEW s \in Sessions, Submit(s)
  PROVE  Types' /\ Kept'
<1>1. /\ Types /\ LocksServed /\ CheckoutsAreTrue /\ PaymentsInv /\ NoRequest \notin Request
      /\ PeriodsAreWhole /\ RequestsHavePayments /\ OneCurrentPerUser /\ Free \notin Sessions
      /\ now \in Nat
  BY MarkersAssumption, BoundsAssumption DEF IInv, Types
<1>2. PICK r \in Request : r = req[s] /\ r.pc = "submitting" /\ r # NoRequest
  BY <1>1 DEF Submit, At, Types
<1>3. PICK c \in Outcomes, b \in BOOLEAN :
        /\ c = "APPROVED" => b
        /\ c = "DECLINED" => ~b
        /\ req' = [req EXCEPT ![s].pc = "confirming", ![s].outcome = c, ![s].asOf = now]
        /\ charged' = IF b THEN charged \cup {r.pay} ELSE charged
        /\ UNCHANGED <<sub, payments, lock, now>>
  BY <1>2 DEF Submit
<1>4. PICK q \in Request : /\ req' = [req EXCEPT ![s] = q] /\ q.pc = "confirming"
                           /\ q.pay = r.pay /\ q.outcome = c /\ q # NoRequest
  <2> DEFINE q == [r EXCEPT !.pc = "confirming", !.outcome = c, !.asOf = now]
  <2>1. q \in Request /\ q.pc = "confirming" /\ q.pay = r.pay /\ q.outcome = c
    BY <1>1, OutcomesAssumption DEF Request
  <2>2. req' = [req EXCEPT ![s] = q]
    BY <1>2, <1>3
  <2> HIDE DEF q
  <2>3. QED
    BY <1>1, <2>1, <2>2
<1>5. req'[s] = q /\ \A o \in Sessions \ {s} : req'[o] = req[o]
  BY <1>1, <1>4 DEF Types
<1>6. /\ r.pay \in 1 .. Len(payments) /\ payments[r.pay].status = "PENDING" /\ r.pay \notin charged
      /\ \A o \in Sessions \ {s} : Paying(o) => req[o].pay # r.pay
  BY <1>1, <1>2 DEF RequestsHavePayments, Paying, At
<1>7. Types'
  <2>1. req' \in [Sessions -> Request \cup {NoRequest}]
    BY <1>1, <1>4 DEF Types
  <2>2. charged' \subseteq 1 .. Len(payments')
    BY <1>1, <1>3, <1>6 DEF Types
  <2>3. QED
    BY <1>1, <1>3, <2>1, <2>2 DEF Types
<1>8. LocksServed'
  BY <1>1, <1>2, <1>3, <1>5 DEF LocksServed, At, Types
<1>9. CheckoutsAreTrue'
  <2>1. ASSUME NEW o \in Sessions, At(o, "opened")'
        PROVE  OpenedIsTrue(req[o], o)'
    <3>1. At(o, "opened") /\ req'[o] = req[o] /\ req[o] \in Request /\ now' = now
      BY <1>1, <1>3, <1>4, <1>5, <2>1 DEF At, Types
    <3>2. PICK p \in Request : p = req[o] /\ p = req'[o]
      BY <3>1
    <3>3. OpenedIsTrue(p, o)
      BY <1>1, <3>1, <3>2 DEF CheckoutsAreTrue
    <3>4. OpenedIsTrue(p, o)'
      BY <1>1, <1>3, <3>1, <3>3, OpenedStays DEF NonePending, PaymentsOf
    <3>5. QED
      BY <3>2, <3>4
  <2>2. QED
    BY <2>1 DEF CheckoutsAreTrue
<1>10. RequestsHavePayments'
  <2>1. /\ Paying(s)' /\ At(s, "confirming")' /\ ~At(s, "submitting")' /\ Paying(s)
        /\ \A o \in Sessions \ {s} : /\ Paying(o)' <=> Paying(o)
                                     /\ At(o, "confirming")' <=> At(o, "confirming")
                                     /\ At(o, "submitting")' <=> At(o, "submitting")
    BY <1>2, <1>4, <1>5 DEF Paying, At
  <2>2. ASSUME NEW o \in Sessions, Paying(o)'
        PROVE  /\ req'[o].pay = req[o].pay /\ Paying(o)
               /\ At(o, "submitting")' => req'[o].pay \notin charged'
               /\ At(o, "confirming")' /\ req'[o].outcome = "APPROVED" => req'[o].pay \in charged'
               /\ At(o, "confirming")' /\ req'[o].outcome = "DECLINED" => req'[o].pay \notin charged'
    <3>1. CASE o = s
      BY <1>2, <1>3, <1>4, <1>5, <1>6, <2>1, <3>1
    <3>2. CASE o # s
      <4>1. Paying(o) /\ req'[o] = req[o] /\ req[o].pay # r.pay
        BY <1>5, <1>6, <2>1, <2>2, <3>2
      <4>2. req[o].pay \in charged' <=> req[o].pay \in charged
        BY <1>3, <4>1
      <4>3. QED
        BY <1>1, <2>1, <3>2, <4>1, <4>2 DEF RequestsHavePayments
    <3>3. QED
      BY <3>1, <3>2
  <2>3. QED
    BY <1>1, <1>3, <2>2 DEF RequestsHavePayments
<1>11. PaymentsInv'
  <2>1. PaymentsHaveRows' /\ OnePaymentInProgress' /\ AccessIsPaid'
    BY <1>1, <1>3 DEF PaymentsInv, PaymentsHaveRows, OnePaymentInProgress, AccessIsPaid, PaymentsOf
  <2>2. ChargedStands'
    BY <1>1, <1>3, <1>6 DEF PaymentsInv, ChargedStands, OnePaymentInProgress, PaymentsOf
  <2>3. QED
    BY <2>1, <2>2 DEF PaymentsInv
<1>12. PeriodsAreWhole' /\ OneCurrentPerUser'
  BY <1>1, <1>3 DEF PeriodsAreWhole, OneCurrentPerUser
<1>13. QED
  BY <1>7, <1>8, <1>9, <1>10, <1>11, <1>12 DEF Kept

(* A confirmation resolves the payment of the request, and activates its   *)
(* subscription if the gateway approved it.                                *)
Confirmed(s, r, x) ==
  /\ r = req[s] /\ r.pc = "confirming" /\ r.outcome \in Final
  /\ r.pay \in 1 .. Len(payments) /\ payments[r.pay].status = "PENDING"
  /\ r.outcome = "APPROVED" => r.pay \in charged
  /\ r.outcome = "DECLINED" => r.pay \notin charged
  /\ \A o \in Sessions \ {s} : Paying(o) => req[o].pay # r.pay
  /\ x = payments[r.pay].sub
  /\ sub[x].status = "PENDING_PAYMENT" /\ \A k \in PaymentsOf(x) : k <= r.pay
  /\ r.outcome = "APPROVED" => lock[x] = Free
  /\ Ends(s) /\ UNCHANGED <<now, charged>>
  /\ payments' \in Seq(PaymentRecord) /\ Len(payments') = Len(payments)
  /\ payments'[r.pay].status = r.outcome /\ payments'[r.pay].sub = x
  /\ \A k \in 1 .. Len(payments) \ {r.pay} : payments'[k] = payments[k]
  /\ \A y \in Subs \ {x} : sub'[y] = sub[y]
  /\ sub'[x].user = sub[x].user /\ sub' \in [Subs -> SubscriptionRecord]
  /\ r.outcome # "APPROVED" => sub' = sub
  /\ r.outcome = "APPROVED" =>
       sub'[x].status = "ACTIVE" /\ sub'[x].start = r.asOf /\ sub'[x].end = r.asOf + Period

(* It does this, or only ends the request. *)
LEMMA ConfirmStep ==
  ASSUME IInv, NEW s \in Sessions, Confirm(s)
  PROVE  \/ Ends(s) /\ UNCHANGED <<sub, payments, now, charged>>
         \/ \E r \in Request, x \in Subs : Confirmed(s, r, x)
<1>1. /\ Types /\ LocksServed /\ CheckoutsAreTrue /\ PaymentsInv /\ NoRequest \notin Request
      /\ PeriodsAreWhole /\ RequestsHavePayments /\ OneCurrentPerUser /\ Free \notin Sessions
      /\ now \in Nat
  BY MarkersAssumption, BoundsAssumption DEF IInv, Types
<1>2. PICK r \in Request : r = req[s] /\ r.pc = "confirming" /\ r # NoRequest
  BY <1>1 DEF Confirm, At, Types
<1>3. CASE ~Resolves(r.pay, r.outcome)
  BY <1>2, <1>3 DEF Confirm
<1>4. CASE Resolves(r.pay, r.outcome)
  <2> DEFINE i == r.pay
  <2>1. /\ i \in 1 .. Len(payments) /\ payments[i].status = "PENDING"
        /\ r.outcome = "APPROVED" => i \in charged
        /\ r.outcome = "DECLINED" => i \notin charged
        /\ \A o \in Sessions \ {s} : Paying(o) => req[o].pay # i
    BY <1>1, <1>2 DEF RequestsHavePayments, Paying, At
  <2>2. PICK x \in Subs : x = payments[i].sub
    BY <1>1, <2>1, PaymentTypes DEF Types
  <2>3. sub[x].status = "PENDING_PAYMENT" /\ \A k \in PaymentsOf(x) : k <= i
    BY <1>1, <2>1, <2>2 DEF PaymentsInv, OnePaymentInProgress
  <2>4. /\ r.outcome = "APPROVED" => lock[x] = Free
        /\ payments' = [payments EXCEPT ![i].status = r.outcome]
        /\ sub' = IF r.outcome = "APPROVED"
                  THEN [sub EXCEPT ![x].status = "ACTIVE", ![x].start = r.asOf,
                                   ![x].end = r.asOf + Period]
                  ELSE sub
        /\ Ends(s) /\ UNCHANGED <<now, charged>>
    BY <1>2, <1>4, <2>2, <2>3 DEF Confirm
  <2>5. /\ r.outcome \in Final /\ r.asOf \in Nat /\ r.asOf + Period \in Nat
    BY <1>4, PeriodAssumption DEF Resolves, Request
  <2>6. /\ payments' \in Seq(PaymentRecord) /\ Len(payments') = Len(payments)
        /\ payments'[i].status = r.outcome /\ payments'[i].sub = x
        /\ \A k \in 1 .. Len(payments) \ {i} : payments'[k] = payments[k]
    BY <1>1, <2>1, <2>2, <2>4, <2>5, PaymentResolved DEF Types
  <2>7. /\ \A y \in Subs \ {x} : sub'[y] = sub[y]
        /\ sub'[x].user = sub[x].user /\ sub' \in [Subs -> SubscriptionRecord]
        /\ r.outcome # "APPROVED" => sub' = sub
        /\ r.outcome = "APPROVED" =>
             sub'[x].status = "ACTIVE" /\ sub'[x].start = r.asOf /\ sub'[x].end = r.asOf + Period
    <3>1. CASE r.outcome # "APPROVED"
      BY <1>1, <2>4, <3>1 DEF Types
    <3>2. CASE r.outcome = "APPROVED"
      <4> DEFINE n == r.asOf + Period
                 row == [sub[x] EXCEPT !.status = "ACTIVE", !.start = r.asOf, !.end = n]
      <4>1. sub[x] \in SubscriptionRecord /\ n \in Nat /\ n = r.asOf + Period
        BY <1>1, <2>5 DEF Types
      <4>2. sub' = [sub EXCEPT ![x] = row]
        BY <2>4, <3>2
      <4> HIDE DEF n
      <4>3. /\ row \in SubscriptionRecord /\ row.user = sub[x].user
            /\ row.status = "ACTIVE" /\ row.start = r.asOf /\ row.end = n
        BY <2>5, <4>1 DEF SubscriptionRecord, Current, Granting
      <4> HIDE DEF row
      <4>4. QED
        BY <1>1, <3>2, <4>1, <4>2, <4>3 DEF Types
    <3>3. QED
      BY <3>1, <3>2
  <2>8. Confirmed(s, r, x)
    BY <1>2, <2>1, <2>2, <2>3, <2>4, <2>5, <2>6, <2>7 DEF Confirmed
  <2>9. QED
    BY <2>8
<1>5. QED
  BY <1>3, <1>4

(* So the others' payments, and what they know of their rows, stay. *)
LEMMA ConfirmKeeps ==
  ASSUME IInv, NEW s \in Sessions, Confirm(s)
  PROVE  Types' /\ Kept'
<1>1. /\ Types /\ LocksServed /\ CheckoutsAreTrue /\ PaymentsInv /\ NoRequest \notin Request
      /\ PeriodsAreWhole /\ RequestsHavePayments /\ OneCurrentPerUser /\ Free \notin Sessions
      /\ now \in Nat
  BY MarkersAssumption, BoundsAssumption DEF IInv, Types
<1>3. CASE Ends(s) /\ UNCHANGED <<sub, payments, now, charged>>
  BY <1>3, EndKeeps
<1>4. ASSUME NEW r \in Request, NEW x \in Subs, Confirmed(s, r, x) PROVE Types' /\ Kept'
  <2> DEFINE i == r.pay
  <2>1. /\ i \in 1 .. Len(payments) /\ payments[i].status = "PENDING"
        /\ r.outcome = "APPROVED" => i \in charged
        /\ r.outcome = "DECLINED" => i \notin charged
        /\ \A o \in Sessions \ {s} : Paying(o) => req[o].pay # i
    BY <1>4 DEF Confirmed
  <2>2. x = payments[i].sub
    BY <1>4 DEF Confirmed
  <2>3. sub[x].status = "PENDING_PAYMENT" /\ \A k \in PaymentsOf(x) : k <= i
    BY <1>4 DEF Confirmed
  <2>4. (r.outcome = "APPROVED" => lock[x] = Free) /\ Ends(s) /\ UNCHANGED <<now, charged>>
    BY <1>4 DEF Confirmed
  <2>5. r.outcome \in Final
    BY <1>4 DEF Confirmed
  <2>6. /\ payments' \in Seq(PaymentRecord) /\ Len(payments') = Len(payments)
        /\ payments'[i].status = r.outcome /\ payments'[i].sub = x
        /\ \A k \in 1 .. Len(payments) \ {i} : payments'[k] = payments[k]
    BY <1>4 DEF Confirmed
  <2>7. /\ \A y \in Subs \ {x} : sub'[y] = sub[y]
        /\ sub'[x].user = sub[x].user /\ sub' \in [Subs -> SubscriptionRecord]
        /\ r.outcome # "APPROVED" => sub' = sub
        /\ r.outcome = "APPROVED" => sub'[x].status = "ACTIVE" /\ sub'[x].end = sub'[x].start + Period
    BY <1>4 DEF Confirmed
  <2> HIDE DEF i
  <2>8. /\ req' \in [Sessions -> Request \cup {NoRequest}] /\ lock' \in [Subs -> Sessions \cup {Free}]
        /\ req'[s] = NoRequest /\ \A o \in Sessions \ {s} : req'[o] = req[o]
        /\ \A y \in Subs : lock'[y] = IF lock[y] = s THEN Free ELSE lock[y]
    BY <1>1, <2>4, EndsFacts
  <2>9. Types'
    BY <1>1, <2>4, <2>6, <2>7, <2>8 DEF Types
  <2>10. LocksServed'
    BY <1>1, <2>8 DEF LocksServed, At, Types
  <2>11. \A y \in Subs \ {x} : PaymentsOf(y)' = PaymentsOf(y)
    BY <2>2, <2>6 DEF PaymentsOf
  <2>12. PaymentsOf(x)' = PaymentsOf(x) /\ i \in PaymentsOf(x)
    BY <2>1, <2>2, <2>6 DEF PaymentsOf
  <2>13. CheckoutsAreTrue'
    <3>1. ASSUME NEW o \in Sessions, At(o, "opened")'
          PROVE  OpenedIsTrue(req[o], o)'
      <4>1. At(o, "opened") /\ o # s /\ req'[o] = req[o] /\ req[o] \in Request /\ now' = now
        BY <1>1, <2>4, <2>8, <3>1 DEF At, Types
      <4>2. PICK p \in Request : p = req[o] /\ p = req'[o]
        BY <4>1
      <4>3. OpenedIsTrue(p, o)
        BY <1>1, <4>1, <4>2 DEF CheckoutsAreTrue
      <4>4. ASSUME NEW y \in Subs, lock[y] = o
            PROVE  lock'[y] = o /\ sub'[y] = sub[y] /\ (NonePending(y) => NonePending(y)')
        <5>1. lock'[y] = o /\ sub'[y] = sub[y]
          BY <1>1, <2>4, <2>7, <2>8, <4>1, <4>4
        <5>2. PaymentsOf(y)' = PaymentsOf(y)
          BY <2>11, <2>12
        <5>3. QED
          BY <2>5, <2>6, <5>1, <5>2 DEF NonePending, PaymentsOf, Final
      <4>5. OpenedIsTrue(p, o)'
        BY <1>1, <4>1, <4>3, <4>4, OpenedStays
      <4>6. QED
        BY <4>2, <4>5
    <3>2. QED
      BY <3>1 DEF CheckoutsAreTrue
  <2>14. RequestsHavePayments'
    <3>1. ASSUME NEW o \in Sessions, Paying(o)'
          PROVE  /\ o # s /\ Paying(o) /\ req'[o] = req[o]
                 /\ At(o, "confirming")' <=> At(o, "confirming")
                 /\ At(o, "submitting")' <=> At(o, "submitting")
      BY <2>8, <3>1 DEF Paying, At
    <3>2. QED
      BY <1>1, <2>1, <2>4, <2>6, <3>1 DEF RequestsHavePayments
  <2>15. \A k \in 1 .. Len(payments) : payments[k].sub \in Subs /\ payments'[k].sub = payments[k].sub
    BY <1>1, <2>2, <2>6, PaymentTypes DEF Types
  <2>16. PaymentsInv'
    <3>1. PaymentsHaveRows'
      BY <1>1, <2>6, <2>7, <2>15 DEF PaymentsInv, PaymentsHaveRows
    <3>2. OnePaymentInProgress'
      <4>1. ASSUME NEW k \in 1 .. Len(payments'), payments'[k].status = "PENDING",
                   NEW y, y = payments'[k].sub
            PROVE  sub'[y].status = "PENDING_PAYMENT" /\ \A m \in PaymentsOf(y)' : m <= k
        <5>1. k # i /\ k \in 1 .. Len(payments) /\ payments[k].status = "PENDING" /\ payments[k].sub = y
          BY <2>5, <2>6, <2>15, <4>1 DEF Final
        <5>2. /\ y \in Subs /\ k \in PaymentsOf(y)
              /\ sub[y].status = "PENDING_PAYMENT" /\ \A m \in PaymentsOf(y) : m <= k
          BY <1>1, <2>15, <5>1 DEF PaymentsInv, OnePaymentInProgress, PaymentsOf
        <5>3. y # x
          BY <2>1, <2>3, <2>12, <5>1, <5>2
        <5>4. QED
          BY <2>7, <2>11, <5>2, <5>3
      <4>2. QED
        BY <4>1 DEF OnePaymentInProgress
    <3>3. ChargedStands'
      <4>1. ASSUME NEW k \in charged, NEW y, y = payments'[k].sub
            PROVE  /\ payments'[k].status # "DECLINED"
                   /\ payments'[k].status # "ERROR" => \A m \in PaymentsOf(y)' : m <= k
        <5>1. k \in 1 .. Len(payments) /\ y = payments[k].sub /\ y \in Subs
          BY <1>1, <2>15, <4>1 DEF Types
        <5>2. PaymentsOf(y)' = PaymentsOf(y)
          BY <2>11, <2>12, <5>1
        <5>3. QED
          BY <1>1, <2>1, <2>6, <4>1, <5>1, <5>2 DEF PaymentsInv, ChargedStands
      <4>2. QED
        BY <2>4, <4>1 DEF ChargedStands
    <3>4. AccessIsPaid'
      <4>1. ASSUME NEW y \in Subs \ {x}
            PROVE  {k \in PaymentsOf(y)' : payments'[k].status = "APPROVED"}
                     = {k \in PaymentsOf(y) : payments[k].status = "APPROVED"}
        BY <2>2, <2>6, <2>11, <4>1 DEF PaymentsOf
      <4> DEFINE old == {k \in PaymentsOf(x) : payments[k].status = "APPROVED"}
                 new == {k \in PaymentsOf(x) : payments'[k].status = "APPROVED"}
      <4>2. old = {}
        BY <1>1, <2>3 DEF PaymentsInv, AccessIsPaid, Granting
      <4>3. new = IF r.outcome = "APPROVED" THEN {i} ELSE {}
        BY <2>6, <2>12, <4>2 DEF PaymentsOf
      <4> HIDE DEF old, new
      <4>4. /\ new \subseteq charged
            /\ (sub'[x].status \in Granting \cup {"EXPIRED"}) <=> (new # {})
        BY <2>1, <2>3, <2>7, <4>3 DEF Granting
      <4>5. {k \in PaymentsOf(x)' : payments'[k].status = "APPROVED"} = new
        BY <2>12 DEF new
      <4>6. QED
        BY <1>1, <2>4, <2>7, <4>1, <4>4, <4>5 DEF PaymentsInv, AccessIsPaid
    <3>5. QED
      BY <3>1, <3>2, <3>3, <3>4 DEF PaymentsInv
  <2>17. PeriodsAreWhole' /\ OneCurrentPerUser'
    BY <1>1, <2>3, <2>4, <2>7
       DEF PeriodsAreWhole, OneCurrentPerUser, Activated, Granting, Current
  <2>18. QED
    BY <2>9, <2>10, <2>13, <2>14, <2>16, <2>17 DEF Kept
<1>5. QED
  BY <1>3, <1>4, ConfirmStep

(* A request to cancel, the clock, and steps of others leave all as it is. *)
LEMMA WaitKeeps ==
  ASSUME IInv, Types', UNCHANGED <<sub, payments, lock, charged>>, now <= now',
         UNCHANGED req \/ \E s \in Sessions, u \in Users : CancelOpen(s, u)
  PROVE  Kept'
<1>1. /\ Types /\ LocksServed /\ CheckoutsAreTrue /\ PaymentsInv /\ NoRequest \notin Request
      /\ PeriodsAreWhole /\ RequestsHavePayments /\ OneCurrentPerUser /\ Free \notin Sessions
      /\ now \in Nat /\ now' \in Nat
  BY MarkersAssumption, BoundsAssumption DEF IInv, Types
<1>2. \A o \in Sessions :
        \/ req'[o] = req[o]
        \/ req[o] = NoRequest /\ req'[o] # NoRequest /\ req'[o].pc = "canceling"
  <2>1. CASE UNCHANGED req
    BY <2>1
  <2>2. ASSUME NEW s \in Sessions, NEW u \in Users, CancelOpen(s, u)
        PROVE  \A o \in Sessions :
                 \/ req'[o] = req[o]
                 \/ req[o] = NoRequest /\ req'[o] # NoRequest /\ req'[o].pc = "canceling"
    <3> DEFINE q == [pc |-> "canceling", user |-> u, sub |-> NoSub, expiring |-> {}, pay |-> 0,
                     outcome |-> "PENDING", asOf |-> now]
    <3>1. q \in Request /\ q.pc = "canceling" /\ req' = [req EXCEPT ![s] = q] /\ req[s] = NoRequest
      BY <1>1, <2>2 DEF CancelOpen, Request
    <3> HIDE DEF q
    <3>2. QED
      BY <1>1, <3>1 DEF Types
  <2>3. QED
    BY <2>1, <2>2
<1>3. \A o \in Sessions, pc \in {"opened", "submitting", "confirming"} :
        (At(o, pc)' <=> At(o, pc)) /\ (At(o, pc) => req'[o] = req[o])
  BY <1>2 DEF At
<1>4. LocksServed' /\ RequestsHavePayments'
  BY <1>1, <1>3 DEF LocksServed, RequestsHavePayments, Paying, Types
<1>5. CheckoutsAreTrue'
  <2>1. ASSUME NEW o \in Sessions, At(o, "opened")'
        PROVE  OpenedIsTrue(req[o], o)'
    <3>1. At(o, "opened") /\ req'[o] = req[o] /\ req[o] \in Request
      BY <1>1, <1>3, <2>1 DEF At, Types
    <3>2. PICK p \in Request : p = req[o] /\ p = req'[o]
      BY <3>1
    <3>3. OpenedIsTrue(p, o)
      BY <1>1, <3>1, <3>2 DEF CheckoutsAreTrue
    <3>4. OpenedIsTrue(p, o)'
      BY <1>1, <3>1, <3>3, OpenedStays DEF NonePending, PaymentsOf
    <3>5. QED
      BY <3>2, <3>4
  <2>2. QED
    BY <2>1 DEF CheckoutsAreTrue
<1>6. PaymentsInv' /\ OneCurrentPerUser'
  BY <1>1 DEF PaymentsInv, PaymentsHaveRows, OnePaymentInProgress, ChargedStands, AccessIsPaid,
     PaymentsOf, OneCurrentPerUser
<1>7. PeriodsAreWhole'
  <2>1. \A x \in Subs : sub[x].end \in Nat
    BY <1>1 DEF Types, SubscriptionRecord
  <2>2. QED
    BY <1>1, <2>1 DEF PeriodsAreWhole
<1>8. QED
  BY <1>4, <1>5, <1>6, <1>7 DEF Kept

-----------------------------------------------------------------------------
(* The first state satisfies the invariant. *)
LEMMA IInvInit == Init => IInv
<1> SUFFICES ASSUME Init PROVE IInv
  OBVIOUS
<1>1. Types
  <2>1. (CHOOSE u \in Users : TRUE) \in Users
    BY UsersAssumption
  <2>2. payments = <<>> /\ charged = {} /\ payments \in Seq(PaymentRecord) /\ Len(payments) = 0
    BY DEF Init
  <2>3. QED
    BY <2>1, <2>2, BoundsAssumption DEF Init, Types, SubscriptionRecord
<1>2. PeriodsAreWhole /\ LocksServed /\ CheckoutsAreTrue /\ OneCurrentPerUser
  BY DEF Init, PeriodsAreWhole, Activated, Granting, Current, LocksServed, CheckoutsAreTrue, At,
     OneCurrentPerUser
<1>3. RequestsHavePayments /\ PaymentsInv
  BY DEF Init, RequestsHavePayments, Paying, At, PaymentsInv, PaymentsHaveRows, PaymentsOf,
     OnePaymentInProgress, ChargedStands, AccessIsPaid, Granting
<1>4. QED
  BY <1>1, <1>2, <1>3 DEF IInv

(* Every step keeps it. *)
LEMMA IInvNext == IInv /\ [Next]_vars => IInv'
<1> SUFFICES ASSUME IInv, [Next]_vars PROVE Types' /\ Kept'
  BY DEF IInv, Kept
<1>0. Types /\ now \in Nat /\ MaxTime \in Nat /\ NoRequest \notin Request
  BY BoundsAssumption, MarkersAssumption DEF IInv, Types
<1>1. ASSUME NEW s \in Sessions, NEW u \in Users, CheckoutOpen(s, u) PROVE Types' /\ Kept'
  BY <1>1, CheckoutOpenKeeps
<1>2. ASSUME NEW s \in Sessions, NEW u \in Users, CancelOpen(s, u) PROVE Types' /\ Kept'
  <2>1. Types' /\ UNCHANGED <<sub, payments, lock, charged>> /\ now <= now'
    BY <1>0, <1>2 DEF CancelOpen, Types, Request
  <2>2. QED
    BY <1>2, <2>1, WaitKeeps
<1>3. ASSUME NEW s \in Sessions, Continue(s) PROVE Types' /\ Kept'
  BY <1>3, EndKeeps, CheckoutCommitKeeps, SubmitKeeps, ConfirmKeeps, CancelCommitKeeps
     DEF Continue, CheckoutConflicts
<1>4. ASSUME NEW s \in Sessions, Crash(s) PROVE Types' /\ Kept'
  BY <1>4, EndKeeps DEF Crash
<1>5. CASE ExpireAll
  BY <1>5, ExpireAllKeeps
<1>6. CASE Tick
  <2>1. Types' /\ UNCHANGED <<sub, payments, lock, charged, req>> /\ now <= now'
    BY <1>0, <1>6 DEF Tick, Types
  <2>2. QED
    BY <2>1, WaitKeeps
<1>7. CASE UNCHANGED vars
  <2>1. Types' /\ UNCHANGED <<sub, payments, lock, charged, req>> /\ now <= now'
    BY <1>0, <1>7 DEF vars, Types
  <2>2. QED
    BY <2>1, WaitKeeps
<1>8. QED
  BY <1>1, <1>2, <1>3, <1>4, <1>5, <1>6, <1>7 DEF Next

(* The invariant holds in every reachable state. *)
THEOREM InductiveInvariant == Spec => []IInv
  BY IInvInit, IInvNext, PTL DEF Spec

-----------------------------------------------------------------------------
(* The types; a row is locked by the first transaction of a checkout only. *)
THEOREM TypeCorrect == Spec => []TypeOK
<1>1. IInv => TypeOK
  BY DEF IInv, Types, LocksServed, TypeOK
<1>2. QED
  BY <1>1, InductiveInvariant, PTL

(* A user has one current subscription. *)
THEOREM UsersHaveOneCurrent == Spec => []OneCurrentPerUser
<1>1. IInv => OneCurrentPerUser
  BY DEF IInv
<1>2. QED
  BY <1>1, InductiveInvariant, PTL

(* A subscription has one pending payment at most, and waits for it. *)
THEOREM PaymentsAreOneAtATime == Spec => []OnePaymentInProgress
<1>1. IInv => OnePaymentInProgress
  BY DEF IInv, PaymentsInv
<1>2. QED
  BY <1>1, InductiveInvariant, PTL

(* The gateway collects a second payment of a subscription only after a    *)
(* call that collected the first and failed: whatever requests run at once *)
(* and die before they record its answer.                                  *)
THEOREM ChargedAgainAfterError == Spec => []ChargedAgainOnlyAfterError
<1>1. IInv => ChargedAgainOnlyAfterError
  <2> SUFFICES ASSUME IInv, NEW i \in charged, NEW k \in charged,
                      payments[i].sub = payments[k].sub, i < k, payments[i].status # "ERROR"
               PROVE  FALSE
    BY DEF ChargedAgainOnlyAfterError
  <2>1. i \in 1 .. Len(payments) /\ k \in 1 .. Len(payments)
    BY DEF IInv, Types
  <2>2. k <= i
    BY <2>1 DEF IInv, PaymentsInv, ChargedStands, PaymentsOf
  <2>3. i \in Nat /\ k \in Nat
    BY <2>1
  <2>4. QED
    BY <2>2, <2>3
<1>2. QED
  BY <1>1, InductiveInvariant, PTL

(* INV-05: what was activated was paid, and what was paid was activated. *)
THEOREM AccessNeedsPayment == Spec => []AccessIsPaid
<1>1. IInv => AccessIsPaid
  BY DEF IInv, PaymentsInv
<1>2. QED
  BY <1>1, InductiveInvariant, PTL

(* No status goes back, no paid period moves, no resolved payment changes. *)
THEOREM StatusesOnlyAdvance == Spec => OnlyForward
<1> DEFINE Forward(x) == /\ Follows(sub[x].status, sub'[x].status)
                         /\ sub[x].status \in Granting \cup {"EXPIRED"} =>
                              sub'[x].start = sub[x].start /\ sub'[x].end = sub[x].end
           A == /\ \A x \in Subs : Forward(x)
                /\ \A i \in 1 .. Len(payments) :
                     payments[i].status \in Final => payments'[i] = payments[i]
<1>1. ASSUME IInv, [Next]_vars PROVE A
  <2>1. CASE UNCHANGED <<sub, payments>>
    BY <2>1 DEF Follows
  <2>2. ASSUME NEW X \in SUBSET Subs, RowsMove(X), UNCHANGED payments
        PROVE  A
    <3>1. ASSUME NEW x \in Subs PROVE Forward(x)
      <4>1. CASE x \notin X
        BY <2>2, <4>1 DEF RowsMove, Follows
      <4>2. CASE x \in X
        BY <2>2, <4>2 DEF RowsMove, Follows, Granting
      <4>3. QED
        BY <4>1, <4>2
    <3>2. QED
      BY <2>2, <3>1
  <2>3. ASSUME NEW s \in Sessions, CheckoutCommit(s) PROVE A
    <3>1. PICK r \in Request, y \in Subs : CheckoutCommitted(s, r, y)
      BY <1>1, <2>3, CheckoutCommitStep
    <3>2. sub[y].status \in {"NONE", "PENDING_PAYMENT"} /\ sub'[y].status = "PENDING_PAYMENT"
      BY <3>1 DEF CheckoutCommitted, OpenedIsTrue
    <3>3. ASSUME NEW x \in r.expiring PROVE Forward(x)
      <4>1. /\ sub[x].status \in Granting /\ sub'[x].status = "EXPIRED"
            /\ sub'[x].start = sub[x].start /\ sub'[x].end = sub[x].end
        BY <3>1 DEF CheckoutCommitted
      <4>2. QED
        BY <4>1 DEF Follows, Granting
    <3>4. Forward(y)
      BY <3>2 DEF Follows, Granting
    <3>5. ASSUME NEW x \in Subs \ (r.expiring \cup {y}) PROVE Forward(x)
      BY <3>1 DEF CheckoutCommitted, Follows
    <3>6. \A i \in 1 .. Len(payments) : payments'[i] = payments[i]
      BY <3>1 DEF CheckoutCommitted
    <3> HIDE DEF Forward
    <3>7. QED
      BY <3>3, <3>4, <3>5, <3>6
  <2>4. ASSUME NEW s \in Sessions, NEW r \in Request, NEW y \in Subs, Confirmed(s, r, y) PROVE A
    <3>1. Forward(y)
      BY <2>4 DEF Confirmed, Follows, Granting
    <3>2. ASSUME NEW x \in Subs \ {y} PROVE Forward(x)
      BY <2>4 DEF Confirmed, Follows
    <3>3. \A i \in 1 .. Len(payments) : payments[i].status \in Final => payments'[i] = payments[i]
      BY <2>4 DEF Confirmed, Final
    <3> HIDE DEF Forward
    <3>4. QED
      BY <3>1, <3>2, <3>3
  <2>5. ASSUME NEW s \in Sessions, CancelCommit(s) PROVE A
    BY <1>1, <2>2, <2>5, CancelCommitMoves DEF CancelCommit
  <2>6. CASE ExpireAll
    BY <1>1, <2>2, <2>6, ExpireAllMoves DEF ExpireAll
  <2> HIDE DEF A
  <2>7. ASSUME NEW s \in Sessions, Confirm(s) PROVE A
    BY <1>1, <2>1, <2>4, <2>7, ConfirmStep
  <2>8. QED
    BY <1>1, <2>1, <2>3, <2>5, <2>6, <2>7
       DEF Next, vars, Continue, CheckoutOpen, CancelOpen, CheckoutConflicts, Submit, Crash, Tick
<1>2. QED
  BY <1>1, InductiveInvariant, PTL DEF Spec, OnlyForward

-----------------------------------------------------------------------------
(* What the other services and the tasks rely on.                          *)

(* What a step does to the rows: nothing, a cancellation or an expiry, the *)
(* first transaction of a checkout, or a confirmation.                     *)
LEMMA RowSteps ==
  ASSUME IInv, [Next]_vars
  PROVE  \/ UNCHANGED <<sub, payments>> /\ (Tick \/ UNCHANGED now)
         \/ \E X \in SUBSET Subs : RowsMove(X) /\ UNCHANGED <<payments, now>>
         \/ \E s \in Sessions, r \in Request, x \in Subs :
              CheckoutCommitted(s, r, x) \/ Confirmed(s, r, x)
<1>1. ASSUME NEW s \in Sessions, CheckoutCommit(s)
      PROVE  \E r \in Request, x \in Subs : CheckoutCommitted(s, r, x)
  BY <1>1, CheckoutCommitStep
<1>2. ASSUME NEW s \in Sessions, Confirm(s)
      PROVE  \/ UNCHANGED <<sub, payments, now>>
             \/ \E r \in Request, x \in Subs : Confirmed(s, r, x)
  BY <1>2, ConfirmStep
<1>3. ASSUME NEW s \in Sessions, CancelCommit(s)
      PROVE  \E X \in SUBSET Subs : RowsMove(X) /\ UNCHANGED <<payments, now>>
  BY <1>3, CancelCommitMoves DEF CancelCommit
<1>4. ASSUME ExpireAll
      PROVE  \E X \in SUBSET Subs : RowsMove(X) /\ UNCHANGED <<payments, now>>
  BY <1>4, ExpireAllMoves DEF ExpireAll
<1>5. QED
  BY <1>1, <1>2, <1>3, <1>4
     DEF Next, vars, Continue, CheckoutOpen, CancelOpen, CheckoutConflicts, Submit, Crash, Tick

(* A request that confirms took its instant from the clock after every      *)
(* other period of its user: they were over when its checkout opened, and  *)
(* nobody can pay another one while its payment is pending.                *)
Later(r) ==
  /\ r.asOf <= now
  /\ \A y \in Subs :
       sub[y].status \in Activated /\ sub[y].user = sub[payments[r.pay].sub].user =>
         sub[y].end <= r.asOf

ConfirmationsAreLater == \A s \in Sessions : At(s, "confirming") => Later(req[s])

(* Whoever confirms has just got the answer of the gateway, or waits. *)
LEMMA ConfirmingStep ==
  ASSUME IInv, [Next]_vars, NEW o \in Sessions, At(o, "confirming")'
  PROVE  Submit(o) \/ (At(o, "confirming") /\ req'[o] = req[o] /\ ~Confirm(o))
<1>1. Types /\ NoRequest \notin Request
  BY MarkersAssumption DEF IInv
<1>2. ASSUME NEW s \in Sessions, Ends(s)
      PROVE  o # s /\ req'[o] = req[o]
  BY <1>1, <1>2, EndsFacts DEF At
<1>3. ASSUME NEW s \in Sessions, NEW q, req' = [req EXCEPT ![s] = q], q = NoRequest \/ q.pc # "confirming"
      PROVE  o # s /\ req'[o] = req[o]
  BY <1>1, <1>3 DEF At, Types
<1>4. ASSUME NEW s \in Sessions, Submit(s) PROVE s = o \/ req'[o] = req[o]
  BY <1>1, <1>4 DEF Submit, Types
<1>5. ASSUME NEW s \in Sessions, NEW u \in Users, CheckoutOpen(s, u) \/ CancelOpen(s, u)
      PROVE  req'[o] = req[o]
  BY <1>3, <1>5 DEF CheckoutOpen, CancelOpen, Opened
<1>6. ASSUME NEW s \in Sessions, CheckoutCommit(s) PROVE req'[o] = req[o]
  <2>1. req[s] \in Request
    BY <1>1, <1>6 DEF CheckoutCommit, At, Types
  <2>2. [req[s] EXCEPT !.pc = "submitting", !.pay = Len(payments) + 1].pc # "confirming"
    BY <2>1 DEF Request
  <2>3. req' = [req EXCEPT ![s] = [req[s] EXCEPT !.pc = "submitting", !.pay = Len(payments) + 1]]
    BY <1>6 DEF CheckoutCommit
  <2>4. QED
    BY <1>3, <2>2, <2>3
<1>7. Submit(o) \/ req'[o] = req[o]
  BY <1>2, <1>4, <1>5, <1>6
     DEF Next, vars, Continue, CheckoutConflicts, Confirm, CancelCommit, Crash, ExpireAll, Tick
<1>8. ~Confirm(o)
  BY <1>2 DEF Confirm
<1>9. QED
  BY <1>7, <1>8 DEF At

(* Every period anybody has paid was paid before, or is confirmed now.     *)
LEMMA PaidBefore ==
  ASSUME IInv, [Next]_vars, NEW y \in Subs, sub'[y].status \in Activated
  PROVE  /\ sub'[y].user = sub[y].user /\ sub[y].status # "NONE"
         /\ \/ sub[y].status \in Activated /\ sub'[y].start = sub[y].start /\ sub'[y].end = sub[y].end
            \/ \E s \in Sessions, r \in Request : Confirmed(s, r, y) /\ r.outcome = "APPROVED"
<1>1. CASE UNCHANGED <<sub, payments>>
  BY <1>1 DEF Activated, Granting
<1>2. ASSUME NEW X \in SUBSET Subs, RowsMove(X)
      PROVE  /\ sub[y].status \in Activated /\ sub'[y].user = sub[y].user
             /\ sub'[y].start = sub[y].start /\ sub'[y].end = sub[y].end
  BY <1>2 DEF RowsMove, Activated, Granting
<1>3. ASSUME NEW s \in Sessions, NEW r \in Request, NEW x \in Subs, CheckoutCommitted(s, r, x)
      PROVE  /\ sub[y].status \in Activated /\ sub'[y].user = sub[y].user
             /\ sub'[y].start = sub[y].start /\ sub'[y].end = sub[y].end
  BY <1>3 DEF CheckoutCommitted, Activated, Granting
<1>4. ASSUME NEW s \in Sessions, NEW r \in Request, NEW x \in Subs, Confirmed(s, r, x)
      PROVE  /\ sub'[y].user = sub[y].user /\ sub[y].status # "NONE"
             /\ \/ sub[y].status \in Activated /\ sub'[y] = sub[y]
                \/ y = x /\ r.outcome = "APPROVED"
  <2>1. CASE y # x
    BY <1>4, <2>1 DEF Confirmed, Activated, Granting
  <2>2. CASE y = x /\ r.outcome = "APPROVED"
    BY <1>4, <2>2 DEF Confirmed
  <2>3. CASE y = x /\ r.outcome # "APPROVED"
    BY <1>4, <2>3 DEF Confirmed, Activated, Granting
  <2>4. QED
    BY <2>1, <2>2, <2>3
<1>5. QED
  BY <1>1, <1>2, <1>3, <1>4, RowSteps DEF Activated, Granting

(* The subscription of a payment has its user for good. *)
LEMMA PaymentUserStays ==
  ASSUME IInv, [Next]_vars, NEW i \in 1 .. Len(payments)
  PROVE  /\ payments[i].sub \in Subs /\ payments'[i].sub = payments[i].sub
         /\ sub'[payments[i].sub].user = sub[payments[i].sub].user
<1> PICK x \in Subs : x = payments[i].sub
  BY PaymentTypes DEF IInv, Types
<1>1. sub[x].status # "NONE"
  BY DEF IInv, PaymentsInv, PaymentsHaveRows
<1>2. CASE UNCHANGED <<sub, payments>>
  BY <1>2
<1>3. ASSUME NEW X \in SUBSET Subs, RowsMove(X), UNCHANGED payments
      PROVE  payments'[i].sub = x /\ sub'[x].user = sub[x].user
  BY <1>3 DEF RowsMove
<1>4. ASSUME NEW s \in Sessions, NEW r \in Request, NEW y \in Subs, CheckoutCommitted(s, r, y)
      PROVE  payments'[i].sub = x /\ sub'[x].user = sub[x].user
  <2>1. payments'[i].sub = x
    BY <1>4 DEF CheckoutCommitted
  <2>2. CASE x # y
    BY <1>4, <2>2 DEF CheckoutCommitted
  <2>3. CASE x = y
    <3>1. r.sub # NoSub /\ y = r.sub
      BY <1>1, <1>4, <2>3 DEF CheckoutCommitted
    <3>2. sub[y].user = r.user /\ sub'[y].user = r.user
      BY <1>4, <3>1 DEF CheckoutCommitted, OpenedIsTrue
    <3>3. QED
      BY <2>1, <2>3, <3>2
  <2>4. QED
    BY <2>1, <2>2, <2>3
<1>5. ASSUME NEW s \in Sessions, NEW r \in Request, NEW y \in Subs, Confirmed(s, r, y)
      PROVE  payments'[i].sub = x /\ sub'[x].user = sub[x].user
  BY <1>5 DEF Confirmed
<1>6. QED
  BY <1>2, <1>3, <1>4, <1>5, RowSteps

(* While a payment is pending its user pays no other period, so the        *)
(* request that confirms it is still later than all of them.               *)
LEMMA LaterNext ==
  ASSUME IInv, ConfirmationsAreLater, [Next]_vars
  PROVE  ConfirmationsAreLater'
<1> SUFFICES ASSUME NEW o \in Sessions, At(o, "confirming")' PROVE Later(req[o])'
  BY DEF ConfirmationsAreLater
<1>1. Types /\ Types' /\ PaymentsInv /\ OneCurrentPerUser /\ PeriodsAreWhole /\ RequestsHavePayments
  BY IInvNext DEF IInv
<1>2. now \in Nat /\ now' \in Nat /\ now <= now'
  <2>1. now' = now \/ now' = now + 1
    <3>1. ASSUME NEW s \in Sessions, NEW r \in Request, NEW y \in Subs,
                 CheckoutCommitted(s, r, y) \/ Confirmed(s, r, y)
          PROVE  now' = now
      BY <3>1 DEF CheckoutCommitted, Confirmed
    <3>2. Tick \/ now' = now
      BY <3>1, RowSteps
    <3>3. QED
      BY <3>2 DEF Tick
  <2>2. QED
    BY <1>1, <2>1, BoundsAssumption DEF Types
<1>3. (At(o, "submitting") \/ At(o, "confirming")) /\ req[o] \in Request
  BY <1>1, ConfirmingStep DEF Submit, At, Types
<1> DEFINE i == req[o].pay
           x == payments[i].sub
<1>4. i \in 1 .. Len(payments) /\ payments[i].status = "PENDING"
  BY <1>1, <1>3 DEF RequestsHavePayments, Paying
<1>5. /\ x \in Subs /\ payments'[i].sub = x /\ sub'[x].user = sub[x].user
      /\ sub[x].status = "PENDING_PAYMENT" /\ \A k \in PaymentsOf(x) : k <= i
  BY <1>1, <1>4, PaymentUserStays DEF PaymentsInv, OnePaymentInProgress
<1> HIDE DEF i, x
<1>6. CASE Submit(o)
  <2>1. req'[o].pay = i /\ req'[o].asOf = now /\ UNCHANGED <<sub, payments, now>>
    BY <1>1, <1>3, <1>6 DEF Submit, Types, Request, i
  <2>2. ASSUME NEW y \in Subs, sub[y].status \in Activated, sub[y].user = sub[x].user
        PROVE  sub[y].end <= now
    <3>1. sub[y].status = "EXPIRED"
      BY <1>1, <1>5, <2>2 DEF OneCurrentPerUser, Activated, Current, Granting
    <3>2. QED
      BY <1>1, <3>1 DEF PeriodsAreWhole
  <2>3. QED
    BY <1>2, <1>5, <2>1, <2>2 DEF Later
<1>7. CASE At(o, "confirming") /\ req'[o] = req[o] /\ ~Confirm(o)
  <2>1. Later(req[o])
    BY <1>7 DEF ConfirmationsAreLater
  <2>2. ASSUME NEW y \in Subs, sub'[y].status \in Activated, sub'[y].user = sub[x].user
        PROVE  sub'[y].end <= req[o].asOf
    <3>1. sub[y].user = sub[x].user /\ sub[y].status # "NONE"
      BY <2>2, PaidBefore
    <3>2. CASE sub[y].status \in Activated /\ sub'[y].end = sub[y].end
      BY <2>1, <3>1, <3>2 DEF Later, i, x
    <3>3. ASSUME NEW s \in Sessions, NEW r \in Request, Confirmed(s, r, y)
          PROVE  FALSE
      <4>1. /\ sub[y].status = "PENDING_PAYMENT" /\ r.pay \in 1 .. Len(payments)
            /\ y = payments[r.pay].sub /\ payments[r.pay].status = "PENDING"
            /\ \A k \in PaymentsOf(y) : k <= r.pay
            /\ \A p \in Sessions \ {s} : Paying(p) => req[p].pay # r.pay
        BY <3>3 DEF Confirmed
      <4>2. y = x
        BY <1>1, <1>5, <3>1, <4>1 DEF OneCurrentPerUser, Current
      <4>3. i <= r.pay /\ r.pay <= i /\ i \in Nat /\ r.pay \in Nat
        <5>1. i \in PaymentsOf(x) /\ r.pay \in PaymentsOf(x)
          BY <1>4, <4>1, <4>2 DEF PaymentsOf, x
        <5>2. Len(payments) \in Nat
          BY <1>1 DEF Types
        <5>3. QED
          BY <1>4, <1>5, <4>1, <4>2, <5>1, <5>2
      <4>4. o = s
        BY <1>7, <4>1, <4>3 DEF Paying, i
      <4>5. req'[s] = NoRequest
        BY <1>1, <3>3, EndsFacts DEF Confirmed
      <4>6. QED
        BY <4>4, <4>5 DEF At
    <3>4. QED
      BY <2>2, <3>2, <3>3, PaidBefore
  <2>3. req[o].asOf \in Nat
    BY <1>3 DEF Request
  <2>4. QED
    BY <1>2, <1>5, <1>7, <2>1, <2>2, <2>3 DEF Later, i
<1>8. QED
  BY <1>6, <1>7, ConfirmingStep

(* Every confirmation is later than the periods its user has paid. *)
THEOREM ConfirmationsFollow == Spec => [](IInv /\ ConfirmationsAreLater)
<1>1. Init => ConfirmationsAreLater
  BY DEF Init, ConfirmationsAreLater, At
<1>2. IInv /\ ConfirmationsAreLater /\ [Next]_vars => ConfirmationsAreLater'
  BY LaterNext
<1>3. QED
  BY <1>1, <1>2, InductiveInvariant, PTL DEF Spec

-----------------------------------------------------------------------------
(* Subscription implements PaidPeriods.                                    *)

(* The periods of the users stay where no row is activated or changed.     *)
LEMMA PaidStays ==
  ASSUME \A y \in Subs :
           /\ sub'[y].status \in Activated <=> sub[y].status \in Activated
           /\ sub[y].status \in Activated =>
                /\ sub'[y].user = sub[y].user
                /\ sub'[y].start = sub[y].start /\ sub'[y].end = sub[y].end
  PROVE  \A u \in Users : PaidBy(u)' = PaidBy(u)
<1> TAKE u \in Users
<1>1. {y \in Subs : sub'[y].user = u /\ sub'[y].status \in Activated}
        = {y \in Subs : sub[y].user = u /\ sub[y].status \in Activated}
  OBVIOUS
<1>2. QED
  BY <1>1 DEF PaidBy, Activated

(* A confirmation adds the period it starts to those of its user.          *)
LEMMA PaidGrows ==
  ASSUME NEW x \in Subs, NEW p, \A y \in Subs \ {x} : sub'[y] = sub[y],
         sub'[x].user = sub[x].user, sub[x].status \notin Activated, sub'[x].status \in Activated,
         p = [start |-> sub'[x].start, end |-> sub'[x].end]
  PROVE  \A u \in Users :
           PaidBy(u)' = IF u = sub[x].user THEN PaidBy(u) \cup {p} ELSE PaidBy(u)
<1> TAKE u \in Users
<1> DEFINE old == {y \in Subs : sub[y].user = u /\ sub[y].status \in Activated}
           new == {y \in Subs : sub'[y].user = u /\ sub'[y].status \in Activated}
<1>1. /\ PaidBy(u) = {[start |-> sub[y].start, end |-> sub[y].end] : y \in old}
      /\ PaidBy(u)' = {[start |-> sub'[y].start, end |-> sub'[y].end] : y \in new}
  BY DEF PaidBy, Activated
<1>2. x \notin old /\ new = IF u = sub[x].user THEN old \cup {x} ELSE old
  OBVIOUS
<1>3. \A y \in old : sub'[y] = sub[y]
  BY <1>2
<1> HIDE DEF old, new
<1>4. CASE u = sub[x].user
  <2>1. \A q : q \in PaidBy(u)' <=> (q \in PaidBy(u) \/ q = p)
    BY <1>1, <1>2, <1>3, <1>4
  <2>2. QED
    BY <1>4, <2>1
<1>5. CASE u # sub[x].user
  <2>1. \A q : q \in PaidBy(u)' <=> q \in PaidBy(u)
    BY <1>1, <1>2, <1>3, <1>5
  <2>2. QED
    BY <1>5, <2>1
<1>6. QED
  BY <1>4, <1>5

PaidNow == [u \in Users |-> PaidBy(u)]

(* A confirmation pays a period; nothing else touches them.                *)
LEMMA PeriodsNext ==
  ASSUME IInv, ConfirmationsAreLater, [Next]_vars
  PROVE  [Periods!NextPaid]_(Periods!paidVars)
<1>1. Types /\ now \in Nat
  BY BoundsAssumption DEF IInv, Types
<1>2. ASSUME \A u \in Users : PaidBy(u)' = PaidBy(u), Tick \/ UNCHANGED now
      PROVE  [Periods!NextPaid]_(Periods!paidVars)
  <2>1. PaidNow' = PaidNow
    BY <1>2 DEF PaidNow
  <2>2. CASE Tick
    BY <2>1, <2>2 DEF Tick, PaidNow, Periods!NextPaid, Periods!InstantPasses
  <2>3. CASE UNCHANGED now
    BY <2>1, <2>3 DEF PaidNow, Periods!paidVars
  <2>4. QED
    BY <1>2, <2>2, <2>3
<1>3. CASE UNCHANGED <<sub, payments>> /\ (Tick \/ UNCHANGED now)
  BY <1>2, <1>3 DEF PaidBy
<1>4. ASSUME NEW X \in SUBSET Subs, RowsMove(X), UNCHANGED now
      PROVE  [Periods!NextPaid]_(Periods!paidVars)
  <2>1. \A u \in Users : PaidBy(u)' = PaidBy(u)
    BY <1>4, PaidStays DEF RowsMove, Activated, Granting
  <2>2. QED
    BY <1>2, <1>4, <2>1
<1>5. ASSUME NEW s \in Sessions, NEW r \in Request, NEW x \in Subs, CheckoutCommitted(s, r, x)
      PROVE  [Periods!NextPaid]_(Periods!paidVars)
  <2>1. \A y \in Subs :
          /\ sub'[y].status \in Activated <=> sub[y].status \in Activated
          /\ sub[y].status \in Activated =>
               /\ sub'[y].user = sub[y].user
               /\ sub'[y].start = sub[y].start /\ sub'[y].end = sub[y].end
    BY <1>5 DEF CheckoutCommitted, OpenedIsTrue, Activated, Granting
  <2>2. UNCHANGED now
    BY <1>5 DEF CheckoutCommitted
  <2>3. QED
    BY <1>2, <2>1, <2>2, PaidStays
<1>6. ASSUME NEW s \in Sessions, NEW r \in Request, NEW x \in Subs, Confirmed(s, r, x)
      PROVE  [Periods!NextPaid]_(Periods!paidVars)
  <2>1. CASE r.outcome # "APPROVED"
    BY <1>2, <1>6, <2>1 DEF Confirmed, PaidBy
  <2>2. CASE r.outcome = "APPROVED"
    <3> DEFINE u == sub[x].user
               p == [start |-> r.asOf, end |-> r.asOf + Period]
    <3>1. /\ \A v \in Users : PaidBy(v)' = IF v = u THEN PaidBy(v) \cup {p} ELSE PaidBy(v)
          /\ now' = now
      <4>1. /\ \A y \in Subs \ {x} : sub'[y] = sub[y]
            /\ sub'[x].user = sub[x].user /\ sub[x].status = "PENDING_PAYMENT"
            /\ sub'[x].status = "ACTIVE" /\ sub'[x].start = r.asOf /\ sub'[x].end = r.asOf + Period
            /\ now' = now
        BY <1>6, <2>2 DEF Confirmed
      <4>2. QED
        BY <4>1, PaidGrows DEF Activated, Granting
    <3>2. Later(r) /\ r.asOf \in Nat /\ x = payments[r.pay].sub
      <4>1. r = req[s] /\ r.pc = "confirming" /\ x = payments[r.pay].sub
        BY <1>6 DEF Confirmed
      <4>2. At(s, "confirming")
        BY <4>1, MarkersAssumption DEF At
      <4>3. QED
        BY <4>1, <4>2 DEF ConfirmationsAreLater, Request
    <3>3. r.asOf \in 0 .. now /\ \A q \in PaidBy(u) : q.end <= r.asOf
      BY <1>1, <3>2 DEF Later, PaidBy, Activated
    <3>4. u \in Users
      BY <1>1 DEF Types, SubscriptionRecord
    <3> HIDE DEF u, p
    <3>5. PaidNow[u] = PaidBy(u) /\ PaidNow' = [PaidNow EXCEPT ![u] = @ \cup {p}]
      BY <3>1, <3>4 DEF PaidNow
    <3>6. /\ \E start \in 0 .. now :
               /\ \A q \in PaidNow[u] : q.end <= start
               /\ PaidNow' = [PaidNow EXCEPT ![u] = @ \cup {[start |-> start, end |-> start + Period]}]
          /\ UNCHANGED now
      BY <3>1, <3>3, <3>5 DEF p
    <3>7. Periods!Pay(u)
      BY <3>6 DEF Periods!Pay, PaidNow
    <3>8. QED
      BY <3>4, <3>7 DEF Periods!NextPaid
  <2>3. QED
    BY <2>1, <2>2
<1>7. QED
  BY <1>3, <1>4, <1>5, <1>6, RowSteps

(* Nobody has paid anything at the start. *)
LEMMA PeriodsInit == Init => Periods!InitPaid
<1> SUFFICES ASSUME Init PROVE Periods!InitPaid
  OBVIOUS
<1>1. \A u \in Users : PaidBy(u) = {}
  BY DEF Init, PaidBy, Granting
<1>2. QED
  BY <1>1 DEF Init, Periods!InitPaid

-----------------------------------------------------------------------------
(* Subscription implements SubscriptionRows.                               *)

RowsNow == [x \in Subs |-> SeenRow(x)]

(* Rows that expire are seen to expire, whatever becomes of rows that are  *)
(* not activated.                                                          *)
LEMMA RowsExpire ==
  ASSUME NEW X \in SUBSET Subs, UNCHANGED now,
         \A x \in X : sub[x].status \in Granting /\ IsFinished(x),
         \A x \in X : /\ sub'[x].status = "EXPIRED"
                      /\ sub'[x].start = sub[x].start /\ sub'[x].end = sub[x].end,
         \A x \in Subs \ X : SeenRow(x)' = SeenRow(x)
  PROVE  (X = {} /\ UNCHANGED RowsNow) \/ Rows!Expire(X)
<1>1. \A x \in X : RowsNow[x].status \in Granting /\ RowsNow[x].end <= now
  BY DEF RowsNow, SeenRow, IsFinished, Granting
<1>2. ASSUME NEW x \in X PROVE SeenRow(x)' = [SeenRow(x) EXCEPT !.status = "EXPIRED"]
  <2>1. SeenRow(x)' = [status |-> "EXPIRED", start |-> sub[x].start, end |-> sub[x].end]
    BY DEF SeenRow
  <2>2. QED
    BY <2>1 DEF SeenRow
<1>3. RowsNow' = [x \in Subs |-> IF x \in X THEN [RowsNow[x] EXCEPT !.status = "EXPIRED"] ELSE RowsNow[x]]
  BY <1>2 DEF RowsNow
<1>4. CASE X = {}
  BY <1>3, <1>4 DEF RowsNow
<1>5. CASE X # {}
  BY <1>1, <1>3, <1>5 DEF Rows!Expire, RowsNow, Rows!Granting, Granting
<1>6. QED
  BY <1>4, <1>5

(* A cancellation cancels the one current row of its user, if it still is  *)
(* active.                                                                 *)
LEMMA RowsCancel ==
  ASSUME IInv, NEW s \in Sessions, CancelCommit(s)
  PROVE  UNCHANGED <<RowsNow, now>> \/ \E x \in Subs : Rows!Cancel(x)
<1> DEFINE mine == CurrentOf(req[s].user)
           canceled == {x \in mine : Grants(x, req[s].asOf)}
<1>1. /\ Types /\ OneCurrentPerUser /\ UNCHANGED now
      /\ sub' = [x \in Subs |-> IF x \in canceled THEN [sub[x] EXCEPT !.status = "CANCELED"] ELSE sub[x]]
  BY DEF IInv, CancelCommit
<1>2. \A x \in canceled : x \in Subs /\ sub[x].status \in Granting
  BY DEF CurrentOf, Grants
<1>3. \A x, y \in canceled : x = y
  BY <1>1 DEF CurrentOf, OneCurrentPerUser
<1> HIDE DEF canceled
<1>4. \A x \in Subs : SeenRow(x)' = IF x \in canceled THEN [SeenRow(x) EXCEPT !.status = "CANCELED"]
                                   ELSE SeenRow(x)
  BY <1>1, <1>2 DEF SeenRow, Types, SubscriptionRecord, Granting
<1>5. CASE \A x \in canceled : sub[x].status = "CANCELED"
  <2>1. \A x \in canceled : [SeenRow(x) EXCEPT !.status = "CANCELED"] = SeenRow(x)
    BY <1>5 DEF SeenRow
  <2>2. QED
    BY <1>1, <1>4, <2>1 DEF RowsNow
<1>6. ASSUME NEW x \in canceled, sub[x].status = "ACTIVE"
      PROVE  Rows!Cancel(x)
  <2>1. canceled = {x} /\ x \in Subs
    BY <1>2, <1>3, <1>6
  <2>2. RowsNow[x].status = "ACTIVE" /\ RowsNow' = [RowsNow EXCEPT ![x].status = "CANCELED"]
    BY <1>4, <1>6, <2>1 DEF RowsNow, SeenRow
  <2>3. QED
    BY <1>1, <2>2 DEF Rows!Cancel, RowsNow
<1>7. QED
  BY <1>2, <1>5, <1>6 DEF Granting

(* Every step is one the tasks expect. *)
LEMMA RowsNext ==
  ASSUME IInv, ConfirmationsAreLater, [Next]_vars
  PROVE  [Rows!NextRows]_<<RowsNow, now>>
<1>1. Types /\ now \in Nat
  BY BoundsAssumption DEF IInv, Types
<1>2. CASE UNCHANGED <<sub, payments>> /\ (Tick \/ UNCHANGED now)
  <2>1. RowsNow' = RowsNow
    BY <1>2 DEF RowsNow, SeenRow
  <2>2. QED
    BY <1>2, <2>1 DEF Tick, RowsNow, Rows!NextRows, Rows!ClockTicks
<1>3. ASSUME NEW s \in Sessions, CancelCommit(s)
      PROVE  [Rows!NextRows]_<<RowsNow, now>>
  BY <1>3, RowsCancel DEF Rows!NextRows
<1>4. CASE ExpireAll
  <2> DEFINE X == {x \in Subs : IsFinished(x)}
  <2>1. /\ UNCHANGED now /\ X \in SUBSET Subs
        /\ sub' = [x \in Subs |-> IF x \in X THEN [sub[x] EXCEPT !.status = "EXPIRED"] ELSE sub[x]]
    BY <1>4 DEF ExpireAll, Expired
  <2>2. \A x \in X : sub[x].status \in Granting /\ IsFinished(x)
    BY DEF IsFinished
  <2> HIDE DEF X
  <2>3. /\ \A x \in X : /\ sub'[x].status = "EXPIRED"
                         /\ sub'[x].start = sub[x].start /\ sub'[x].end = sub[x].end
        /\ \A x \in Subs \ X : SeenRow(x)' = SeenRow(x)
    BY <1>1, <2>1 DEF Types, SubscriptionRecord, SeenRow
  <2>4. (X = {} /\ UNCHANGED RowsNow) \/ Rows!Expire(X)
    BY <2>1, <2>2, <2>3, RowsExpire
  <2>5. QED
    BY <2>1, <2>4 DEF Rows!NextRows
<1>5. ASSUME NEW s \in Sessions, NEW r \in Request, NEW x \in Subs, CheckoutCommitted(s, r, x)
      PROVE  [Rows!NextRows]_<<RowsNow, now>>
  <2>1. /\ UNCHANGED now /\ r.expiring \in SUBSET Subs
        /\ \A y \in r.expiring : sub[y].status \in Granting /\ IsFinished(y)
        /\ \A y \in r.expiring : /\ sub'[y].status = "EXPIRED"
                                  /\ sub'[y].start = sub[y].start /\ sub'[y].end = sub[y].end
    BY <1>5 DEF CheckoutCommitted
  <2>2. SeenRow(x)' = SeenRow(x)
    <3>1. /\ sub[x].status \in {"NONE", "PENDING_PAYMENT"} /\ sub'[x].status = "PENDING_PAYMENT"
          /\ sub'[x].start = sub[x].start /\ sub'[x].end = sub[x].end
      BY <1>5 DEF CheckoutCommitted, OpenedIsTrue
    <3>2. QED
      BY <3>1 DEF SeenRow
  <2>3. \A y \in Subs \ (r.expiring \cup {x}) : SeenRow(y)' = SeenRow(y)
    BY <1>5 DEF CheckoutCommitted, SeenRow
  <2>4. (r.expiring = {} /\ UNCHANGED RowsNow) \/ Rows!Expire(r.expiring)
    BY <2>1, <2>2, <2>3, RowsExpire
  <2>5. QED
    BY <2>1, <2>4 DEF Rows!NextRows
<1>6. ASSUME NEW s \in Sessions, NEW r \in Request, NEW x \in Subs, Confirmed(s, r, x)
      PROVE  [Rows!NextRows]_<<RowsNow, now>>
  <2>1. CASE r.outcome # "APPROVED"
    BY <1>6, <2>1 DEF Confirmed, RowsNow, SeenRow
  <2>2. CASE r.outcome = "APPROVED"
    <3>1. /\ \A y \in Subs \ {x} : sub'[y] = sub[y]
          /\ sub[x].status = "PENDING_PAYMENT" /\ sub'[x].status = "ACTIVE"
          /\ sub'[x].start = r.asOf /\ sub'[x].end = r.asOf + Period
          /\ r = req[s] /\ r.pc = "confirming" /\ now' = now
      BY <1>6, <2>2 DEF Confirmed
    <3>2. r.asOf \in 0 .. now
      <4>1. Later(r)
        BY <3>1, MarkersAssumption DEF ConfirmationsAreLater, At
      <4>2. QED
        BY <1>1, <4>1 DEF Later, Request
    <3>3. RowsNow[x].status = "PENDING_PAYMENT"
      BY <3>1 DEF RowsNow, SeenRow
    <3>4. RowsNow' = [RowsNow EXCEPT ![x] = [status |-> "ACTIVE", start |-> r.asOf, end |-> r.asOf + Period]]
      BY <3>1 DEF RowsNow, SeenRow
    <3>5. Rows!Activate(x)
      BY <3>1, <3>2, <3>3, <3>4 DEF Rows!Activate, RowsNow
    <3>6. QED
      BY <3>5 DEF Rows!NextRows
  <2>3. QED
    BY <2>1, <2>2
<1>7. ASSUME NEW s \in Sessions, CheckoutCommit(s) PROVE [Rows!NextRows]_<<RowsNow, now>>
  BY <1>5, <1>7, CheckoutCommitStep
<1>8. ASSUME NEW s \in Sessions, Confirm(s) PROVE [Rows!NextRows]_<<RowsNow, now>>
  <2>1. CASE UNCHANGED <<sub, payments, now>>
    BY <1>2, <2>1
  <2>2. QED
    BY <1>6, <1>8, <2>1, ConfirmStep
<1>9. QED
  BY <1>2, <1>3, <1>4, <1>7, <1>8
     DEF Next, vars, Continue, CheckoutOpen, CancelOpen, CheckoutConflicts, Submit, Crash, Tick

(* No row is seen activated at the start. *)
LEMMA RowsInit == Init => Rows!StartWith({}) /\ now = 0
  BY DEF Init, Rows!StartWith, SeenRow

-----------------------------------------------------------------------------
(* PremiumAccess and Notifications may build on these steps: a user's paid *)
(* periods never overlap, though a confirmation commits a period later     *)
(* than it starts, and no row is expired before its end.                   *)
THEOREM PromisesAreKept == Spec => KeepsItsPromises
<1>1. Init => Periods!InitPaid /\ Rows!StartWith({}) /\ now = 0
  BY PeriodsInit, RowsInit
<1>2. IInv /\ ConfirmationsAreLater /\ [Next]_vars => [Periods!NextPaid]_(Periods!paidVars)
  BY PeriodsNext
<1>3. IInv /\ ConfirmationsAreLater /\ [Next]_vars => [Rows!NextRows]_<<[x \in Subs |-> SeenRow(x)], now>>
  BY RowsNext DEF RowsNow
<1>4. QED
  BY <1>1, <1>2, <1>3, ConfirmationsFollow, PTL
     DEF Spec, KeepsItsPromises, Periods!SpecPaid, Rows!SpecRows

(* Entitlement.of reads the current row of the user: it finds the paid     *)
(* period that is not over, which is what PremiumAccess asks for.          *)
EntitlementIsThePeriod ==
  \A u \in Users :
    {[start |-> sub[x].start, end |-> sub[x].end] : x \in {y \in CurrentOf(u) : Grants(y, now)}}
      = {p \in PaidBy(u) : now < p.end}

(* No period is over before its end because its row was expired: a row     *)
(* that grants access is a period that is not over, and conversely.        *)
THEOREM EntitlementsAgree == Spec => []EntitlementIsThePeriod
<1>1. IInv => EntitlementIsThePeriod
  <2> SUFFICES ASSUME IInv, NEW u \in Users
               PROVE  {[start |-> sub[x].start, end |-> sub[x].end] :
                          x \in {y \in CurrentOf(u) : Grants(y, now)}}
                        = {p \in PaidBy(u) : now < p.end}
    BY DEF EntitlementIsThePeriod
  <2> DEFINE granting == {y \in CurrentOf(u) : Grants(y, now)}
             bought == {y \in Subs : sub[y].user = u /\ sub[y].status \in Activated}
  <2>1. PaidBy(u) = {[start |-> sub[x].start, end |-> sub[x].end] : x \in bought}
    BY DEF PaidBy, Activated
  <2>2. \A y \in bought : now < sub[y].end => sub[y].status # "EXPIRED"
    <3>1. ASSUME NEW y \in Subs, sub[y].status = "EXPIRED" PROVE ~(now < sub[y].end)
      <4>1. sub[y].end <= now /\ now \in Nat /\ sub[y].end \in Nat
        BY <3>1, BoundsAssumption DEF IInv, Types, PeriodsAreWhole, SubscriptionRecord
      <4>2. QED
        BY <4>1
    <3>2. QED
      BY <3>1
  <2>3. granting = {y \in bought : now < sub[y].end}
    BY <2>2 DEF CurrentOf, Grants, Current, Granting, Activated
  <2> HIDE DEF granting, bought
  <2>4. \A p : p \in {[start |-> sub[x].start, end |-> sub[x].end] : x \in granting}
                <=> p \in {q \in PaidBy(u) : now < q.end}
    BY <2>1, <2>3
  <2>5. QED
    BY <2>4 DEF granting
<1>2. QED
  BY <1>1, InductiveInvariant, PTL
=============================================================================

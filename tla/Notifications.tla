----------------------------- MODULE Notifications -----------------------------
(***************************************************************************)
(* subscription-service: NotificationService and its Celery tasks.  A       *)
(* notice is claimed by inserting its row, sent, and committed, in one      *)
(* database transaction.  The welcome has two ways out: the message that   *)
(* the checkout enqueues, and the periodic task that looks for the         *)
(* missing ones.                                                           *)
(***************************************************************************)
EXTENDS Celery

CONSTANTS
  Subs,            \* subscriptions, each with its one paid period
  Period,          \* length of the period
  DaysBefore,      \* how long before its end a period is about to end
  RecoveryWindow,  \* how long after its start a welcome is recovered
  Reachable,       \* subscriptions whose user identity still knows
  Settled,         \* subscriptions that are under way when the run starts
  Nobody           \* a periodic task names no subscription

ASSUME NotificationsAssumption ==
  /\ Period \in Nat /\ DaysBefore \in Nat /\ RecoveryWindow \in Nat
  /\ Nobody \notin Subs /\ Reachable \subseteq Subs /\ Settled \subseteq Subs

VARIABLES
  sub,     \* committed row of subscription
  claim,   \* claim[k, x]: what the committed row of sent_notification says
  emails,  \* emails[k, x]: mails the server was given
  undone   \* undone[k, x]: transactions reverted after their mail went out

mailVars == <<sub, claim, emails, undone>>

Kinds == {"premium_welcome", "subscription_expiring"}
Notices == Kinds \X Subs

(* The rows of subscription, and what becomes of them. *)
Subscriptions == INSTANCE SubscriptionRows

Granting == Subscriptions!Granting

MissingWelcomes == <<"send_missing_welcomes", Nobody>>
NotifyExpiring == <<"notify_expiring", Nobody>>
Welcome(x) == <<"send_premium_welcome", x>>
MailMessages == {MissingWelcomes, NotifyExpiring} \cup {Welcome(x) : x \in Subs}

(* asOf is the instant the task took from its clock. *)
MailJob ==
  [message : MailMessages, asOf : Nat, todo : SUBSET Subs, current : Subs \cup {Nobody},
   phase : {"next", "claimed", "sent", "no_contact"}]

ASSUME MailIdleAssumption == Idle \notin MailJob

(* A settled subscription was welcomed and canceled at the start. *)
InitMail ==
  LET welcomed(n) == n[1] = "premium_welcome" /\ n[2] \in Settled IN
  /\ Subscriptions!StartWith(Settled)
  /\ claim = [n \in Notices |-> IF welcomed(n) THEN "sent" ELSE "none"]
  /\ emails = [n \in Notices |-> IF welcomed(n) THEN 1 ELSE 0]
  /\ undone = [n \in Notices |-> 0]

-----------------------------------------------------------------------------
(* confirm_payment, then _announce_activation: the process may die, or the *)
(* broker not answer, before the message is enqueued.                      *)
Activate(x) ==
  /\ Subscriptions!Activate(x)
  /\ \E enqueued \in BOOLEAN : queue' = IF enqueued THEN queue \cup {Welcome(x)} ELSE queue
  /\ UNCHANGED <<claim, emails, undone, job, faults>>

Cancel(x) ==
  /\ Subscriptions!Cancel(x)
  /\ UNCHANGED <<claim, emails, undone, queue, job, faults>>

ExpireSubscriptions ==
  /\ \E X \in SUBSET Subs : Subscriptions!Expire(X)
  /\ UNCHANGED <<claim, emails, undone, queue, job, faults>>

-----------------------------------------------------------------------------
DeservesWelcome(x, t) == sub[x].status \in Granting /\ t < sub[x].end

IsExpiring(x, t) == DeservesWelcome(x, t) /\ sub[x].end <= t + DaysBefore

MissesWelcome(x, t) ==
  /\ sub[x].status = "ACTIVE" /\ t < sub[x].end
  /\ t <= sub[x].start + RecoveryWindow
  /\ claim["premium_welcome", x] = "none"

KindOf(message) ==
  IF message = NotifyExpiring THEN "subscription_expiring" ELSE "premium_welcome"

SelectedActive(message) ==
  CASE message = MissingWelcomes -> {x \in Subs : MissesWelcome(x, now)}
    [] message = NotifyExpiring  -> {x \in Subs : IsExpiring(x, now) /\ sub[x].status = "ACTIVE"}
    [] OTHER                     -> {x \in {message[2]} : DeservesWelcome(x, now)}

(* The rows a task reads before it sends anything. *)
Selected(message) ==
  CASE message = MissingWelcomes -> {x \in Subs : MissesWelcome(x, now)}
    [] message = NotifyExpiring  -> {x \in Subs : IsExpiring(x, now)}
    [] OTHER                     -> {x \in {message[2]} : DeservesWelcome(x, now)}

(* The periodic tasks look at each row again, at the instant they started; *)
(* the welcome of a checkout sends what it read.                           *)
StillDue(j, x) ==
  CASE j.message = MissingWelcomes -> DeservesWelcome(x, j.asOf)
    [] j.message = NotifyExpiring  -> IsExpiring(x, j.asOf)
    [] OTHER                       -> TRUE

Notice(j) == <<KindOf(j.message), j.current>>

Does(w, phases) == Busy(w) /\ job[w].phase \in phases

(* The worker's transaction has inserted the row of the notice. *)
Holds(w, n) == Does(w, {"claimed", "sent", "no_contact"}) /\ Notice(job[w]) = n

TakeMail(w, message) ==
  LET rows == Selected(message) IN
  /\ Receives(w, message)
  /\ IF rows = {} THEN UNCHANGED job
     ELSE Starts(w, [message |-> message, asOf |-> now, todo |-> rows,
                     current |-> Nobody, phase |-> "next"])
  /\ UNCHANGED mailVars

(* The worker is done with x, and with its task if it was the last one. *)
Leaves(w, x) ==
  LET rest == job[w].todo \ {x} IN
  IF rest = {} THEN Ends(w)
  ELSE Starts(w, [job[w] EXCEPT !.phase = "next", !.todo = rest, !.current = Nobody])

ClaimWithoutIndex(w) ==
  LET j == job[w] IN
  /\ Does(w, {"next"})
  /\ \E x \in j.todo :
       IF StillDue(j, x) /\ claim[KindOf(j.message), x] = "none"
       THEN Starts(w, [j EXCEPT !.phase = "claimed", !.current = x])
       ELSE Leaves(w, x)
  /\ UNCHANGED <<queue, now, faults, mailVars>>

(* INSERT ... ON CONFLICT DO NOTHING on uq_notification_once_per_period: it *)
(* waits for a transaction that inserted the same row and has not ended,   *)
(* and finds out from a committed one that the notice was already sent.    *)
ClaimNotice(w) ==
  LET j == job[w] IN
  /\ Does(w, {"next"})
  /\ \E x \in j.todo :
       LET n == <<KindOf(j.message), x>>
           due == StillDue(j, x)
       IN  /\ due => \A v \in Workers : ~Holds(v, n)
           /\ IF due /\ claim[n] = "none"
              THEN Starts(w, [j EXCEPT !.phase = "claimed", !.current = x])
              ELSE Leaves(w, x)
  /\ UNCHANGED <<queue, now, faults, mailVars>>

(* ProfileService.contact of identity: there is none of a user that is gone. *)
HasContact(x) == x \in Reachable

(* identity gives the contact and the mail goes out, or it answers 404. *)
SendMail(w) ==
  LET n == Notice(job[w]) IN
  /\ Does(w, {"claimed"})
  /\ IF HasContact(job[w].current)
     THEN /\ emails' = [emails EXCEPT ![n] = @ + 1]
          /\ Starts(w, [job[w] EXCEPT !.phase = "sent"])
     ELSE /\ Starts(w, [job[w] EXCEPT !.phase = "no_contact"])
          /\ UNCHANGED emails
  /\ UNCHANGED <<queue, now, faults, sub, claim, undone>>

CommitNotice(w) ==
  LET j == job[w] IN
  /\ Does(w, {"sent", "no_contact"})
  /\ claim' = [claim EXCEPT ![Notice(j)] = j.phase]
  /\ Leaves(w, j.current)
  /\ UNCHANGED <<queue, now, faults, sub, emails, undone>>

(* Whatever ends a task reverts its open transaction, and with it the      *)
(* claim; a mail that went out stays out.  The rest of a loop is left.     *)
AbortMail(w) ==
  /\ TaskFails(w) \/ WorkerDies(w)
  /\ undone' = IF Does(w, {"sent"}) THEN [undone EXCEPT ![Notice(job[w])] = @ + 1] ELSE undone
  /\ UNCHANGED <<sub, claim, emails>>

BeatMail(message) == BeatSends(message) /\ UNCHANGED mailVars

ContinueMail(w) == ClaimNotice(w) \/ SendMail(w) \/ CommitNotice(w)

Next ==
  \/ \E x \in Subs : Activate(x) \/ Cancel(x)
  \/ ExpireSubscriptions
  \/ \E w \in Workers :
       \/ \E message \in MailMessages : TakeMail(w, message)
       \/ ContinueMail(w)
       \/ AbortMail(w)
  \/ BeatMail(MissingWelcomes)
  \/ BeatMail(NotifyExpiring)
  \/ TimePasses /\ UNCHANGED mailVars

Init == InitCelery /\ InitMail

vars == <<mailVars, queue, job, now, faults>>

(* beat keeps its schedule, the list is first in first out so that the     *)
(* message of a periodic task is taken in its turn, and a worker goes on   *)
(* with its task.  Nothing is assumed of users, of the clock or of what    *)
(* becomes of the message a checkout enqueued.                             *)
Fairness ==
  /\ \A message \in {MissingWelcomes, NotifyExpiring} :
       WF_vars(BeatMail(message)) /\ SF_vars(\E w \in Workers : TakeMail(w, message))
  /\ \A w \in Workers : WF_vars(ContinueMail(w))

Spec == Init /\ [][Next]_vars

FairSpec == Spec /\ Fairness

-----------------------------------------------------------------------------
(* The types of the variables. *)
TypeOK ==
  /\ sub \in [Subs -> Subscriptions!Rows]
  /\ claim \in [Notices -> {"none", "sent", "no_contact"}]
  /\ emails \in [Notices -> 0 .. 1 + MaxFaults] /\ undone \in [Notices -> 0 .. MaxFaults]
  /\ queue \subseteq MailMessages
  /\ job \in [Workers -> MailJob \cup {Idle}]

(* models.py:83: a notice does not go out twice, however often its task is *)
(* delivered, retried or raced by the safety net; and services.py:308: it  *)
(* is recorded exactly if it went out.  The one exception is a transaction *)
(* that failed after the mail had gone.                                    *)
EveryMailIsAccounted ==
  \A n \in Notices :
    LET sending == {w \in Workers : Holds(w, n) /\ Does(w, {"sent"})}
        recorded == IF claim[n] = "sent" THEN 1 ELSE 0
    IN  emails[n] = recorded + Cardinality(sending) + undone[n] /\ recorded + Cardinality(sending) <= 1

NoticeIsDue(n) ==
  IF n[1] = "premium_welcome" THEN MissesWelcome(n[2], now)
                              ELSE IsExpiring(n[2], now) /\ claim[n] = "none"

(* D-32: no notice stays due for ever, whatever became of the message of   *)
(* the checkout, of the workers and of their retries.                      *)
DueNoticesGoOut == \A n \in Notices : []<>~NoticeIsDue(n)
=============================================================================
